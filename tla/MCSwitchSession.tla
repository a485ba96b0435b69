--------------------------- MODULE MCSwitchSession ---------------------------
(* SwitchSession for TLC. *)
EXTENDS SwitchSession

Symmetry == Permutations(Pids)
=============================================================================

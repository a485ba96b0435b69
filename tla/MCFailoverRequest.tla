-------------------------- MODULE MCFailoverRequest --------------------------
(* Small instances of FailoverRequest for TLC. *)
EXTENDS FailoverRequest, TLC

Symmetry == Permutations(Requests)

MCAttempts == Requests \cup Probes
=============================================================================

------------------------ MODULE MCProviderActivation ------------------------
(* Small instances of Publication and ProviderActivation for TLC. *)
EXTENDS ProviderActivation, TLC

Symmetry == Permutations(Groups) \cup Permutations(Profiles)
=============================================================================

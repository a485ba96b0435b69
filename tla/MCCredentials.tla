---------------------------- MODULE MCCredentials ----------------------------
(* Credentials for TLC. *)
EXTENDS Credentials, TLC

Symmetry == Permutations(Accounts) \cup Permutations(Ids)
=============================================================================

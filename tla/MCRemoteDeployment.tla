------------------------- MODULE MCRemoteDeployment -------------------------
(* Small instances of Deployment and RemoteDeployment for TLC. *)
EXTENDS RemoteDeployment, TLC

Symmetry == Permutations(Versions \ {First})
=============================================================================

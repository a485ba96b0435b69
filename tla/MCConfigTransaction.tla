------------------------- MODULE MCConfigTransaction -------------------------
(* Small instances of ConfigTransaction for TLC. *)
EXTENDS ConfigTransaction, TLC

CONSTANT Movable   \* documents that need a restart

MCIdentity == [d \in Docs |-> d \in Movable]

=============================================================================

-------------------------- MODULE MCCircuitBreaker --------------------------
(* Small instances of CircuitBreaker for TLC. *)
EXTENDS CircuitBreaker, TLC

Symmetry == Permutations(Keys) \cup Permutations(Fingerprints)
                               \cup Permutations(Attempts)
=============================================================================

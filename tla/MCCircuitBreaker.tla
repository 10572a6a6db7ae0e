-------------------------- MODULE MCCircuitBreaker --------------------------
(* Requests are interchangeable.                                           *)
EXTENDS CircuitBreaker, TLC

Symmetry == Permutations(Request)
=============================================================================

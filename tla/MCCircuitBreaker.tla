-------------------------- MODULE MCCircuitBreaker ---------------------------
(* Model-checking instances of CircuitBreaker. Calls are alike. *)
EXTENDS CircuitBreaker, TLC

Symmetry == Permutations(Calls)
==============================================================================

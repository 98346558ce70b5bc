-------------------------- MODULE MCRoutingBreaker ---------------------------
(* Model-checking instances of RoutingBreaker. Routings are alike. *)
EXTENDS RoutingBreaker, TLC

Symmetry == Permutations(Routings)
==============================================================================

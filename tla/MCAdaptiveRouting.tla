-------------------------- MODULE MCAdaptiveRouting ---------------------------
(* Model-checking instance of AdaptiveRouting. Deliveries are alike, and so are
   routers and outcomes. *)
EXTENDS AdaptiveRouting, TLC

Symmetry == Permutations(Calls) \cup Permutations(Routers) \cup Permutations(Outcomes)
==============================================================================

-------------------------- MODULE MCToolInvocation ---------------------------
(* Model-checking instances of ToolInvocation. Calls are alike. *)
EXTENDS ToolInvocation, TLC

Symmetry == Permutations(Calls)
==============================================================================

--------------------------- MODULE MCRunExecution ----------------------------
(* Model-checking instances of RunExecution. Cancel requests are alike. *)
EXTENDS RunExecution, TLC

Symmetry == Permutations(Cancellers)
==============================================================================

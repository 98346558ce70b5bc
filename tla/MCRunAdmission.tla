--------------------------- MODULE MCRunAdmission ----------------------------
(* Model-checking instances of RunAdmission. Requests, replicas and runs are
   alike; symmetry is used by the runs without a liveness property only. *)
EXTENDS RunAdmission, TLC

Symmetry == Permutations(Requests) \cup Permutations(Replicas) \cup Permutations(Runs)
==============================================================================

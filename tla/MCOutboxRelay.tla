---------------------------- MODULE MCOutboxRelay ----------------------------
(* Model-checking instances of OutboxRelay. Relays are alike; rows are not,
   they are claimed in the order of their ids. *)
EXTENDS OutboxRelay, TLC

Symmetry == Permutations(Relays)
==============================================================================

----------------------------- MODULE AtLeastOnce -----------------------------
(***************************************************************************)
(* What the outbox promises of an event: it is tried a bounded number of   *)
(* times, each try reaches its destination at most once, and it is settled *)
(* for good: as delivered only if its last try got there, as given up only *)
(* when no try is left. Implemented by OutboxRelay when one relay drains   *)
(* the table, wherever it dies.                                            *)
(***************************************************************************)
EXTENDS Naturals

CONSTANTS Rows, MaxAttempts

VARIABLES
    tries,      \* tries begun
    published,  \* those that reached the destination
    fate

Init ==
    /\ tries = [r \in Rows |-> 0] /\ published = [r \in Rows |-> {}]
    /\ fate = [r \in Rows |-> "open"]

(* A batch is begun, and what has no try left is given up on. *)
Begin(batch, spent) ==
    /\ \A r \in batch : fate[r] = "open" /\ tries[r] < MaxAttempts
    /\ \A r \in spent : fate[r] = "open" /\ tries[r] = MaxAttempts
    /\ tries' = [r \in Rows |-> IF r \in batch THEN tries[r] + 1 ELSE tries[r]]
    /\ fate' = [r \in Rows |-> IF r \in spent THEN "given_up" ELSE fate[r]]
    /\ UNCHANGED published

Publish(r) ==
    /\ fate[r] = "open" /\ tries[r] \notin published[r]
    /\ published' = [published EXCEPT ![r] = @ \cup {tries[r]}]
    /\ UNCHANGED <<tries, fate>>

Settle(r) ==
    /\ fate[r] = "open"
    /\ \/ tries[r] \in published[r] /\ fate' = [fate EXCEPT ![r] = "delivered"]
       \/ tries[r] = MaxAttempts /\ fate' = [fate EXCEPT ![r] = "given_up"]
    /\ UNCHANGED <<tries, published>>

Next ==
    \/ \E batch, spent \in SUBSET Rows : Begin(batch, spent)
    \/ \E r \in Rows : Publish(r) \/ Settle(r)

Spec == Init /\ [][Next]_<<tries, published, fate>>
==============================================================================

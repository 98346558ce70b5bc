--------------------------- MODULE IdempotentCall ----------------------------
(***************************************************************************)
(* What one idempotency key promises the callers that share it: one of     *)
(* them may do the work, once; the key gets one outcome; and everyone who  *)
(* is told an outcome is told that one. Implemented by ToolInvocation.     *)
(***************************************************************************)
CONSTANTS Callers, NoOne, Outcomes, NeedsWork

VARIABLES holder, outcome, worked, told

Init ==
    /\ holder = NoOne /\ outcome = "absent"
    /\ worked = {} /\ told = [c \in Callers |-> "none"]

(* The key is taken, with an outcome or before there is one. *)
Take(c) ==
    /\ outcome = "absent" /\ holder' = c
    /\ outcome' \in {"requested"} \cup (Outcomes \ NeedsWork)

(* Whoever finds out settles the key; some outcomes are only for work done. *)
Conclude ==
    /\ outcome = "requested" /\ outcome' \in Outcomes
    /\ outcome' \in NeedsWork => worked = {holder}
    /\ UNCHANGED holder

Work(c) ==
    /\ holder = c /\ outcome # "refused"
    /\ worked = {} /\ worked' = {c}
    /\ UNCHANGED <<holder, outcome, told>>

(* A caller learns how the key stands, or that something went wrong. *)
Hear(c) ==
    /\ told[c] = "none"
    /\ \E what \in {"raised"} \cup IF outcome' \in Outcomes THEN {outcome'}
                                   ELSE {"in_progress"} :
            told' = [told EXCEPT ![c] = what]

Next ==
    \E c \in Callers :
        \/ Work(c)
        \/ /\ Take(c) \/ Conclude \/ UNCHANGED <<holder, outcome>>
           /\ Hear(c) \/ UNCHANGED told
           /\ UNCHANGED worked

Spec == Init /\ [][Next]_<<holder, outcome, worked, told>>
==============================================================================

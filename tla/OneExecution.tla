---------------------------- MODULE OneExecution -----------------------------
(***************************************************************************)
(* What the API promises everybody who asks for a run: one execution is    *)
(* recorded for it and stays; only the step that records it may start its  *)
(* workflow; and a request is told once, that execution or a refusal.      *)
(* Implemented by RunAdmission, whichever replicas are asked and however   *)
(* they crash.                                                             *)
(***************************************************************************)
CONSTANTS Requests, Runs, NoOne,
    Refusals        \* what a request hears that gets no execution

VARIABLES row, started, asked, told

Init ==
    /\ row = [n \in Runs |-> NoOne] /\ started = {}
    /\ asked = [q \in Requests |-> NoOne] /\ told = [q \in Requests |-> "none"]

Hear(q) ==
    /\ asked'[q] # NoOne /\ told[q] = "none"
    /\ \E what \in Refusals \cup ({row[asked'[q]]} \ {NoOne}) :
            told' = [told EXCEPT ![q] = what]

(* A request asks for a run, and may be answered from its record at once. *)
Ask(q, n) ==
    /\ asked[q] = NoOne /\ asked' = [asked EXCEPT ![q] = n]
    /\ Hear(q) \/ UNCHANGED told
    /\ UNCHANGED <<row, started>>

(* An execution that is recorded without its request being told is never
   started. *)
Record(q) ==
    /\ asked[q] \in Runs /\ row[asked[q]] = NoOne /\ told[q] = "none"
    /\ row' = [row EXCEPT ![asked[q]] = q]
    /\ \/ started' = started \cup {q} /\ told' = [told EXCEPT ![q] = q]
       \/ UNCHANGED started /\ \E what \in Refusals : told' = [told EXCEPT ![q] = what]
    /\ UNCHANGED asked

(* Requests are lost with the process that serves them. *)
Lose ==
    /\ \E lost \in SUBSET {q \in Requests : asked[q] # NoOne /\ told[q] = "none"},
          what \in Refusals :
            told' = [q \in Requests |-> IF q \in lost THEN what ELSE told[q]]
    /\ UNCHANGED <<row, started, asked>>

Next ==
    \/ \E q \in Requests :
        \/ \E n \in Runs : Ask(q, n)
        \/ Record(q)
        \/ Hear(q) /\ UNCHANGED <<row, started, asked>>
    \/ Lose

Spec == Init /\ [][Next]_<<row, started, asked, told>>
==============================================================================

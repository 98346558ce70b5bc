--------------------------- MODULE SerialLearning ----------------------------
(***************************************************************************)
(* What the shared learning state promises the routers: outcomes are       *)
(* applied to it one at a time, as if by one writer; none is learned from  *)
(* again before it is outdated and none is taken back; and a delivery is   *)
(* told that its outcome is in the state only when it is. Implemented by   *)
(* AdaptiveRouting, whatever overlaps, repeats or goes unanswered.         *)
(***************************************************************************)
EXTENDS Naturals

CONSTANTS Outcomes, Calls

VARIABLES
    revision,
    learned, noted,     \* how often each outcome was applied, as which
    told,               \* the outcome each delivery was last told is applied
    outdated            \* the outcomes too old to be judged eligible

Init ==
    /\ revision = 0
    /\ learned = [o \in Outcomes |-> 0] /\ noted = [o \in Outcomes |-> 0]
    /\ told = [c \in Calls |-> "none"]
    /\ outdated = {}

Learn(o) ==
    /\ learned[o] = 0 \/ o \in outdated
    /\ learned' = [learned EXCEPT ![o] = @ + 1] /\ UNCHANGED noted

Note(o) == noted' = [noted EXCEPT ![o] = @ + 1] /\ UNCHANGED learned

Apply(o) == revision' = revision + 1 /\ (Learn(o) \/ Note(o))

(* The state it is told of is the one the same step leaves behind. *)
Tell(c) ==
    \E what \in {"none"} \cup {o \in Outcomes : learned'[o] + noted'[o] > 0} :
        told' = [told EXCEPT ![c] = what]

Next ==
    /\ (\E o \in Outcomes : Apply(o)) \/ UNCHANGED <<revision, learned, noted>>
    /\ (\E c \in Calls : Tell(c)) \/ UNCHANGED told
    /\ outdated \subseteq outdated' /\ outdated' \subseteq Outcomes

Spec == Init /\ [][Next]_<<revision, learned, noted, told, outdated>>
==============================================================================

--------------------------- MODULE ResumableStream ---------------------------
(***************************************************************************)
(* What the stream of a run promises its clients, whatever becomes of      *)
(* their connections: events are recorded one by one; each client receives *)
(* every event after all those before it; and a client that is told the    *)
(* stream is complete has the event that ended the run, and is served no   *)
(* more. Implemented by RunStream.                                         *)
(***************************************************************************)
EXTENDS Naturals, FiniteSets

CONSTANT Readers

VARIABLES
    recorded,   \* the events of the log
    ended,      \* the event the run last ended with, 0 before
    seen,       \* what each client has received
    goal,       \* the end each client is being brought to, 0 if it is not
    complete    \* clients that were told they have everything

Init ==
    /\ recorded = {} /\ ended = 0
    /\ seen = [r \in Readers |-> {}] /\ goal = [r \in Readers |-> 0]
    /\ complete = {}

Record ==
    /\ LET e == Cardinality(recorded) + 1 IN
        /\ recorded' = recorded \cup {e}
        /\ ended' \in {ended, e}
    /\ UNCHANGED <<seen, goal, complete>>

(* A client learns of an end the run has reached, or loses touch. *)
Aim(r) ==
    /\ \E end \in {ended, 0} : goal' = [goal EXCEPT ![r] = end]
    /\ UNCHANGED <<seen, complete>>

Receive(r) ==
    \E e \in recorded :
        /\ 1..(e - 1) \subseteq seen[r]
        /\ seen' = [seen EXCEPT ![r] = @ \cup {e}]

Complete(r) ==
    /\ goal[r] # 0 /\ 1..goal[r] \subseteq seen'[r]
    /\ complete' = complete \cup {r}

Serve(r) ==
    /\ r \notin complete
    /\ \/ Aim(r)
       \/ /\ Receive(r) \/ UNCHANGED seen
          /\ Complete(r) \/ UNCHANGED complete
          /\ UNCHANGED goal
    /\ UNCHANGED <<recorded, ended>>

Next == Record \/ \E r \in Readers : Serve(r)

Spec == Init /\ [][Next]_<<recorded, ended, seen, goal, complete>>
==============================================================================

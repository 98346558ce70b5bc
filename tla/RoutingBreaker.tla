--------------------------- MODULE RoutingBreaker ----------------------------
(***************************************************************************)
(* The circuit breaker around query routing: CircuitBreaker of             *)
(* src/reliability/retry_strategies.py as MASRouter.route                  *)
(* (src/ai_brain/router/masr.py) uses it. The router runs an empty call    *)
(* through the breaker to be let in, which already counts as a success,    *)
(* and reports the end of the routing itself afterwards. A call that is    *)
(* turned away is reported as a failure of the routing.                    *)
(*                                                                         *)
(* The breaker's lock is never held across a suspension, so each of its    *)
(* operations is one step; routings overlap in between.                    *)
(***************************************************************************)
EXTENDS Naturals

CONSTANTS
    Routings,           \* route calls at once; each may be made again
    FailureThreshold,   \* failure_threshold
    SuccessThreshold,   \* success_threshold
    HalfOpenRequests,   \* half_open_requests
    Timeout             \* timeout, in ticks

ASSUME RoutingAssumption ==
    {FailureThreshold, SuccessThreshold, HalfOpenRequests, Timeout} \subseteq Nat \ {0}

VARIABLES
    state,      \* _state
    failures,   \* consecutive_failures, counted up to the threshold
    successes,  \* consecutive_successes, counted up to the threshold
    trials,     \* _half_open_counter
    wait,       \* time left until an open breaker may be tried
    routing,    \* the route calls that were let in and have not ended
    streak      \* routings that failed since one last succeeded (observed only)

vars == <<state, failures, successes, trials, wait, routing, streak>>

Init ==
    /\ state = "closed" /\ failures = 0 /\ successes = 0 /\ trials = 0 /\ wait = 0
    /\ routing = {} /\ streak = 0

UpTo(limit, n) == IF n < limit THEN n ELSE limit

(* _should_attempt_reset, and the state and counter the call then finds. *)
Reset == state = "open" /\ wait = 0
Entered == IF Reset THEN "half_open" ELSE state
Used == IF Reset THEN 0 ELSE trials

LetIn == \/ Entered = "closed"
         \/ Entered = "half_open" /\ Used < HalfOpenRequests

(* Slip: enough successes close the breaker in any state. *)
OnSuccessAnywhere(s) ==
    /\ successes' = UpTo(SuccessThreshold, successes + 1) /\ failures' = 0
    /\ state' = IF successes' = SuccessThreshold THEN "closed" ELSE s

(* Slip: a success leaves the count of failures alone. *)
OnSuccessKeepsFailures(s) ==
    /\ successes' = UpTo(SuccessThreshold, successes + 1) /\ failures' = failures
    /\ state' = IF s = "half_open" /\ successes' = SuccessThreshold
                THEN "closed" ELSE s

(* _on_success and _on_failure of a breaker in state s. *)
OnSuccess(s) ==
    /\ successes' = UpTo(SuccessThreshold, successes + 1) /\ failures' = 0
    /\ state' = IF s = "half_open" /\ successes' = SuccessThreshold
                THEN "closed" ELSE s

OnFailure(s) ==
    /\ failures' = UpTo(FailureThreshold, failures + 1) /\ successes' = 0
    /\ state' = IF \/ s = "closed" /\ failures' = FailureThreshold
                   \/ s = "half_open"
                THEN "open" ELSE s

(* Slip: every failure restarts the timeout. *)
RearmAlways == wait' = IF state' = "open" THEN Timeout ELSE wait

(* The timeout runs from the moment the breaker opened. *)
Rearm == wait' = IF state' = "open" /\ state # "open" THEN Timeout ELSE wait

(* route up to its first suspension: call(lambda: None). *)
Route(c) ==
    /\ c \notin routing /\ LetIn
    /\ trials' = IF Entered = "half_open" THEN Used + 1 ELSE trials
    /\ OnSuccess(Entered) /\ Rearm
    /\ routing' = routing \cup {c}
    /\ UNCHANGED streak

(* Slip: a routing that was not let in is not reported. *)
TurnedAwaySilently(c) ==
    /\ c \notin routing /\ ~LetIn
    /\ UNCHANGED vars

(* The breaker raises inside route's own try block, and the caller gets the
   fallback decision. *)
TurnedAway(c) ==
    /\ c \notin routing /\ ~LetIn
    /\ OnFailure(Entered) /\ Rearm
    /\ UNCHANGED <<trials, routing, streak>>

Leave(c) == c \in routing /\ routing' = routing \ {c}

(* A decision, cached or computed; an error; a cancellation, which the router's
   `except Exception` does not see. *)
Decided(c) ==
    /\ Leave(c) /\ OnSuccess(state) /\ Rearm
    /\ streak' = 0
    /\ UNCHANGED trials

RoutingFails(c) ==
    /\ Leave(c) /\ OnFailure(state) /\ Rearm
    /\ streak' = UpTo(FailureThreshold, streak + 1)
    /\ UNCHANGED trials

Cancelled(c) ==
    /\ Leave(c)
    /\ UNCHANGED <<state, failures, successes, trials, wait, streak>>

Tick ==
    /\ wait > 0 /\ wait' = wait - 1
    /\ UNCHANGED <<state, failures, successes, trials, routing, streak>>

Ends(c) == Decided(c) \/ RoutingFails(c) \/ Cancelled(c)

Next == \/ \E c \in Routings : Route(c) \/ TurnedAway(c) \/ Ends(c)
        \/ Tick

Spec == Init /\ [][Next]_vars

(* Time passes, a routing ends, and queries keep coming. *)
Asked == \E c \in Routings : Route(c) \/ TurnedAway(c)
FairSpec == /\ Spec /\ WF_vars(Tick) /\ WF_vars(Asked)
            /\ \A c \in Routings : WF_vars(Ends(c))

-----------------------------------------------------------------------------
(* Every variable holds values the code could store in it. *)
TypeOK ==
    /\ state \in {"closed", "open", "half_open"}
    /\ failures \in 0..FailureThreshold /\ streak \in 0..FailureThreshold
    /\ successes \in 0..SuccessThreshold
    /\ trials \in 0..HalfOpenRequests
    /\ wait \in 0..Timeout
    /\ routing \subseteq Routings

(* An open breaker stays open for its whole timeout, whatever routings let in
   before it opened report meanwhile. *)
OpenHolds == [][state = "open" /\ wait > 0 => state' = "open"]_vars

(* The trial of a half-open breaker is conclusive: it closes or reopens, even
   if the only routing on trial is cancelled and reports nothing, because the
   next query is turned away and counts as a failure. *)
TrialConcludes == state = "half_open" ~> state # "half_open"

(* An open breaker is tried again. *)
OpenIsTried == state = "open" ~> state # "open"

(* Turned-away queries, late reports and cancelled routings never open a closed
   breaker: when it opens, a threshold of routings have failed with none
   deciding in between. (The converse does not hold: being let in is counted
   as a success, so failures one after another never open it.) *)
OpensOnEvidence ==
    [][state = "closed" /\ state' = "open" => streak' = FailureThreshold]_vars
==============================================================================

--------------------------- MODULE CircuitBreaker ----------------------------
(***************************************************************************)
(* The per-tool circuit breaker of one process (src/core/tools/circuit.py) *)
(* and the way ToolBoundary.invoke (src/core/tools/boundary.py) uses it:   *)
(* the clock is read when a call begins, the breaker is asked after the    *)
(* audit store was searched, and the answer of the tool is recorded long   *)
(* after. Calls overlap freely, so a result may reach a breaker that has   *)
(* changed state since the call was admitted.                              *)
(***************************************************************************)
EXTENDS Integers

CONSTANTS
    Calls,          \* calls in progress at once; each may be made again
    Threshold,      \* failure_threshold
    Cooldown,       \* cooldown_seconds, in ticks
    MaxTime         \* bound: ticks of the clock

ASSUME BreakerAssumption ==
    /\ {Threshold, Cooldown} \subseteq Nat \ {0}
    /\ MaxTime \in Nat

VARIABLES
    state,      \* _state
    failures,   \* _consecutive_failures
    openedAt,   \* _opened_at; -1 for None
    slot,       \* _half_open_in_flight
    call,       \* each invocation: where it is, when it began, if it is a trial
    clock

breaker == <<state, failures, openedAt, slot>>
vars == <<state, failures, openedAt, slot, call, clock>>

Out == [pc |-> "out", at |-> 0, trial |-> FALSE]

Init ==
    /\ state = "closed" /\ failures = 0 /\ openedAt = -1 /\ slot = FALSE
    /\ call = [c \in Calls |-> Out]
    /\ clock = 0

Leave(c) == call' = [call EXCEPT ![c] = Out]
Admit(c, trial) ==
    call' = [call EXCEPT ![c].pc = "admission", ![c].trial = trial]

-----------------------------------------------------------------------------
(* The breaker's own operations. *)

Open ==
    /\ state' = "open" /\ openedAt' = clock /\ failures' = Threshold

(* Slip: an earlier failure count survives a success. *)
RecordSuccessOnly ==
    /\ state' = "closed" /\ openedAt' = -1 /\ slot' = FALSE
    /\ UNCHANGED failures

RecordSuccess ==
    /\ state' = "closed" /\ failures' = 0
    /\ openedAt' = -1 /\ slot' = FALSE

RecordAbandoned ==
    /\ slot' = FALSE
    /\ UNCHANGED <<state, failures, openedAt>>

RecordFailure ==
    /\ slot' = FALSE
    /\ IF state = "half_open" \/ failures + 1 >= Threshold
       THEN Open
       ELSE failures' = failures + 1 /\ UNCHANGED <<state, openedAt>>

(* allows(now), with the instant the call began. *)
Allows(c) ==
    /\ call[c].pc = "looking"
    /\ \/ /\ state = "closed"
          /\ Admit(c, FALSE) /\ UNCHANGED breaker
       \/ /\ \/ state = "half_open" /\ ~slot
             \/ state = "open" /\ call[c].at - openedAt >= Cooldown
          /\ state' = "half_open" /\ slot' = TRUE
          /\ Admit(c, TRUE) /\ UNCHANGED <<failures, openedAt>>
       \/ /\ \/ state = "half_open" /\ slot
             \/ state = "open" /\ call[c].at - openedAt < Cooldown
          /\ Leave(c) /\ UNCHANGED breaker
    /\ UNCHANGED clock

-----------------------------------------------------------------------------
(* invoke *)

Begin(c) ==
    /\ call[c].pc = "out"
    /\ call' = [call EXCEPT ![c] = [pc |-> "looking", at |-> clock, trial |-> FALSE]]
    /\ UNCHANGED <<breaker, clock>>

(* Answered by an earlier record of the same call, or rejected input. *)
AnsweredEarly(c) ==
    /\ call[c].pc = "looking"
    /\ Leave(c) /\ UNCHANGED <<breaker, clock>>

(* The requested row loses its idempotency race, cannot be written or
   published, or the call is cancelled meanwhile: every one of these returns
   past the breaker. *)
LeavesAdmission(c) ==
    /\ call[c].pc = "admission"
    /\ Leave(c) /\ UNCHANGED <<breaker, clock>>

Dispatch(c) ==
    /\ call[c].pc = "admission"
    /\ call' = [call EXCEPT ![c].pc = "running"]
    /\ UNCHANGED <<breaker, clock>>

(* _run_tool: a valid output; an error, a timeout, a lost lease or an invalid
   output; a cancellation. *)
Finish(c) ==
    /\ call[c].pc = "running"
    /\ RecordSuccess \/ RecordFailure \/ RecordAbandoned
    /\ Leave(c) /\ UNCHANGED clock

Tick ==
    /\ clock < MaxTime /\ clock' = clock + 1
    /\ UNCHANGED <<breaker, call>>

Next ==
    \/ \E c \in Calls : \/ Begin(c) \/ AnsweredEarly(c) \/ Allows(c)
                        \/ LeavesAdmission(c) \/ Dispatch(c) \/ Finish(c)
    \/ Tick

Spec == Init /\ [][Next]_vars

-----------------------------------------------------------------------------
(* Every variable holds values the code could store in it. *)
TypeOK ==
    /\ state \in {"closed", "open", "half_open"}
    /\ failures \in 0..Threshold
    /\ openedAt \in -1..MaxTime
    /\ slot \in BOOLEAN
    /\ call \in [Calls -> [pc : {"out", "looking", "admission", "running"},
                           at : 0..MaxTime, trial : BOOLEAN]]
    /\ clock \in 0..MaxTime

(* The breaker refuses calls exactly when a full threshold of failures has no
   later success to set against it, whatever order late results arrive in. *)
RefusesOnEvidence ==
    /\ state = "closed" <=> failures < Threshold
    /\ state = "closed" <=> openedAt = -1
    /\ slot => state # "closed"

Trial(c) == call[c].trial

(* "a slot consumed by a probe nobody is waiting for any more is a slot no
   later caller can ever take" (_run_tool): while the breaker waits for a
   trial, some call is that trial. *)
SlotHasHolder == (state = "half_open" /\ slot) => \E c \in Calls : Trial(c)
==============================================================================

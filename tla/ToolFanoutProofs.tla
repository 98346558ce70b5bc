-------------------------- MODULE ToolFanoutProofs ---------------------------
(***************************************************************************)
(* Proofs about CircuitBreaker and ToolFanout, for any calls, thresholds,  *)
(* cooldowns and bounds on concurrency.                                    *)
(***************************************************************************)
EXTENDS ToolFanout, FiniteSetTheorems, TLAPS

Safe == TypeOK /\ RefusesOnEvidence

CallRecord == [pc : {"out", "looking", "admission", "running"},
               at : 0..MaxTime, trial : BOOLEAN]

LEMMA Bounds == Threshold \in Nat /\ Threshold > 0 /\ MaxTime \in Nat
BY BreakerAssumption

(* A breaker starts closed, with no evidence against its tool. *)
LEMMA SafeInit == Init => Safe
<1> SUFFICES ASSUME Init PROVE Safe
  OBVIOUS
<1>1. /\ failures \in 0..Threshold /\ openedAt \in -1..MaxTime /\ clock \in 0..MaxTime
      /\ failures < Threshold
  BY Bounds DEF Init
<1>2. call \in [Calls -> CallRecord]
  BY Bounds DEF Init, Out, CallRecord
<1> QED BY <1>1, <1>2 DEF Init, Safe, TypeOK, RefusesOnEvidence, CallRecord

(* What each operation of the breaker leaves behind. *)
LEMMA Records ==
    ASSUME Safe, RecordSuccess \/ RecordFailure \/ RecordAbandoned
    PROVE  /\ state' \in {"closed", "open", "half_open"}
           /\ failures' \in 0..Threshold
           /\ openedAt' \in -1..MaxTime
           /\ slot' \in BOOLEAN
           /\ state' = "closed" <=> failures' < Threshold
           /\ state' = "closed" <=> openedAt' = -1
           /\ slot' => state' # "closed"
<1>1. /\ state \in {"closed", "open", "half_open"} /\ failures \in 0..Threshold
      /\ openedAt \in -1..MaxTime /\ clock \in 0..MaxTime
      /\ state = "closed" <=> failures < Threshold
      /\ state = "closed" <=> openedAt = -1
  BY DEF Safe, TypeOK, RefusesOnEvidence
<1>2. CASE RecordSuccess
  <2>1. 0 \in 0..Threshold /\ -1 \in -1..MaxTime /\ 0 < Threshold
    BY Bounds
  <2> QED BY <1>2, <2>1 DEF RecordSuccess
<1>3. CASE RecordFailure
  <2>1. CASE state = "half_open" \/ failures + 1 >= Threshold
    <3>1. Threshold \in 0..Threshold /\ clock \in -1..MaxTime /\ clock # -1
          /\ ~(Threshold < Threshold)
      BY <1>1, Bounds
    <3>2. state' = "open" /\ failures' = Threshold /\ openedAt' = clock /\ slot' = FALSE
      BY <1>3, <2>1 DEF RecordFailure, Open
    <3> QED BY <3>1, <3>2
  <2>2. CASE ~(state = "half_open" \/ failures + 1 >= Threshold)
    <3>1. failures + 1 \in 0..Threshold /\ failures + 1 < Threshold /\ failures < Threshold
      BY <1>1, <2>2, Bounds
    <3>2. /\ state' = state /\ failures' = failures + 1 /\ openedAt' = openedAt
          /\ slot' = FALSE
      BY <1>3, <2>2 DEF RecordFailure
    <3> QED BY <1>1, <3>1, <3>2
  <2> QED BY <2>1, <2>2
<1>4. CASE RecordAbandoned
  BY <1>1, <1>4 DEF RecordAbandoned
<1> QED BY <1>2, <1>3, <1>4

(* Every step of a call, and every tick, keeps the breaker consistent with its
   evidence. *)
LEMMA SafeStep == Safe /\ [Next]_vars => Safe'
<1> SUFFICES ASSUME Safe, [Next]_vars PROVE Safe'
  OBVIOUS
<1>t. /\ call \in [Calls -> CallRecord] /\ clock \in 0..MaxTime /\ MaxTime \in Nat
      /\ openedAt \in -1..MaxTime /\ failures \in 0..Threshold
  BY BreakerAssumption DEF Safe, TypeOK, CallRecord
<1>o. ASSUME NEW c \in Calls, Leave(c) PROVE call' \in [Calls -> CallRecord]
  BY <1>t, <1>o DEF Leave, Out, CallRecord
<1>p. ASSUME NEW c \in Calls, NEW pc \in {"admission", "running"}
      PROVE  /\ [call EXCEPT ![c].pc = pc] \in [Calls -> CallRecord]
             /\ \A trial \in BOOLEAN :
                    [call EXCEPT ![c].pc = pc, ![c].trial = trial] \in [Calls -> CallRecord]
  BY <1>t DEF CallRecord
<1>1. ASSUME NEW c \in Calls,
             Begin(c) \/ AnsweredEarly(c) \/ LeavesAdmission(c) \/ Dispatch(c)
      PROVE  Safe'
  <2>1. call' \in [Calls -> CallRecord]
    <3>1. CASE Begin(c)
      BY <1>t, <3>1 DEF Begin, CallRecord
    <3>2. CASE AnsweredEarly(c) \/ LeavesAdmission(c)
      BY <1>o, <3>2 DEF AnsweredEarly, LeavesAdmission
    <3>3. CASE Dispatch(c)
      BY <1>p, <3>3 DEF Dispatch
    <3> QED BY <1>1, <3>1, <3>2, <3>3
  <2>2. UNCHANGED <<breaker, clock>>
    BY <1>1 DEF Begin, AnsweredEarly, LeavesAdmission, Dispatch
  <2> QED BY <2>1, <2>2 DEF breaker, Safe, TypeOK, RefusesOnEvidence, CallRecord
<1>2. ASSUME NEW c \in Calls, Allows(c) PROVE Safe'
  <2>1. call' \in [Calls -> CallRecord]
    <3>1. Leave(c) \/ \E trial \in BOOLEAN : Admit(c, trial)
      BY <1>2 DEF Allows
    <3>2. \A trial \in BOOLEAN :
            [call EXCEPT ![c].pc = "admission", ![c].trial = trial] \in [Calls -> CallRecord]
      BY <1>p
    <3> QED BY <3>1, <3>2, <1>o DEF Admit
  <2>2. /\ UNCHANGED <<failures, openedAt, clock>>
        /\ \/ state' = state /\ slot' = slot
           \/ state # "closed" /\ state' = "half_open" /\ slot' = TRUE
    BY <1>2 DEF Allows, breaker
  <2>3. CASE state' = state /\ slot' = slot
    BY <2>1, <2>2, <2>3 DEF Safe, TypeOK, RefusesOnEvidence, CallRecord
  <2>4. CASE state # "closed" /\ state' = "half_open" /\ slot' = TRUE
    <3>1. ~(failures < Threshold) /\ openedAt # -1
      BY <2>4 DEF Safe, RefusesOnEvidence
    <3> QED BY <2>1, <2>2, <2>4, <3>1 DEF Safe, TypeOK, RefusesOnEvidence, CallRecord
  <2> QED BY <2>2, <2>3, <2>4
<1>3. ASSUME NEW c \in Calls, Finish(c) PROVE Safe'
  <2>1. call' \in [Calls -> CallRecord] /\ clock' = clock
    BY <1>3, <1>o DEF Finish
  <2> QED BY <1>3, <1>t, <2>1, Records DEF Finish, Safe, TypeOK, RefusesOnEvidence, CallRecord
<1>4. CASE Tick
  BY <1>4, <1>t DEF Tick, breaker, Safe, TypeOK, RefusesOnEvidence
<1>5. CASE UNCHANGED vars
  BY <1>5 DEF vars, Safe, TypeOK, RefusesOnEvidence
<1> QED BY <1>1, <1>2, <1>3, <1>4, <1>5 DEF Next

(* In whatever order results arrive, every variable of the breaker keeps its
   type; the failure count in particular stops at the threshold. *)
THEOREM BreakerIsTyped == Spec => []TypeOK
<1>1. Safe => TypeOK
  BY DEF Safe
<1> QED BY <1>1, SafeInit, SafeStep, PTL DEF Spec

(* The breaker refuses calls exactly on a full threshold of failures without a
   later success, whoever calls it. *)
THEOREM BreakerGoesByEvidence == Spec => []RefusesOnEvidence
<1>1. Safe => RefusesOnEvidence
  BY DEF Safe
<1> QED BY <1>1, SafeInit, SafeStep, PTL DEF Spec

-----------------------------------------------------------------------------
(* The workers of a runner use the breaker as its calls do: cancelling them is
   nothing new to it. *)
LEMMA FanoutStep == [FanoutNext]_fanoutVars => [Next]_vars
<1> SUFFICES ASSUME [FanoutNext]_fanoutVars PROVE [Next]_vars
  OBVIOUS
<1>1. ASSUME NEW c \in Calls, WorkerUnwinds(c) PROVE Next
  BY <1>1 DEF WorkerUnwinds, Next, Finish
<1>2. ASSUME NEW c \in Calls, WorkerCalls(c) PROVE Next
  BY <1>2 DEF WorkerCalls, Next
<1>3. ASSUME NEW c \in Calls, WorkerEnds(c) PROVE UNCHANGED vars
  BY <1>3 DEF WorkerEnds
<1>4. CASE RunnerStep
  BY <1>4 DEF RunnerStep
<1>5. CASE Tick
  BY <1>5 DEF Next
<1>6. CASE UNCHANGED fanoutVars
  BY <1>6 DEF fanoutVars
<1> QED BY <1>1, <1>2, <1>3, <1>4, <1>5, <1>6 DEF FanoutNext

(* Everything true of the breaker under any calls is true of it under runs. *)
THEOREM FanoutUsesBreaker == FanoutSpec => Spec
<1>1. FanoutInit => Init
  BY DEF FanoutInit
<1> QED BY <1>1, FanoutStep, PTL DEF FanoutSpec, Spec

(* The breaker that the workers of supervised runs share goes by the evidence. *)
THEOREM FanoutGoesByEvidence == FanoutSpec => []RefusesOnEvidence
BY FanoutUsesBreaker, BreakerGoesByEvidence, PTL

-----------------------------------------------------------------------------
(* What ties the calls to their run: a call is under way only for a task that
   is admitted and has not ended, and outside a run there are no such tasks. *)
CallsOfRun ==
    /\ phase \in R!Phases
    /\ task \in [Calls -> {"queued", "active", "gone", "value", "error"}]
    /\ \A c \in Calls : call[c].pc # "out" => task[c] = "active"
    /\ ~R!Running => \A c \in Calls : task[c] \in {"queued", "gone"}

LEMMA CallsOfRunInit == FanoutInit => CallsOfRun
BY DEF FanoutInit, Init, R!Init, CallsOfRun, R!Phases, R!Running, Out

(* No call moves another one. *)
LEMMA OnlyItsCaller ==
    ASSUME NEW c \in Calls, call \in [Calls -> CallRecord],
           \/ Begin(c) \/ AnsweredEarly(c) \/ Allows(c)
           \/ LeavesAdmission(c) \/ Dispatch(c) \/ Finish(c)
    PROVE  \A d \in Calls \ {c} : call'[d] = call[d]
BY DEF Begin, AnsweredEarly, Allows, LeavesAdmission, Dispatch, Finish, Leave, Admit

LEMMA CallsOfRunStep == Safe /\ CallsOfRun /\ [FanoutNext]_fanoutVars => CallsOfRun'
<1> SUFFICES ASSUME Safe, CallsOfRun, [FanoutNext]_fanoutVars PROVE CallsOfRun'
  OBVIOUS
<1>t. call \in [Calls -> CallRecord]
  BY DEF Safe, TypeOK, CallRecord
<1> USE DEF R!Phases, R!Running
<1>1. ASSUME NEW mode \in BOOLEAN, R!Start(mode), UNCHANGED vars PROVE CallsOfRun'
  <2>1. /\ task' = R!AdmitNext([i \in Calls |-> "queued"])
        /\ phase' = IF R!Admitted(task') = {} THEN "returned" ELSE "waiting"
        /\ phase \notin {"waiting", "unwinding"} /\ UNCHANGED call
    BY <1>1 DEF R!Start, vars
  <2>2. task' \in [Calls -> {"queued", "active"}]
    BY <2>1 DEF R!AdmitNext, R!Queued
  <2>3. \A c \in Calls : call[c].pc = "out"
    BY <2>1 DEF CallsOfRun
  <2>4. phase' = "returned" => \A c \in Calls : task'[c] = "queued"
    BY <2>1, <2>2 DEF R!Admitted
  <2> QED BY <2>1, <2>2, <2>3, <2>4 DEF CallsOfRun
<1>2. CASE R!CollectAll /\ UNCHANGED vars
  <2>1. task' = R!AdmitNext(R!Released(R!Done)) /\ phase = "waiting"
    BY <1>2 DEF R!CollectAll
  <2>2. phase' = phase \/ (phase' = "returned" /\ R!Admitted(task') = {})
    BY <1>2 DEF R!CollectAll
  <2>3. task' \in [Calls -> {"queued", "active", "gone", "value", "error"}]
    BY <2>1 DEF R!AdmitNext, R!Released, R!Queued, CallsOfRun
  <2>4. \A c \in Calls : task[c] = "active" => task'[c] = "active"
    BY <2>1 DEF R!AdmitNext, R!Released, R!Queued, R!Done, R!Ends
  <2>5. phase' = "returned" => \A c \in Calls : task'[c] \in {"queued", "gone"}
    BY <2>1, <2>2, <2>3 DEF R!Admitted, R!Ends
  <2> QED BY <1>2, <2>1, <2>2, <2>3, <2>4, <2>5 DEF CallsOfRun, vars
<1>3. CASE R!CollectFailure /\ UNCHANGED vars
  <2>1. phase' = "unwinding"
        /\ \E batch \in SUBSET R!Done : task' = R!Dropped(R!Released(batch))
    BY <1>3 DEF R!CollectFailure
  <2>2. task' \in [Calls -> {"queued", "active", "gone", "value", "error"}]
    BY <2>1 DEF R!Dropped, R!Released, CallsOfRun
  <2>3. \A c \in Calls : task[c] = "active" => task'[c] = "active"
    BY <2>1 DEF R!Dropped, R!Released, R!Done, R!Ends
  <2> QED BY <1>3, <2>1, <2>2, <2>3 DEF CallsOfRun, vars
<1>4. CASE R!CallerCancelled /\ UNCHANGED vars
  BY <1>4 DEF R!CallerCancelled, R!Dropped, CallsOfRun, vars
<1>5. CASE R!Unwound /\ UNCHANGED vars
  <2>1. \A c \in Calls : task[c] # "active"
    BY <1>5 DEF R!Unwound, R!Admitted, R!Done, R!Ends
  <2> QED BY <1>5, <2>1 DEF R!Unwound, CallsOfRun, vars
<1>6. ASSUME NEW c \in Calls, WorkerEnds(c) PROVE CallsOfRun'
  BY <1>6 DEF WorkerEnds, R!TaskEnds, R!Ends, CallsOfRun, vars
<1>7. ASSUME NEW c \in Calls, WorkerCalls(c) PROVE CallsOfRun'
  <2>1. task[c] = "active" /\ UNCHANGED runner
    BY <1>7 DEF WorkerCalls
  <2>2. \A d \in Calls \ {c} : call'[d] = call[d]
    BY <1>t, <1>7, OnlyItsCaller DEF WorkerCalls
  <2> QED BY <2>1, <2>2 DEF runner, CallsOfRun
<1>8. ASSUME NEW c \in Calls, WorkerUnwinds(c) PROVE CallsOfRun'
  <2>1. task[c] = "active"
    BY <1>8 DEF WorkerUnwinds, AnsweredEarly, LeavesAdmission, CallsOfRun
  <2>2. \A d \in Calls \ {c} : call'[d] = call[d]
    BY <1>t, <1>8, OnlyItsCaller DEF WorkerUnwinds, Finish
  <2>3. UNCHANGED runner
    BY <1>8 DEF WorkerUnwinds
  <2> QED BY <2>1, <2>2, <2>3 DEF runner, CallsOfRun
<1>9. CASE (Tick /\ UNCHANGED runner) \/ UNCHANGED fanoutVars
  BY <1>9 DEF Tick, runner, fanoutVars, vars, CallsOfRun
<1> QED BY <1>1, <1>2, <1>3, <1>4, <1>5, <1>6, <1>7, <1>8, <1>9 DEF FanoutNext, RunnerStep

LEMMA FanoutInvariants == FanoutSpec => [](Safe /\ CallsOfRun)
<1>1. FanoutInit => Safe /\ CallsOfRun
  BY SafeInit, CallsOfRunInit DEF FanoutInit
<1>2. (Safe /\ CallsOfRun) /\ [FanoutNext]_fanoutVars => (Safe /\ CallsOfRun)'
  BY FanoutStep, SafeStep, CallsOfRunStep
<1> QED BY <1>1, <1>2, PTL DEF FanoutSpec

(* A run that is over, by return, by exception or by cancellation, has left no
   worker running and no tool call under way. *)
THEOREM RunsLeaveNothing == FanoutSpec => []NothingOutlivesRun
<1>1. CallsOfRun => NothingOutlivesRun
  BY DEF CallsOfRun, NothingOutlivesRun
<1> QED BY <1>1, FanoutInvariants, PTL

(* No item is admitted while a sibling's failure is there to be collected. *)
THEOREM FailureStopsAdmission == FanoutSpec => AdmitsNothingAfterFailure
<1>1. CallsOfRun /\ [FanoutNext]_fanoutVars
        => [\A c \in Calls : task[c] = "queued" /\ task'[c] = "active" =>
                \A d \in Calls : ~(failFast /\ task[d] = "error")]_fanoutVars
  <2> SUFFICES ASSUME CallsOfRun, FanoutNext, NEW c \in Calls,
                      task[c] = "queued", task'[c] = "active",
                      NEW e \in Calls, failFast, task[e] = "error"
               PROVE  FALSE
    OBVIOUS
  <2>1. R!Running
    BY DEF CallsOfRun
  <2>2. R!Failing # {}
    BY DEF R!Failing, R!Done, R!Ends
  <2>3. ~R!CollectFailure /\ ~R!CallerCancelled /\ ~R!Unwound
    BY DEF R!CollectFailure, R!CallerCancelled, R!Unwound, R!Dropped, R!Released
  <2>4. ASSUME NEW d \in Calls, WorkerEnds(d) PROVE FALSE
    BY <2>4 DEF WorkerEnds, R!TaskEnds, R!Ends, CallsOfRun
  <2>5. UNCHANGED runner => FALSE
    BY DEF runner
  <2> QED BY <2>1, <2>2, <2>3, <2>4, <2>5
        DEF FanoutNext, RunnerStep, R!Start, R!CollectAll, WorkerCalls, WorkerUnwinds
<1> QED BY <1>1, FanoutInvariants, PTL DEF FanoutSpec, AdmitsNothingAfterFailure

-----------------------------------------------------------------------------
(* Counting the admitted. *)
LEMMA FanoutBounds ==
    Max \in Nat /\ Max >= 1 /\ Calls \subseteq Nat /\ IsFiniteSet(Calls)
BY FanoutAssumption

(* The runner counts as this module does. *)
LEMMA SameCount == \A S : R!Cardinality(S) = Cardinality(S)
BY Zenon DEF R!Cardinality, R!IsFiniteSet, Cardinality, IsFiniteSet

(* A finite set of positions has a first and a last one: of the sets of what
   lies beyond each of its members, one is minimal. *)
LEMMA FirstAndLast ==
    ASSUME NEW S, S \subseteq Nat, IsFiniteSet(S), S # {}
    PROVE  /\ \E m \in S : \A i \in S : m <= i
           /\ \E m \in S : \A i \in S : i <= m
<1>1. IsWellFoundedOn(StrictSubsetOrdering(S), SUBSET S)
  BY FS_StrictSubsetOrderingWellFounded, FS_FiniteSubsetsOfFinite
<1>2. \E m \in S : \A i \in S : m <= i
  <2> DEFINE T == {{j \in S : j < i} : i \in S}
  <2>1. T \subseteq SUBSET S /\ T # {}
    OBVIOUS
  <2>2. PICK x \in T : \A y \in T : ~(<<y, x>> \in StrictSubsetOrdering(S))
    <3> HIDE DEF T
    <3> QED BY <1>1, <2>1, WFMin
  <2>3. PICK m \in S : x = {j \in S : j < m}
    OBVIOUS
  <2>4. ASSUME NEW i \in S, ~(m <= i) PROVE FALSE
    <3> DEFINE y == {j \in S : j < i}
    <3>1. y \in T /\ y \subseteq S /\ x \subseteq S
      BY <2>3
    <3>a. i < m /\ (\A j \in S : j < i => j < m) /\ ~(i < i)
      <4>1. S \subseteq Nat /\ m \in Nat /\ i \in Nat
        OBVIOUS
      <4> QED BY <2>4, <4>1
    <3>2. y \subseteq x /\ i \in x /\ i \notin y
      BY <2>3, <3>a
    <3>3. <<y, x>> \in StrictSubsetOrdering(S)
      BY <3>1, <3>2 DEF StrictSubsetOrdering
    <3> QED BY <2>2, <3>1, <3>3
  <2> QED BY <2>4
<1>3. \E m \in S : \A i \in S : i <= m
  <2> DEFINE T == {{j \in S : j > i} : i \in S}
  <2>1. T \subseteq SUBSET S /\ T # {}
    OBVIOUS
  <2>2. PICK x \in T : \A y \in T : ~(<<y, x>> \in StrictSubsetOrdering(S))
    <3> HIDE DEF T
    <3> QED BY <1>1, <2>1, WFMin
  <2>3. PICK m \in S : x = {j \in S : j > m}
    OBVIOUS
  <2>4. ASSUME NEW i \in S, ~(i <= m) PROVE FALSE
    <3> DEFINE y == {j \in S : j > i}
    <3>1. y \in T /\ y \subseteq S /\ x \subseteq S
      BY <2>3
    <3>a. i > m /\ (\A j \in S : j > i => j > m) /\ ~(i > i)
      <4>1. S \subseteq Nat /\ m \in Nat /\ i \in Nat
        OBVIOUS
      <4> QED BY <2>4, <4>1
    <3>2. y \subseteq x /\ i \in x /\ i \notin y
      BY <2>3, <3>a
    <3>3. <<y, x>> \in StrictSubsetOrdering(S)
      BY <3>1, <3>2 DEF StrictSubsetOrdering
    <3> QED BY <2>2, <3>1, <3>3
  <2> QED BY <2>4
<1> QED BY <1>2, <1>3

(* The members of Q that have at most k members up to them: no more than k,
   and exactly k if any is left over. *)
FirstOf(Q, k) == {i \in Q : Cardinality({j \in Q : j <= i}) <= k}

LEMMA FirstOfCounts ==
    ASSUME NEW Q, Q \subseteq Nat, IsFiniteSet(Q), NEW k \in Nat
    PROVE  /\ IsFiniteSet(FirstOf(Q, k)) /\ Cardinality(FirstOf(Q, k)) \in 0..k
           /\ FirstOf(Q, k) # Q => Cardinality(FirstOf(Q, k)) = k
<1> DEFINE few == FirstOf(Q, k)
           upTo(i) == {j \in Q : j <= i}
<1>1. /\ few \subseteq Q /\ IsFiniteSet(few) /\ Cardinality(few) \in Nat
      /\ \A i \in few : Cardinality(upTo(i)) <= k
  <2>1. few \in SUBSET Q
    BY DEF FirstOf
  <2> QED BY <2>1, FS_Subset, FS_CardinalityType DEF FirstOf
<1>2. \A i \in Q : IsFiniteSet(upTo(i)) /\ Cardinality(upTo(i)) \in Nat
  <2>1. \A i \in Q : upTo(i) \in SUBSET Q
    OBVIOUS
  <2> QED BY <2>1, FS_Subset, FS_CardinalityType
<1>3. Cardinality(few) <= k
  <2>1. CASE few = {}
    BY <2>1, FS_EmptySet
  <2>2. CASE few # {}
    <3>1. PICK m \in few : \A i \in few : i <= m
      BY <1>1, <2>2, FirstAndLast
    <3>2. few \in SUBSET upTo(m)
      BY <1>1, <3>1
    <3>3. Cardinality(few) <= Cardinality(upTo(m))
      BY <1>1, <1>2, <3>2, FS_Subset
    <3>4. Cardinality(upTo(m)) <= k /\ Cardinality(upTo(m)) \in Nat
      BY <1>1, <1>2
    <3> QED BY <1>1, <3>3, <3>4
  <2> QED BY <2>1, <2>2
<1>4. ASSUME few # Q PROVE Cardinality(few) >= k
  <2>1. PICK m \in Q \ few : \A i \in Q \ few : m <= i
    <3>1. Q \ few \subseteq Nat /\ Q \ few # {} /\ IsFiniteSet(Q \ few)
      BY <1>1, <1>4, FS_Difference
    <3> QED BY <3>1, FirstAndLast
  <2>2. upTo(m) \in SUBSET (few \cup {m})
    <3>1. ASSUME NEW j \in Q, j <= m, j \notin few PROVE j = m
      <4>1. m <= j /\ j \in Nat /\ m \in Nat
        BY <2>1, <3>1
      <4> QED BY <3>1, <4>1
    <3> QED BY <3>1
  <2>3. /\ IsFiniteSet(few \cup {m}) /\ Cardinality(few \cup {m}) = Cardinality(few) + 1
        /\ Cardinality(upTo(m)) <= Cardinality(few \cup {m})
    BY <1>1, <2>1, <2>2, FS_AddElement, FS_Subset
  <2>4. Cardinality(upTo(m)) > k /\ Cardinality(upTo(m)) \in Nat
    BY <1>2, <2>1 DEF FirstOf
  <2> QED BY <1>1, <2>3, <2>4
<1> QED BY <1>1, <1>3, <1>4

Tasks == [Calls -> {"queued", "active", "gone", "value", "error"}]
InOrder(t) == \A i, j \in Calls : i < j /\ t[i] = "queued" => t[j] = "queued"

(* What admit_next makes of a runner that is not over its bound: it fills up,
   from the front of the queue, and stops at the bound. *)
LEMMA Admission ==
    ASSUME NEW t \in Tasks, Cardinality(R!Admitted(t)) <= Max,
           NEW u, u = R!AdmitNext(t)
    PROVE  /\ u \in Tasks
           /\ \A c \in Calls : u[c] = t[c] \/ (t[c] = "queued" /\ u[c] = "active")
           /\ Cardinality(R!Admitted(u)) <= Max
           /\ R!Queued(u) # {} => Cardinality(R!Admitted(u)) = Max
           /\ InOrder(t) => InOrder(u)
<1> DEFINE A == R!Admitted(t)
           Q == R!Queued(t)
           k == Max - Cardinality(A)
           few == FirstOf(Q, k)
<1>1. /\ A \in SUBSET Calls /\ Q \in SUBSET Calls /\ A \cap Q = {} /\ Q \subseteq Nat
      /\ IsFiniteSet(A) /\ IsFiniteSet(Q) /\ Cardinality(A) \in Nat
  <2>1. A \in SUBSET Calls /\ Q \in SUBSET Calls /\ A \cap Q = {}
    BY DEF R!Admitted, R!Queued, R!Ends
  <2> QED BY <2>1, FanoutBounds, FS_Subset, FS_CardinalityType
<1>2. k \in Nat
  BY <1>1, FanoutBounds
<1>3. \A i \in Q :
        Cardinality(A) + Cardinality({j \in Q : j <= i}) <= Max <=> i \in few
  <2> SUFFICES ASSUME NEW i \in Q
               PROVE  Cardinality(A) + Cardinality({j \in Q : j <= i}) <= Max
                        <=> Cardinality({j \in Q : j <= i}) <= k
    BY DEF FirstOf
  <2>1. Cardinality({j \in Q : j <= i}) \in Nat
    <3>1. {j \in Q : j <= i} \in SUBSET Q
      OBVIOUS
    <3> QED BY <1>1, <3>1, FS_Subset, FS_CardinalityType
  <2> QED BY <1>1, <2>1, FanoutBounds
<1>4. few \subseteq Q
  BY DEF FirstOf
<1>5. u = [i \in Calls |-> IF i \in few THEN "active" ELSE t[i]]
  <2>1. \A i \in Calls :
          (i \in Q /\ Cardinality(A) + Cardinality({j \in Q : j <= i}) <= Max) <=> i \in few
    BY <1>3, <1>4
  <2>2. u = [i \in Calls |->
                IF i \in Q /\ Cardinality(A) + Cardinality({j \in Q : j <= i}) <= Max
                THEN "active" ELSE t[i]]
    BY SameCount DEF R!AdmitNext
  <2> HIDE DEF A, Q, few
  <2> QED BY <2>1, <2>2
<1>6. /\ IsFiniteSet(few) /\ Cardinality(few) \in 0..k
      /\ few # Q => Cardinality(few) = k
  BY <1>1, <1>2, FirstOfCounts
<1>7. u \in Tasks /\ \A c \in Calls : u[c] = t[c] \/ (t[c] = "queued" /\ u[c] = "active")
  <2>1. \A c \in few : t[c] = "queued"
    BY <1>4 DEF R!Queued
  <2> HIDE DEF few
  <2> QED BY <1>5, <2>1 DEF Tasks
<1>8. R!Admitted(u) = A \cup few /\ R!Queued(u) = Q \ few
  <2> HIDE DEF few
  <2> QED BY <1>1, <1>4, <1>5 DEF R!Admitted, R!Queued, R!Ends
<1>9. Cardinality(R!Admitted(u)) = Cardinality(A) + Cardinality(few)
  <2>1. Cardinality(A \cap few) = 0
    <3>1. A \cap few = {}
      BY <1>1, <1>4
    <3> QED BY <3>1, FS_EmptySet
  <2>2. Cardinality(A \cup few) = Cardinality(A) + Cardinality(few) - Cardinality(A \cap few)
    BY <1>1, <1>6, FS_Union
  <2>3. Cardinality(few) \in Nat
    BY <1>2, <1>6
  <2> HIDE DEF few, A
  <2> QED BY <1>1, <1>8, <2>1, <2>2, <2>3
<1>10. ASSUME InOrder(t), NEW i \in Calls, NEW j \in Calls, i < j, u[i] = "queued"
       PROVE  u[j] = "queued"
  <2>1. i \in Q /\ j \in Q /\ i \notin few
    BY <1>5, <1>7, <1>10 DEF InOrder, R!Queued
  <2>2. j \notin few
    <3>1. {x \in Q : x <= i} \in SUBSET {x \in Q : x <= j}
      <4>1. i \in Nat /\ j \in Nat /\ Q \subseteq Nat
        BY <1>1, <2>1
      <4>2. \A x \in Nat : x <= i => x <= j
        BY <1>10, <4>1
      <4> QED BY <4>1, <4>2
    <3>2. {x \in Q : x <= j} \in SUBSET Q
      OBVIOUS
    <3>3. IsFiniteSet({x \in Q : x <= j})
      BY <1>1, <3>2, FS_Subset
    <3>4. Cardinality({x \in Q : x <= i}) <= Cardinality({x \in Q : x <= j})
      BY <3>1, <3>3, FS_Subset
    <3>5. /\ Cardinality({x \in Q : x <= i}) \in Nat
          /\ Cardinality({x \in Q : x <= j}) \in Nat
      BY <3>1, <3>3, FS_Subset, FS_CardinalityType
    <3>6. ~(Cardinality({x \in Q : x <= i}) <= k)
      BY <2>1 DEF FirstOf
    <3>7. ~(Cardinality({x \in Q : x <= j}) <= k)
      BY <1>2, <3>4, <3>5, <3>6
    <3> QED BY <3>7 DEF FirstOf
  <2> QED BY <1>5, <2>1, <2>2 DEF R!Queued
<1>11. InOrder(t) => InOrder(u)
  BY <1>10 DEF InOrder
<1> HIDE DEF A, Q, k, few
<1>12. Cardinality(A) + Cardinality(few) <= Max
       /\ (few # Q => Cardinality(A) + Cardinality(few) = Max)
  BY <1>1, <1>2, <1>6, FanoutBounds DEF k
<1>13. R!Queued(u) # {} => few # Q
  BY <1>8
<1> QED BY <1>7, <1>9, <1>11, <1>12, <1>13

-----------------------------------------------------------------------------
(* A run that waits has something to wait for, and all it may have if items are
   queued; it has the result of exactly the items it is done with. *)
Waiting ==
    /\ R!Admitted(task) # {}
    /\ R!Queued(task) # {} => Cardinality(R!Admitted(task)) = Max
    /\ \A c \in Calls : task[c] = "gone" <=> result[c] # "none"

RunnerInv ==
    /\ R!TypeOK
    /\ Cardinality(R!Admitted(task)) <= Max
    /\ InOrder(task)
    /\ phase = "waiting" => Waiting
    /\ phase = "returned" => \A c \in Calls : result[c] # "none"

LEMMA RunnerInvInit == FanoutInit => RunnerInv
<1> SUFFICES ASSUME FanoutInit PROVE RunnerInv
  OBVIOUS
<1>1. /\ phase = "idle" /\ failFast = FALSE
      /\ task = [i \in Calls |-> "gone"] /\ result = [i \in Calls |-> "none"]
  BY DEF FanoutInit, R!Init
<1>2. R!Admitted(task) = {}
  BY <1>1 DEF R!Admitted, R!Ends
<1>3. Cardinality(R!Admitted(task)) <= Max
  BY <1>2, FanoutBounds, FS_EmptySet
<1> QED BY <1>1, <1>3 DEF RunnerInv, R!TypeOK, R!Phases, R!Ends, InOrder

(* Fewer admitted tasks are within the bound too. *)
LEMMA NoMoreAdmitted ==
    ASSUME NEW t \in Tasks, NEW u \in Tasks, R!Admitted(u) \subseteq R!Admitted(t),
           Cardinality(R!Admitted(t)) <= Max
    PROVE  Cardinality(R!Admitted(u)) <= Max
<1>1. R!Admitted(t) \in SUBSET Calls /\ R!Admitted(u) \in SUBSET R!Admitted(t)
  BY DEF R!Admitted
<1>2. IsFiniteSet(R!Admitted(t)) /\ IsFiniteSet(R!Admitted(u))
  BY <1>1, FanoutBounds, FS_Subset
<1>3. /\ Cardinality(R!Admitted(t)) \in Nat /\ Cardinality(R!Admitted(u)) \in Nat
      /\ Cardinality(R!Admitted(u)) <= Cardinality(R!Admitted(t))
  BY <1>1, <1>2, FS_Subset, FS_CardinalityType
<1> QED BY <1>3, FanoutBounds

(* A runner that has nothing admitted left has nothing queued either. *)
LEMMA NothingLeft ==
    ASSUME NEW t \in Tasks, R!Admitted(t) = {},
           R!Queued(t) # {} => Cardinality(R!Admitted(t)) = Max
    PROVE  \A c \in Calls : t[c] = "gone"
<1>1. R!Queued(t) = {}
  BY FanoutBounds, FS_EmptySet
<1> QED BY <1>1 DEF Tasks, R!Admitted, R!Queued, R!Ends

LEMMA StartRuns == ASSUME RunnerInv, NEW mode \in BOOLEAN, R!Start(mode) PROVE RunnerInv'
<1> DEFINE t == [i \in Calls |-> "queued"]
<1>1. /\ task' = R!AdmitNext(t) /\ failFast' = mode
      /\ phase' = IF R!Admitted(task') = {} THEN "returned" ELSE "waiting"
      /\ result' = [i \in Calls |-> "none"]
  BY DEF R!Start
<1>2. t \in Tasks /\ InOrder(t) /\ R!Admitted(t) = {}
  BY DEF Tasks, InOrder, R!Admitted, R!Ends
<1>3. Cardinality(R!Admitted(t)) <= Max
  <2> HIDE DEF t
  <2> QED BY <1>2, FanoutBounds, FS_EmptySet
<1>4. /\ task' \in Tasks /\ \A c \in Calls : task'[c] \in {"queued", "active"}
      /\ Cardinality(R!Admitted(task')) <= Max
      /\ R!Queued(task') # {} => Cardinality(R!Admitted(task')) = Max
      /\ InOrder(task')
  <2> HIDE DEF t
  <2>1. t \in Tasks /\ \A c \in Calls : t[c] = "queued"
    BY <1>2 DEF t
  <2> QED BY <1>1, <1>2, <1>3, <2>1, Admission
<1>5. R!Admitted(task') = {} => Calls = {}
  BY <1>4, NothingLeft
<1>6. R!TypeOK'
  BY <1>1, <1>4 DEF R!TypeOK, Tasks, R!Phases, R!Ends
<1> QED BY <1>1, <1>4, <1>5, <1>6 DEF RunnerInv, Waiting

LEMMA EndKeeps ==
    ASSUME RunnerInv, NEW c \in Calls, NEW how \in R!Ends, R!TaskEnds(c, how)
    PROVE  RunnerInv'
<1>1. /\ task[c] = "active" /\ task' = [task EXCEPT ![c] = how]
      /\ UNCHANGED <<phase, failFast, result>>
  BY DEF R!TaskEnds
<1>2. task \in Tasks /\ task' \in Tasks
  BY <1>1 DEF RunnerInv, R!TypeOK, Tasks, R!Ends
<1>3. R!Admitted(task') = R!Admitted(task) /\ R!Queued(task') = R!Queued(task)
  BY <1>1, <1>2 DEF R!Admitted, R!Queued, R!Ends, Tasks
<1>4. InOrder(task')
  BY <1>1, <1>2 DEF RunnerInv, InOrder, Tasks, R!Ends
<1>5. R!TypeOK'
  BY <1>1, <1>2 DEF RunnerInv, R!TypeOK, Tasks, R!Ends
<1>6. phase = "waiting" => Waiting'
  BY <1>1, <1>2, <1>3 DEF RunnerInv, Waiting, Tasks, R!Ends
<1> QED BY <1>1, <1>3, <1>4, <1>5, <1>6 DEF RunnerInv

LEMMA CollectKeeps == ASSUME RunnerInv, R!CollectAll PROVE RunnerInv'
<1> DEFINE t == R!Released(R!Done)
<1>1. /\ phase = "waiting" /\ task' = R!AdmitNext(t) /\ failFast' = failFast
      /\ phase' = IF R!Admitted(task') = {} THEN "returned" ELSE "waiting"
      /\ result' = [i \in Calls |-> IF i \in R!Done THEN task[i] ELSE result[i]]
  BY DEF R!CollectAll
<1>2. task \in Tasks /\ Waiting /\ result \in [Calls -> {"none", "value", "error"}]
  BY <1>1 DEF RunnerInv, R!TypeOK, Tasks, R!Ends
<1>3. /\ t \in Tasks
      /\ \A c \in Calls : t[c] = IF task[c] \in {"value", "error"} THEN "gone" ELSE task[c]
  BY <1>2 DEF Tasks, R!Released, R!Done, R!Ends
<1> HIDE DEF t
<1>4. R!Admitted(t) \subseteq R!Admitted(task) /\ InOrder(t)
  BY <1>2, <1>3 DEF R!Admitted, R!Ends, InOrder, RunnerInv
<1>5. Cardinality(R!Admitted(t)) <= Max
  BY <1>2, <1>3, <1>4, NoMoreAdmitted DEF RunnerInv
<1>6. /\ task' \in Tasks
      /\ \A c \in Calls : task'[c] = t[c] \/ (t[c] = "queued" /\ task'[c] = "active")
      /\ Cardinality(R!Admitted(task')) <= Max
      /\ R!Queued(task') # {} => Cardinality(R!Admitted(task')) = Max
      /\ InOrder(task')
  BY <1>1, <1>3, <1>4, <1>5, Admission
<1>7. \A c \in Calls : task'[c] = "gone" <=> result'[c] # "none"
  BY <1>1, <1>2, <1>3, <1>6 DEF Waiting, R!Done, R!Ends
<1>8. R!Admitted(task') = {} => \A c \in Calls : result'[c] # "none"
  BY <1>6, <1>7, NothingLeft
<1>9. R!TypeOK'
  <2>1. result' \in [Calls -> {"none", "value", "error"}]
    BY <1>1, <1>2 DEF R!Done, R!Ends
  <2> QED BY <1>1, <1>6, <2>1 DEF RunnerInv, R!TypeOK, Tasks, R!Phases, R!Ends
<1> QED BY <1>1, <1>6, <1>7, <1>8, <1>9 DEF RunnerInv, Waiting

(* Unwinding only takes tasks away. *)
LEMMA UnwindingKeeps ==
    ASSUME RunnerInv, R!CollectFailure \/ R!CallerCancelled \/ R!Unwound
    PROVE  RunnerInv'
<1>1. task \in Tasks /\ result \in [Calls -> {"none", "value", "error"}]
  BY DEF RunnerInv, R!TypeOK, Tasks, R!Ends
<1>2. /\ phase' \in {"unwinding", "raised"} /\ failFast' = failFast
      /\ result' \in [Calls -> {"none", "value", "error"}]
      /\ \A c \in Calls : task'[c] = "gone" \/ (task'[c] = task[c] /\ task[c] # "queued")
      /\ task' \in Tasks
  <2>1. CASE R!CollectFailure
    BY <1>1, <2>1 DEF R!CollectFailure, R!Dropped, R!Released, R!Done, R!Ends, Tasks
  <2>2. CASE R!CallerCancelled
    BY <1>1, <2>2 DEF R!CallerCancelled, R!Dropped, Tasks
  <2>3. CASE R!Unwound
    BY <1>1, <2>3 DEF R!Unwound, Tasks
  <2> QED BY <2>1, <2>2, <2>3
<1>3. R!Admitted(task') \subseteq R!Admitted(task)
  BY <1>2 DEF R!Admitted, R!Ends
<1>4. Cardinality(R!Admitted(task')) <= Max
  BY <1>1, <1>2, <1>3, NoMoreAdmitted DEF RunnerInv
<1>5. InOrder(task')
  BY <1>2 DEF InOrder
<1> QED BY <1>2, <1>4, <1>5 DEF RunnerInv, R!TypeOK, R!Phases, R!Ends, Tasks

(* Every step of the fan-out is a step of its runner, or none of it. *)
LEMMA RunnerSteps == [FanoutNext]_fanoutVars => [R!Next]_runner
<1> SUFFICES ASSUME [FanoutNext]_fanoutVars PROVE [R!Next]_runner
  OBVIOUS
<1>1. CASE RunnerStep
  BY <1>1 DEF RunnerStep, R!Next
<1>2. ASSUME NEW c \in Calls, WorkerEnds(c) PROVE R!Next
  BY <1>2 DEF WorkerEnds, R!Next
<1>3. ASSUME NEW c \in Calls, WorkerCalls(c) \/ WorkerUnwinds(c) PROVE UNCHANGED runner
  BY <1>3 DEF WorkerCalls, WorkerUnwinds
<1>4. CASE (Tick /\ UNCHANGED runner) \/ UNCHANGED fanoutVars
  BY <1>4 DEF fanoutVars, runner
<1> QED BY <1>1, <1>2, <1>3, <1>4 DEF FanoutNext

(* The runner of a fan-out behaves as one alone: the breaker its workers share
   delays it and nothing else. *)
THEOREM FanoutUsesRunner == FanoutSpec => R!Spec
<1>1. FanoutInit => R!Init
  BY DEF FanoutInit
<1>2. [FanoutNext]_fanoutVars => [R!Next]_<<phase, failFast, task, result>>
  BY RunnerSteps DEF runner
<1> QED BY <1>1, <1>2, PTL DEF FanoutSpec, R!Spec

LEMMA RunnerInvStep == RunnerInv /\ [FanoutNext]_fanoutVars => RunnerInv'
<1> SUFFICES ASSUME RunnerInv, [R!Next]_runner PROVE RunnerInv'
  BY RunnerSteps
<1>1. CASE UNCHANGED runner
  BY <1>1 DEF runner, RunnerInv, R!TypeOK, Waiting, R!Admitted, R!Queued, InOrder
<1> QED BY <1>1, StartRuns, EndKeeps, CollectKeeps, UnwindingKeeps DEF R!Next

LEMMA RunnerInvariance == FanoutSpec => []RunnerInv
BY RunnerInvInit, RunnerInvStep, PTL DEF FanoutSpec

(* Every variable of the runner and of the breaker keeps its type, and never
   are more than max_concurrency tasks admitted, whatever ends when. *)
THEOREM FanoutIsTyped == FanoutSpec => []FanoutTypeOK
<1>1. RunnerInv /\ Safe => FanoutTypeOK
  BY DEF RunnerInv, Safe, FanoutTypeOK
<1> QED BY <1>1, RunnerInvariance, FanoutInvariants, PTL

(* When run() returns there is a result for every input. *)
THEOREM ResultsAreComplete == FanoutSpec => []ReturnsEveryResult
<1>1. RunnerInv => ReturnsEveryResult
  BY DEF RunnerInv, ReturnsEveryResult
<1> QED BY <1>1, RunnerInvariance, PTL

(* The wait for completed tasks never waits for nothing, and while items are
   queued it waits at the bound: no capacity lies idle beside queued work. *)
NoIdleCapacity ==
    phase = "waiting" =>
        /\ R!Admitted(task) # {}
        /\ R!Queued(task) # {} => Cardinality(R!Admitted(task)) = Max

THEOREM CapacityIsUsed == FanoutSpec => []NoIdleCapacity
<1>1. RunnerInv => NoIdleCapacity
  BY DEF RunnerInv, Waiting, NoIdleCapacity
<1> QED BY <1>1, RunnerInvariance, PTL

(* Work is admitted in input order: whatever is behind a queued item is queued
   too, in every state of every run. *)
THEOREM AdmittedInOrder == FanoutSpec => []InOrder(task)
<1>1. RunnerInv => InOrder(task)
  BY DEF RunnerInv
<1> QED BY <1>1, RunnerInvariance, PTL

(* A result once collected is never written again while its run lasts, nor
   when it is over: only the next run clears it. *)
ResultsStay ==
    [][\A c \in Calls : result[c] # "none" /\ result'[c] # result[c]
            => ~R!Running /\ result'[c] = "none"]_fanoutVars

THEOREM ResultsAreFinal == FanoutSpec => ResultsStay
<1>1. RunnerInv /\ [FanoutNext]_fanoutVars
        => [\A c \in Calls : result[c] # "none" /\ result'[c] # result[c]
                => ~R!Running /\ result'[c] = "none"]_fanoutVars
  <2> SUFFICES ASSUME RunnerInv, [R!Next]_runner,
                      NEW c \in Calls, result[c] # "none", result'[c] # result[c]
               PROVE  ~R!Running /\ result'[c] = "none"
    BY RunnerSteps
  <2>1. ASSUME NEW mode \in BOOLEAN, R!Start(mode)
        PROVE  ~R!Running /\ result'[c] = "none"
    BY <2>1 DEF R!Start
  <2>2. R!Next => R!CollectAll \/ R!CollectFailure \/ \E mode \in BOOLEAN : R!Start(mode)
    BY DEF R!Next, R!TaskEnds, R!CallerCancelled, R!Unwound
  <2>3. CASE R!CollectAll \/ R!CollectFailure
    <3>1. phase = "waiting" /\ (c \in R!Done \/ result'[c] = result[c])
      BY <2>3 DEF R!CollectAll, R!CollectFailure
    <3> QED BY <3>1 DEF RunnerInv, Waiting, R!Done, R!Ends
  <2> QED BY <2>1, <2>2, <2>3 DEF runner
<1> QED BY <1>1, RunnerInvariance, PTL DEF FanoutSpec, ResultsStay
==============================================================================

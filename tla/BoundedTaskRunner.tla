-------------------------- MODULE BoundedTaskRunner --------------------------
(***************************************************************************)
(* One BoundedTaskRunner (src/core/kernel/bounded_concurrency.py), run     *)
(* again and again: it turns at most Max of its items into tasks at a      *)
(* time, collects whatever has completed when it wakes up as one batch,    *)
(* and on a failure or a cancellation waits for what it admitted before it *)
(* raises. What a task does is left to the modules that compose this one.  *)
(***************************************************************************)
EXTENDS Naturals, FiniteSets

CONSTANTS
    Items,      \* positions of the input, 1..n
    Max         \* max_concurrency

VARIABLES
    phase,      \* where the runner is; "idle" before the first run
    failFast,   \* not return_exceptions
    task,       \* each item's task; "gone" once collected or dropped
    result      \* results

Phases == {"idle", "waiting", "unwinding", "returned", "raised"}
Ends == {"value", "error"}

Init ==
    /\ phase = "idle" /\ failFast = FALSE
    /\ task = [i \in Items |-> "gone"]
    /\ result = [i \in Items |-> "none"]

Queued(t) == {i \in Items : t[i] = "queued"}
Admitted(t) == {i \in Items : t[i] = "active" \/ t[i] \in Ends}     \* _active_tasks
Done == {i \in Items : task[i] \in Ends}
Running == phase \in {"waiting", "unwinding"}

(* Slip: one task too many. *)
AdmitNextOverBound(t) ==
    [i \in Items |->
        IF i \in Queued(t)
           /\ Cardinality(Admitted(t)) + Cardinality({j \in Queued(t) : j < i}) <= Max
        THEN "active" ELSE t[i]]

(* while active_count < max_concurrency and admit_next() *)
AdmitNext(t) ==
    [i \in Items |->
        IF i \in Queued(t)
           /\ Cardinality(Admitted(t)) + Cardinality({j \in Queued(t) : j <= i}) <= Max
        THEN "active" ELSE t[i]]

Dropped(t) == [i \in Items |-> IF t[i] = "queued" THEN "gone" ELSE t[i]]

Start(mode) ==
    /\ ~Running
    /\ task' = AdmitNext([i \in Items |-> "queued"])
    /\ phase' = IF Admitted(task') = {} THEN "returned" ELSE "waiting"
    /\ failFast' = mode
    /\ result' = [i \in Items |-> "none"]

(* The operation of an admitted item returns, or raises. *)
TaskEnds(i, how) ==
    /\ task[i] = "active"
    /\ task' = [task EXCEPT ![i] = how]
    /\ UNCHANGED <<phase, failFast, result>>

(* The batch holds every task that is done when the wait resumes; without
   fail-fast an exception is a result like any other. *)
Failing == {i \in Done : failFast /\ task[i] = "error"}
Released(batch) == [i \in Items |-> IF i \in batch THEN "gone" ELSE task[i]]

(* Slips: the run returns once every task it has is done, with items still
   queued; capacity a batch frees is used again by the next run only. *)
CollectAllReturnsEarly ==
    /\ phase = "waiting" /\ Done # {} /\ Failing = {}
    /\ result' = [i \in Items |-> IF i \in Done THEN task[i] ELSE result[i]]
    /\ IF Admitted(Released(Done)) = {}
       THEN phase' = "returned" /\ task' = Dropped(Released(Done))
       ELSE phase' = phase /\ task' = AdmitNext(Released(Done))
    /\ UNCHANGED failFast

CollectAllKeepsCapacity ==
    /\ phase = "waiting" /\ Done # {} /\ Failing = {}
    /\ result' = [i \in Items |-> IF i \in Done THEN task[i] ELSE result[i]]
    /\ task' = Released(Done)
    /\ phase' = IF Admitted(task') \cup Queued(task') = {} THEN "returned" ELSE phase
    /\ UNCHANGED failFast

CollectAll ==
    /\ phase = "waiting" /\ Done # {} /\ Failing = {}
    /\ result' = [i \in Items |-> IF i \in Done THEN task[i] ELSE result[i]]
    /\ task' = AdmitNext(Released(Done))
    /\ phase' = IF Admitted(task') = {} THEN "returned" ELSE phase
    /\ UNCHANGED failFast

First(i) == i \in Failing /\ \A j \in Failing : i <= j

(* Slip: a success before the failure gives its place away at once. *)
CollectFailureOneByOne ==
    /\ phase = "waiting"
    /\ \E i \in Items :
        LET batch == {j \in Done : j <= i} IN
        /\ First(i)
        /\ result' = [j \in Items |-> IF j \in batch \ {i} THEN task[j] ELSE result[j]]
        /\ task' = IF batch = {i} THEN Dropped(Released(batch))
                   ELSE Dropped(AdmitNext(Released(batch \ {i})))
    /\ phase' = "unwinding" /\ UNCHANGED failFast

(* In input order up to the first failure, which raises: the queue is
   cleared and what is still admitted is cancelled. *)
CollectFailure ==
    /\ phase = "waiting"
    /\ \E i \in Items :
        LET batch == {j \in Done : j <= i} IN
        /\ First(i)
        /\ result' = [j \in Items |-> IF j \in batch \ {i} THEN task[j] ELSE result[j]]
        /\ task' = Dropped(Released(batch))
    /\ phase' = "unwinding" /\ UNCHANGED failFast

CallerCancelled ==
    /\ phase = "waiting" /\ phase' = "unwinding"
    /\ task' = Dropped(task)
    /\ UNCHANGED <<failFast, result>>

(* Slip: cancelled tasks are not waited for. *)
UnwoundAtOnce ==
    /\ phase = "unwinding" /\ phase' = "raised"
    /\ task' = [i \in Items |-> "gone"]
    /\ UNCHANGED <<failFast, result>>

(* cancel_admitted_work: every task it cancelled has ended. *)
Unwound ==
    /\ phase = "unwinding" /\ Admitted(task) = Done
    /\ phase' = "raised" /\ task' = [i \in Items |-> "gone"]
    /\ UNCHANGED <<failFast, result>>

Next ==
    \/ \E mode \in BOOLEAN : Start(mode)
    \/ \E i \in Items, how \in Ends : TaskEnds(i, how)
    \/ CollectAll \/ CollectFailure \/ CallerCancelled \/ Unwound

Spec == Init /\ [][Next]_<<phase, failFast, task, result>>

-----------------------------------------------------------------------------
TypeOK ==
    /\ phase \in Phases /\ failFast \in BOOLEAN
    /\ task \in [Items -> {"queued", "active", "gone"} \cup Ends]
    /\ result \in [Items -> {"none"} \cup Ends]
==============================================================================

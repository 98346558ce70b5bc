----------------------------- MODULE ToolFanout ------------------------------
(***************************************************************************)
(* A supervisor's parallel execution, or a mixture of agents: a runner     *)
(* (BoundedTaskRunner) whose workers call one tool through the tool        *)
(* boundary, and so share its breaker (CircuitBreaker). A failing sibling  *)
(* or a cancelled caller takes calls down wherever they are, and the       *)
(* breaker outlives the runs.                                              *)
(***************************************************************************)
EXTENDS CircuitBreaker, FiniteSets

CONSTANT Max        \* max_parallel_workers, max_parallel

VARIABLES phase, failFast, task, result

ASSUME FanoutAssumption ==
    Max \in Nat \ {0} /\ Calls \subseteq Nat \ {0} /\ IsFiniteSet(Calls)

R == INSTANCE BoundedTaskRunner WITH Items <- Calls

runner == <<phase, failFast, task, result>>
fanoutVars == <<vars, phase, failFast, task, result>>

FanoutInit == Init /\ R!Init

-----------------------------------------------------------------------------
(* The runner. A worker ends when it is not inside a call: of its own, or
   cancelled wherever it is. *)
RunnerStep ==
    /\ \/ \E mode \in BOOLEAN : R!Start(mode)
       \/ R!CollectAll \/ R!CollectFailure \/ R!CallerCancelled \/ R!Unwound
    /\ UNCHANGED vars

WorkerEnds(c) ==
    /\ call[c].pc = "out"
    /\ \E how \in R!Ends : R!TaskEnds(c, how)
    /\ UNCHANGED vars

(* A worker that has not been cancelled calls the tool any number of times. *)
WorkerCalls(c) ==
    /\ phase = "waiting" /\ task[c] = "active"
    /\ \/ Begin(c) \/ AnsweredEarly(c) \/ Allows(c)
       \/ LeavesAdmission(c) \/ Dispatch(c) \/ Finish(c)
    /\ UNCHANGED runner

(* CancelledError unwinds the call: before dispatch it goes past the breaker,
   after it RecordAbandoned is what the breaker is told. *)
WorkerUnwinds(c) ==
    /\ phase = "unwinding"
    /\ \/ AnsweredEarly(c) \/ LeavesAdmission(c)
       \/ call[c].pc = "running" /\ RecordAbandoned /\ Leave(c) /\ UNCHANGED clock
    /\ UNCHANGED runner

FanoutNext ==
    \/ RunnerStep
    \/ \E c \in Calls : WorkerEnds(c) \/ WorkerCalls(c) \/ WorkerUnwinds(c)
    \/ Tick /\ UNCHANGED runner

FanoutSpec == FanoutInit /\ [][FanoutNext]_fanoutVars

(* The event loop runs the runner when a task is done; a tool call ends at its
   deadline if nothing else ends it, and a worker stops calling in the end. *)
FairFanoutSpec ==
    /\ FanoutSpec
    /\ WF_fanoutVars((R!CollectAll \/ R!CollectFailure \/ R!Unwound) /\ UNCHANGED vars)
    /\ \A c \in Calls : /\ SF_fanoutVars(WorkerEnds(c))
                        /\ WF_fanoutVars(WorkerCalls(c) \/ WorkerUnwinds(c))

-----------------------------------------------------------------------------
(* Every variable of the breaker and of the runner holds values the code could
   store in it, and never are more than max_concurrency tasks admitted. *)
FanoutTypeOK ==
    /\ TypeOK /\ R!TypeOK
    /\ Cardinality(R!Admitted(task)) <= Max

(* "Cancelling the caller always cancels admitted work": when a run is over, by
   return or by exception, no worker of it runs on and no invoke() of it is
   still under way. A handler that refuses its cancellation is quarantined by
   the boundary and may outlive the call. *)
NothingOutlivesRun ==
    ~R!Running => \A c \in Calls : task[c] # "active" /\ call[c].pc = "out"

(* The caller gets a result for every input: nothing stays queued or unread
   when run() returns. *)
ReturnsEveryResult == phase = "returned" => \A c \in Calls : result[c] # "none"

(* "A fail-fast error cannot admit queued work after a sibling succeeds in that
   same batch". *)
AdmitsNothingAfterFailure ==
    [][\A c \in Calls : task[c] = "queued" /\ task'[c] = "active" =>
            \A d \in Calls : ~(failFast /\ task[d] = "error")]_fanoutVars

(* Every run comes to an end, whatever the tool answers. *)
RunEnds == R!Running ~> ~R!Running
==============================================================================

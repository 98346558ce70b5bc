---------------------------- MODULE RunExecution -----------------------------
(***************************************************************************)
(* One admitted run inside one service process: DirectExecutionService     *)
(* (src/api/services/direct_execution_service.py) driving the durable      *)
(* run/task/attempt rows, the append-only event log, the contracts cached  *)
(* in memory and the status callers poll.                                  *)
(*                                                                         *)
(* Coroutines interleave at every await. The workflow, the terminal        *)
(* reconciler and close() commit through _commit_transition, so each owns  *)
(* a `writer`: a planned transaction, the number of the try, and whether   *)
(* the database has answered yet. Cancel requests commit on their own,     *)
(* once. A transaction and the coroutine noticing that it ended are two    *)
(* steps. A transaction takes effect when it commits, but the rows it      *)
(* writes are those whose status it read as different from the planned one *)
(* (READ COMMITTED, no SELECT ... FOR UPDATE, changed columns only).       *)
(***************************************************************************)
EXTENDS LifecycleStates, Naturals

CONSTANTS
    Cancellers,     \* cancel requests clients may make, one each
    MaxTries,       \* durable_write_max_attempts
    MaxAttempts,    \* _WORKFLOW_MAX_ATTEMPTS
    MaxPasses,      \* reconciliation passes before the loop's deadline
    MaxFaults,      \* bound: database writes that fail
    MaxCrashes      \* bound: process crashes

ASSUME ConstantsAssumption ==
    /\ {MaxTries, MaxAttempts, MaxPasses} \subseteq Nat \ {0}
    /\ {MaxFaults, MaxCrashes} \subseteq Nat

VARIABLES
    durable,      \* the committed status columns of the three rows
    log,          \* identities of the events in agent_run_events
    cached,       \* execution_status._run/_task/_attempt
    status,       \* execution_status.status; "absent" when no process holds it
    unconfirmed,  \* execution_status.unconfirmed_terminal_status
    retries,      \* execution_status.retry_count
    workflow,     \* where _execute_research_workflow is
    writer,       \* the _commit_transition call of each writing coroutine
    cancel,       \* each cancel_execution call
    parked,       \* _pending_terminal_outcomes of this execution
    reconciler,   \* the _reconcile_until_drained task
    passes,       \* its reconciliation passes so far
    service,      \* "closing" once close() is called, "closed" when it returns
    faults, crashes

database == <<durable, log>>
memory == <<cached, status, unconfirmed, retries>>
outcome == <<parked, reconciler, passes>>
vars == <<durable, log, cached, status, unconfirmed, retries, workflow, writer,
          cancel, parked, reconciler, passes, service, faults, crashes>>

Writers == {"workflow", "reconciler", "closer"}
Confirmers == {"reconciler", "closer"}  \* reconcile_pending_terminal_transitions

(* A planned transition: the three rows it writes and the event it appends.
   Its event id is derived from the target statuses and the event type, so a
   target has one identity however often it is planned. *)
NoTx == [record |-> Admitted, event |-> "none"]
StartTx == [record |-> Running, event |-> "run.started"]
SuccessTx == [record |-> Succeeded, event |-> "run.succeeded"]
FailureTx == [record |-> Failed, event |-> "run.failed"]
OutcomeTx == {SuccessTx, FailureTx}
Tx == {NoTx, StartTx} \cup OutcomeTx

Events == {"run.admitted", "run.started", "run.succeeded", "run.failed",
           "run.attempt_failed", "run.cancellation_requested"}

PublishedAs(tx) == IF tx = SuccessTx THEN "completed" ELSE "failed"

(* _RUN_STATUS_TO_EXECUTION_STATUS *)
ExecutionStatusOf(run) ==
    CASE run \in {"CREATED", "QUEUED"} -> "pending"
      [] run \in {"RUNNING", "CANCELLING"} -> "running"
      [] run = "SUCCEEDED" -> "completed"
      [] run = "FAILED" -> "failed"
      [] run = "CANCELLED" -> "cancelled"

Idle == [pc |-> "idle", tx |-> NoTx, tries |-> 0]
Plan(tx) == [pc |-> "writing", tx |-> tx, tries |-> 1]
Asleep(w) == writer[w].pc = "idle"

(* again: the contracts were cancelling when the request was planned; kept: how
   many of its rows, in the order run, task, attempt, it does not write. *)
NoCancel == [pc |-> "idle", plan |-> Admitted, again |-> FALSE, kept |-> 0]

Init ==
    /\ durable = Admitted /\ log = {"run.admitted"}
    /\ cached = Admitted /\ status = "pending" /\ unconfirmed = "none"
    /\ retries = 0 /\ workflow = "entering"
    /\ writer = [w \in Writers |-> Idle]
    /\ cancel = [c \in Cancellers |-> NoCancel]
    /\ parked = NoTx /\ reconciler = "off" /\ passes = 0
    /\ service = "open" /\ faults = 0 /\ crashes = 0

-----------------------------------------------------------------------------
(* _commit_transition: one session per try, one transaction per session. *)

(* _terminal_transition_already_committed *)
AlreadyCommitted(tx) == durable = tx.record /\ tx.event \in log

(* append_event inserts an identity the log already holds: IntegrityError. *)
Duplicate(tx) == tx.event \in log /\ durable # tx.record

(* The rows are overwritten whatever status they hold. The first write locks
   the run's row, so the others are read and written behind that lock; and all
   three are written, for a run whose row already reads as planned has the event
   in its log (RunRowHasItsEvent, proved) and the transaction is refused. *)
Land(tx) ==
    /\ durable' = tx.record
    /\ log' = log \cup {tx.event}

Commit(w) ==
    /\ writer[w].pc = "writing"
    /\ ~Duplicate(writer[w].tx)
    /\ IF AlreadyCommitted(writer[w].tx) THEN UNCHANGED database
       ELSE Land(writer[w].tx)
    /\ writer' = [writer EXCEPT ![w].pc = "landed"]
    /\ UNCHANGED <<memory, workflow, cancel, outcome, faults, crashes>>

NextTry(w) ==
    IF writer[w].tries < MaxTries
    THEN writer' = [writer EXCEPT ![w].tries = @ + 1]
    ELSE writer' = [writer EXCEPT ![w].pc = "gave_up"]

(* The database is unreachable, or its answer to the commit is lost: the rows
   are then either untouched or already written. *)
CommitFails(w) ==
    /\ writer[w].pc = "writing"
    /\ faults < MaxFaults
    /\ faults' = faults + 1
    /\ \/ UNCHANGED database
       \/ /\ ~Duplicate(writer[w].tx)
          /\ Land(writer[w].tx)
    /\ NextTry(w)
    /\ UNCHANGED <<memory, workflow, cancel, outcome, crashes>>

CommitRefused(w) ==
    /\ writer[w].pc = "writing"
    /\ Duplicate(writer[w].tx)
    /\ NextTry(w)
    /\ UNCHANGED <<database, memory, workflow, cancel, outcome, faults, crashes>>

-----------------------------------------------------------------------------
(* _execute_research_workflow *)

(* Slip: publishes what the workflow achieved, whatever the record says. *)
RealignToWorkflow == status' = "completed" /\ unconfirmed' = "none"

(* _realign_with_durable_record *)
Realign ==
    /\ status' = ExecutionStatusOf(cached.run)
    /\ unconfirmed' = "none"

(* Entry of a tenacity attempt. A transition the cached contracts refuse is
   REJECTED, and the status reads "running" whatever the outcome was. *)
EnterAttempt ==
    /\ workflow = "entering" /\ Asleep("workflow")
    /\ IF CanTransition(cached, Running)
       THEN /\ writer' = [writer EXCEPT !["workflow"] = Plan(StartTx)]
            /\ UNCHANGED <<status, workflow>>
       ELSE /\ status' = "running" /\ workflow' = "executing"
            /\ UNCHANGED writer
    /\ UNCHANGED <<database, cached, unconfirmed, retries, cancel, outcome,
                   faults, crashes>>

AttemptStarted ==
    /\ writer["workflow"].tx = StartTx
    /\ writer["workflow"].pc \in {"landed", "gave_up"}
    /\ IF writer["workflow"].pc = "landed"
       THEN cached' = Running /\ parked' = NoTx
       ELSE UNCHANGED <<cached, parked>>
    /\ writer' = [writer EXCEPT !["workflow"] = Idle]
    /\ status' = "running" /\ workflow' = "executing"
    /\ UNCHANGED <<database, unconfirmed, retries, cancel, reconciler, passes,
                   faults, crashes>>

(* _persist_transition up to its first await. *)
ProposeOutcome(tx) ==
    IF CanTransition(cached, tx.record)
    THEN /\ writer' = [writer EXCEPT !["workflow"] = Plan(tx)]
         /\ UNCHANGED <<status, unconfirmed, workflow>>
    ELSE /\ Realign
         /\ workflow' = "finished"
         /\ UNCHANGED writer

PlanSucceeds ==
    /\ workflow = "executing" /\ Asleep("workflow")
    /\ ProposeOutcome(SuccessTx)
    /\ UNCHANGED <<database, cached, retries, cancel, outcome, faults, crashes>>

(* The plan raised, or its output could not be made a final report. *)
PlanFails ==
    /\ workflow = "executing" /\ Asleep("workflow")
    /\ retries' = retries + 1
    /\ IF retries' < MaxAttempts
       THEN workflow' = "reporting" /\ UNCHANGED <<status, unconfirmed, writer>>
       ELSE ProposeOutcome(FailureTx)
    /\ UNCHANGED <<database, cached, cancel, outcome, faults, crashes>>

(* The failed attempt is an event, not a transition; losing it is tolerated. *)
RecordAttemptFailure ==
    /\ workflow = "reporting"
    /\ workflow' = "entering"
    /\ \/ log' = log \cup {"run.attempt_failed"} /\ UNCHANGED faults
       \/ faults < MaxFaults /\ faults' = faults + 1 /\ UNCHANGED log
    /\ UNCHANGED <<durable, memory, writer, cancel, outcome, crashes>>

(* RECORDED: publish. *)
OutcomeRecorded ==
    LET tx == writer["workflow"].tx IN
    /\ writer["workflow"].pc = "landed" /\ tx \in OutcomeTx
    /\ cached' = tx.record /\ parked' = NoTx
    /\ status' = PublishedAs(tx) /\ unconfirmed' = "none"
    /\ workflow' = "finished"
    /\ writer' = [writer EXCEPT !["workflow"] = Idle]
    /\ UNCHANGED <<database, retries, cancel, reconciler, passes, faults, crashes>>

(* Slip: an unanswered commit is retried as an error of the attempt. *)
OutcomeRetried ==
    /\ writer["workflow"].pc = "gave_up" /\ writer["workflow"].tx \in OutcomeTx
    /\ workflow' = "entering"
    /\ writer' = [writer EXCEPT !["workflow"] = Idle]
    /\ UNCHANGED <<database, memory, cancel, outcome, faults, crashes>>

(* UNAVAILABLE: park the outcome, withhold the flip, see that a reconciler
   runs, unless the service is closing. A loop that runs already keeps the
   deadline it has; in this one run none does. *)
OutcomeParked ==
    LET tx == writer["workflow"].tx IN
    /\ writer["workflow"].pc = "gave_up" /\ tx \in OutcomeTx
    /\ parked' = tx /\ unconfirmed' = PublishedAs(tx)
    /\ IF service = "open" /\ reconciler # "sleeping"
       THEN reconciler' = "sleeping" /\ passes' = 0
       ELSE UNCHANGED <<reconciler, passes>>
    /\ workflow' = "finished"
    /\ writer' = [writer EXCEPT !["workflow"] = Idle]
    /\ UNCHANGED <<database, cached, status, retries, cancel, faults, crashes>>

-----------------------------------------------------------------------------
(* _reconcile_until_drained *)

ReconcilePass ==
    /\ reconciler = "sleeping" /\ Asleep("reconciler")
    /\ parked # NoTx /\ passes < MaxPasses
    /\ passes' = passes + 1
    /\ writer' = [writer EXCEPT !["reconciler"] = Plan(parked)]
    /\ UNCHANGED <<database, memory, workflow, cancel, parked, reconciler,
                   faults, crashes>>

(* Slip: the withheld outcome is confirmed but still reads withheld. *)
ReconciledStillWithheld(w) ==
    LET tx == writer[w].tx IN
    /\ writer[w].pc = "landed"
    /\ parked' = NoTx /\ cached' = tx.record /\ status' = PublishedAs(tx)
    /\ writer' = [writer EXCEPT ![w] = Idle]
    /\ UNCHANGED <<database, unconfirmed, retries, workflow, cancel, reconciler,
                   passes, faults, crashes>>

(* A pass keeps to the outcome it found parked, confirmed by another or not. *)
Reconciled(w) ==
    LET tx == writer[w].tx IN
    /\ writer[w].pc = "landed"
    /\ parked' = NoTx /\ cached' = tx.record
    /\ status' = PublishedAs(tx) /\ unconfirmed' = "none"
    /\ writer' = [writer EXCEPT ![w] = Idle]
    /\ UNCHANGED <<database, retries, workflow, cancel, reconciler, passes,
                   faults, crashes>>

(* Slip: the loop gives up on the first pass that fails. *)
AbandonedAtOnce(w) ==
    /\ writer[w].pc = "gave_up"
    /\ writer' = [writer EXCEPT ![w] = Idle]
    /\ reconciler' = "abandoned"
    /\ UNCHANGED <<database, memory, workflow, cancel, parked, passes, faults, crashes>>

ReconcileUnavailable(w) ==
    /\ writer[w].pc = "gave_up"
    /\ writer' = [writer EXCEPT ![w] = Idle]
    /\ UNCHANGED <<database, memory, workflow, cancel, outcome, faults, crashes>>

(* Slip: what is abandoned is thrown away. *)
ReconcilerDropsParked ==
    /\ reconciler = "sleeping" /\ Asleep("reconciler")
    /\ parked = NoTx \/ passes = MaxPasses
    /\ reconciler' = "off" /\ parked' = NoTx /\ unconfirmed' = "none"
    /\ UNCHANGED <<database, cached, status, retries, workflow, writer, cancel,
                   passes, faults, crashes>>

(* The loop ends drained, or abandons what is still parked. *)
ReconcilerEnds ==
    /\ reconciler = "sleeping" /\ Asleep("reconciler")
    /\ parked = NoTx \/ passes = MaxPasses
    /\ reconciler' = IF parked = NoTx THEN "off" ELSE "abandoned"
    /\ UNCHANGED <<database, memory, workflow, writer, cancel, parked, passes,
                   faults, crashes>>

-----------------------------------------------------------------------------
(* close(): a last pass over what is parked, here or for other runs, while
   everything goes on; then the background tasks are cancelled wherever they
   are, and what was parked or never settled stays as the database has it. *)

Up == status # "absent"

Close ==
    /\ Up /\ service = "open" /\ service' = "closing"
    /\ writer' = IF parked = NoTx THEN writer
                 ELSE [writer EXCEPT !["closer"] = Plan(parked)]
    /\ UNCHANGED <<database, memory, workflow, cancel, outcome, faults, crashes>>

TasksCancelled ==
    /\ service = "closing" /\ Asleep("closer")
    /\ service' = "closed" /\ reconciler' = "off"
    /\ workflow' = IF workflow = "finished" THEN workflow ELSE "lost"
    /\ writer' = [w \in Writers |-> Idle]
    /\ UNCHANGED <<database, memory, cancel, parked, passes, faults, crashes>>

-----------------------------------------------------------------------------
(* cancel_execution, with _persist_cancellation planned from the cached
   contracts before its only await. A closed service takes no requests. *)

RequestCancel(c) ==
    /\ cancel[c].pc = "idle" /\ service = "open"
    /\ status \in {"pending", "running"}
    /\ CanCancel(cached)
    /\ cancel' = [cancel EXCEPT ![c] =
            [pc |-> "writing", plan |-> Cancellation(cached),
             again |-> Cancellation(cached) = cached, kept |-> 0]]
    /\ UNCHANGED <<database, memory, workflow, writer, outcome, faults, crashes>>

(* record_*_transition reads the next row and finds it as planned: the row is
   not written, whatever others commit to it before this transaction does. A
   first request has its own cancellation_requested_at to write into the run's
   row and holds it from then on; a repeated one may change nothing. *)
KeepsRow(c) ==
    LET plan == cancel[c].plan
        kept == cancel[c].kept
    IN
    /\ cancel[c].pc = "writing"
    /\ \/ kept = 0 /\ durable.run = plan.run
       \/ kept = 1 /\ cancel[c].again /\ durable.task = plan.task
       \/ kept = 2 /\ cancel[c].again /\ durable.attempt = plan.attempt
    /\ cancel' = [cancel EXCEPT ![c].kept = kept + 1]
    /\ UNCHANGED <<database, memory, workflow, writer, outcome, faults, crashes>>

Written(plan, kept) ==
    [run |-> IF kept > 0 THEN durable.run ELSE plan.run,
     task |-> IF kept > 1 THEN durable.task ELSE plan.task,
     attempt |-> IF kept > 2 THEN durable.attempt ELSE plan.attempt]

(* Slip: a late request spares the run that has ended, and only the run. *)
CancelSparesRun(c) ==
    /\ durable' = [cancel[c].plan EXCEPT
            !.run = IF durable.run \in TerminalRun THEN durable.run ELSE @]
    /\ log' = log \cup {"run.cancellation_requested"}

(* The rows it writes are overwritten whatever status they hold by then. *)
CancelLand(c) ==
    /\ durable' = Written(cancel[c].plan, cancel[c].kept)
    /\ log' = log \cup {"run.cancellation_requested"}

CancelCommits(c) ==
    /\ cancel[c].pc = "writing"
    /\ CancelLand(c)
    /\ cancel' = [cancel EXCEPT ![c].pc = "landed"]
    /\ UNCHANGED <<memory, workflow, writer, outcome, faults, crashes>>

CancelFails(c) ==
    /\ cancel[c].pc = "writing"
    /\ faults < MaxFaults /\ faults' = faults + 1
    /\ CancelLand(c) \/ UNCHANGED database
    /\ cancel' = [cancel EXCEPT ![c].pc = "refused"]
    /\ UNCHANGED <<memory, workflow, writer, outcome, crashes>>

CancelAccepted(c) ==
    /\ cancel[c].pc = "landed"
    /\ cached' = cancel[c].plan
    /\ status' = "cancelled"
    /\ cancel' = [cancel EXCEPT ![c].pc = "accepted"]
    /\ UNCHANGED <<database, unconfirmed, retries, workflow, writer, outcome,
                   faults, crashes>>

-----------------------------------------------------------------------------
(* Process memory is lost; a restart rebuilds it from the rows of runs that
   are not terminal, and starts no workflow for them. *)

Crash ==
    /\ Up /\ crashes < MaxCrashes /\ crashes' = crashes + 1
    /\ cached' = Admitted /\ status' = "absent" /\ unconfirmed' = "none"
    /\ retries' = 0 /\ workflow' = "lost"
    /\ writer' = [w \in Writers |-> Idle] /\ service' = "open"
    /\ cancel' = [c \in Cancellers |->
            IF cancel[c].pc \in {"writing", "landed"}
            THEN [cancel[c] EXCEPT !.pc = "refused"] ELSE cancel[c]]
    /\ parked' = NoTx /\ reconciler' = "off" /\ passes' = 0
    /\ UNCHANGED <<database, faults>>

(* restore_active_executions. A row whose timestamps a race has left in
   contradiction with its status is not rebuilt; the timestamps are left out,
   and a restart may rebuild any row that is not terminal, or none. *)
Restore ==
    /\ ~Up /\ durable.run \notin TerminalRun
    /\ cached' = durable
    /\ status' = ExecutionStatusOf(durable.run)
    /\ UNCHANGED <<database, unconfirmed, retries, workflow, writer, cancel,
                   outcome, faults, crashes>>

-----------------------------------------------------------------------------
WorkflowStep ==
    \/ EnterAttempt \/ AttemptStarted
    \/ PlanSucceeds \/ PlanFails \/ RecordAttemptFailure
    \/ OutcomeRecorded \/ OutcomeParked

ReconcilerStep ==
    \/ ReconcilePass \/ ReconcilerEnds
    \/ \E w \in Confirmers : Reconciled(w) \/ ReconcileUnavailable(w)

CommitStep(w) == Commit(w) \/ CommitFails(w) \/ CommitRefused(w)

CancelStep(c) ==
    \/ RequestCancel(c) \/ KeepsRow(c)
    \/ CancelCommits(c) \/ CancelFails(c) \/ CancelAccepted(c)

Next ==
    \/ /\ \/ WorkflowStep
          \/ ReconcilerStep
          \/ \E w \in Writers : CommitStep(w)
          \/ \E c \in Cancellers : CancelStep(c)
          \/ Restore
       /\ UNCHANGED service
    \/ Close \/ TasksCancelled
    \/ Crash

Spec == Init /\ [][Next]_vars

(* The event loop runs every ready coroutine, a database call returns, and a
   sleeping reconciler wakes. Nothing obliges a client, a shutdown or a
   crash. *)
Fairness ==
    /\ WF_vars(WorkflowStep /\ UNCHANGED service)
    /\ WF_vars(ReconcilerStep /\ UNCHANGED service)
    /\ \A w \in Writers : WF_vars(CommitStep(w) /\ UNCHANGED service)

FairSpec == Spec /\ Fairness

-----------------------------------------------------------------------------
(* Every variable holds values the code could store in it. *)
WriterState == [pc : {"idle", "writing", "landed", "gave_up"}, tx : Tx,
                tries : 0..MaxTries]
CancelState == [pc : {"idle", "writing", "landed", "accepted", "refused"},
                plan : Contracts, again : BOOLEAN, kept : 0..3]

TypeOK ==
    /\ durable \in Contracts /\ cached \in Contracts
    /\ log \subseteq Events
    /\ status \in {"absent", "pending", "running", "completed", "failed", "cancelled"}
    /\ unconfirmed \in {"none", "completed", "failed"}
    /\ retries \in 0..MaxAttempts
    /\ workflow \in {"entering", "executing", "reporting", "finished", "lost"}
    /\ writer \in [Writers -> WriterState]
    /\ cancel \in [Cancellers -> CancelState]
    /\ parked \in {NoTx} \cup OutcomeTx
    /\ reconciler \in {"off", "sleeping", "abandoned"}
    /\ passes \in 0..MaxPasses /\ service \in {"open", "closing", "closed"}
    /\ faults \in 0..MaxFaults /\ crashes \in 0..MaxCrashes

(* The run, its task and its attempt tell one story. *)
Coherent(record) ==
    \/ record = Admitted
    \/ /\ record.run = record.task /\ record.task = record.attempt
       /\ record.run \in {"RUNNING", "CANCELLING"} \cup TerminalRun

AskedTwice == \E c, d \in Cancellers :
    c # d /\ cancel[c].pc # "idle" /\ cancel[d].pc # "idle"

(* It takes two cancel requests to make the rows of a run disagree: whatever
   else interleaves, fails or dies, one request and the workflow's own
   transactions leave all three rows with the same story, and the contracts a
   process works with are never a mixture while its workflow may use them. *)
OneStory ==
    /\ AskedTwice \/ Coherent(durable)
    /\ (AskedTwice /\ workflow = "lost") \/ Coherent(cached)

(* A caller is never told of an outcome, or of an accepted cancellation, that
   the durable log does not hold: _settle_terminal_state publishes only what
   the database accepted, through lost answers, retries and reconciliation. *)
PublishedIsRecorded ==
    /\ status = "completed" => "run.succeeded" \in log
    /\ status = "failed" => "run.failed" \in log
    /\ status = "cancelled" => "run.cancellation_requested" \in log

(* The log never holds two contradictory outcomes: a success whose commit went
   unanswered is parked, not retried as a failure, and retries of a run that
   failed for good never reach a second outcome. *)
OneOutcome == ~ {"run.succeeded", "run.failed"} \subseteq log

(* A caller is shown a withheld outcome exactly while the service still holds
   the transaction that would confirm it; otherwise the execution would wait
   for a confirmation nobody will attempt. *)
WithheldIsParked ==
    unconfirmed = (IF parked = NoTx THEN "none" ELSE PublishedAs(parked))

(* When the workflow ends, its outcome is in the log or parked, unless the
   cached contracts refuse it: a cancellation got there first, or the start of
   the run was never recorded. *)
OutcomeKept ==
    workflow = "finished" =>
        \/ {"run.succeeded", "run.failed"} \cap log # {} \/ parked # NoTx
        \/ cached.run \in {"QUEUED", "CANCELLING", "CANCELLED"}

(* "Late requests do not rewrite terminal outcomes" (agent-system-contracts.md):
   the task and the attempt of a run that ended have ended too. It does not
   hold when a second request found the run's row already cancelling and left
   it alone. *)
EndsTogether ==
    durable.run \in TerminalRun =>
        durable.task \in TerminalTask /\ durable.attempt \in TerminalAttempt

(* A withheld outcome is eventually confirmed and the caller then reads it,
   unless the process dies or is shut down, a cancellation is recorded, or the
   database failed every try of the workflow and of every pass. It is said of
   the loop this parking starts: a run parked while the loop of another runs
   has only what is left of that deadline. *)
FailedThroughout == faults >= MaxTries * (MaxPasses + 1)
WithheldIsPublished ==
    unconfirmed # "none" ~>
        \/ unconfirmed = "none" /\ status \in {"completed", "failed"}
        \/ workflow = "lost" \/ service # "open"
        \/ "run.cancellation_requested" \in log \/ FailedThroughout

(* What the durable run promises whoever reads its row or is told of its
   outcome, stated by RunPromise: the execution service implements it, cancel
   requests, failures, shutdown and crashes included. *)
Recorded ==
    IF "run.succeeded" \in log THEN "SUCCEEDED"
    ELSE IF "run.failed" \in log THEN "FAILED" ELSE "none"
Published ==
    CASE status = "completed" -> "SUCCEEDED"
      [] status = "failed" -> "FAILED"
      [] OTHER -> "none"
Promise == INSTANCE RunPromise WITH
    run <- durable.run, recorded <- Recorded, published <- Published,
    cancelled <- "run.cancellation_requested" \in log
KeepsPromise == Promise!Spec
==============================================================================

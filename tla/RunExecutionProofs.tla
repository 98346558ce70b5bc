------------------------- MODULE RunExecutionProofs --------------------------
(***************************************************************************)
(* Proofs about RunExecution, for any number of cancel requests, tries,    *)
(* attempts, passes, failures and crashes.                                 *)
(***************************************************************************)
EXTENDS RunExecution, TLAPS

(* Each coroutine's transaction belongs to the point it is at: the workflow
   starts on entry and proposes an outcome while executing; a pass confirms
   what it found parked, which only a finished workflow leaves behind. *)
WorkflowWriter ==
    LET w == writer["workflow"] IN
    /\ w.pc = "idle" <=> w.tx = NoTx
    /\ w.tx = StartTx => workflow = "entering"
    /\ w.tx \in OutcomeTx => workflow = "executing"

ConfirmingWriter ==
    /\ \A v \in Confirmers :
        LET w == writer[v] IN
        /\ w.pc = "idle" <=> w.tx = NoTx
        /\ w.tx # NoTx => /\ w.tx \in OutcomeTx /\ workflow = "finished"
                           /\ parked \in {NoTx, w.tx}
    /\ writer["reconciler"].tx # NoTx /\ writer["closer"].tx # NoTx
        => writer["reconciler"].tx = writer["closer"].tx
    /\ parked # NoTx \/ reconciler # "off" => workflow = "finished"

(* An attempt is under way only while one is left. *)
RetriesLeft ==
    retries = MaxAttempts =>
        \/ workflow \in {"finished", "lost"}
        \/ workflow = "executing" /\ writer["workflow"].tx = FailureTx

(* A process that is down runs no workflow. *)
LostWhenDown == status = "absent" => workflow = "lost"

Control == WorkflowWriter /\ ConfirmingWriter /\ RetriesLeft /\ LostWhenDown

-----------------------------------------------------------------------------
(* The transactions differ from one another, and are well typed. *)
LEMMA TxFacts ==
    /\ NoTx \in Tx /\ StartTx \in Tx /\ OutcomeTx \subseteq Tx
    /\ NoTx # StartTx /\ NoTx \notin OutcomeTx /\ StartTx \notin OutcomeTx
    /\ SuccessTx # FailureTx
    /\ \A tx \in Tx : tx.record \in Contracts /\ tx.event \in Events \cup {"none"}
    /\ \A tx \in Tx : tx # NoTx => tx.event \in Events
    /\ \A tx \in Tx : tx.event # "run.cancellation_requested"
BY DEF Tx, NoTx, StartTx, SuccessTx, FailureTx, OutcomeTx, Contracts, Events,
       Admitted, Running, Succeeded, Failed, RunStatus, TaskStatus, AttemptStatus

(* Cancelling a set of contracts yields contracts. *)
LEMMA CancellationType == \A r \in Contracts : Cancellation(r) \in Contracts
BY DEF Contracts, Cancellation, CancellationOf, RunStatus, TaskStatus, AttemptStatus

(* What a request writes are contracts, whichever rows it leaves alone. *)
LEMMA WrittenType ==
    ASSUME NEW plan \in Contracts, NEW kept, durable \in Contracts
    PROVE  /\ Written(plan, kept) \in Contracts
           /\ Written(plan, kept).run \in {durable.run, plan.run}
           /\ kept = 0 => Written(plan, kept) = plan
BY DEF Written, Contracts

(* What a caller may read is one of the execution statuses. *)
LEMMA StatusType ==
    /\ \A r \in Contracts : ExecutionStatusOf(r.run) \in
            {"pending", "running", "completed", "failed", "cancelled"}
    /\ \A tx \in Tx : PublishedAs(tx) \in {"completed", "failed"}
BY DEF Contracts, RunStatus, ExecutionStatusOf, PublishedAs

(* The two ways a committing coroutine moves on. *)
LEMMA WriterMoves ==
    ASSUME NEW r \in WriterState, NEW pc \in {"landed", "gave_up"}
    PROVE  /\ [r EXCEPT !.pc = pc] = [pc |-> pc, tx |-> r.tx, tries |-> r.tries]
           /\ [r EXCEPT !.tries = @ + 1] =
                [pc |-> r.pc, tx |-> r.tx, tries |-> r.tries + 1]
BY DEF WriterState

(* What one step of a commit does: it writes the planned rows and event, or
   nothing, keeps the plan, and reads as landed only when the log has it. *)
LEMMA CommitEffect ==
    ASSUME NEW w \in Writers, TypeOK, CommitStep(w)
    PROVE  /\ writer[w].pc = "writing"
           /\ \E pc \in {"writing", "landed", "gave_up"}, tries \in 0..MaxTries :
                /\ writer' = [writer EXCEPT ![w] =
                                 [pc |-> pc, tx |-> writer[w].tx, tries |-> tries]]
                /\ pc = "landed" => writer[w].tx.event \in log'
           /\ \/ UNCHANGED database
              \/ durable' = writer[w].tx.record /\ log' = log \cup {writer[w].tx.event}
           /\ faults' \in 0..MaxFaults
           /\ UNCHANGED <<memory, workflow, cancel, outcome, crashes>>
<1> DEFINE r == writer[w]
<1>1. r \in WriterState /\ r.tries \in 0..MaxTries /\ r.pc \in {"idle", "writing", "landed", "gave_up"}
  BY DEF TypeOK, WriterState, Writers
<1>2. \A pc \in {"landed", "gave_up"} :
        [r EXCEPT !.pc = pc] = [pc |-> pc, tx |-> r.tx, tries |-> r.tries]
  BY <1>1, WriterMoves
<1>3. [r EXCEPT !.tries = @ + 1] = [pc |-> r.pc, tx |-> r.tx, tries |-> r.tries + 1]
  BY <1>1, WriterMoves
<1>4. CASE Commit(w)
  <2>1. writer' = [writer EXCEPT ![w] = [pc |-> "landed", tx |-> r.tx, tries |-> r.tries]]
    BY <1>2, <1>4 DEF Commit
  <2>2. r.tx.event \in log'
    BY <1>4 DEF Commit, AlreadyCommitted, Land, database
  <2> QED BY <1>1, <1>4, <2>1, <2>2 DEF Commit, Land, TypeOK, database
<1>5. ASSUME r.pc = "writing", NextTry(w)
      PROVE  \E pc \in {"writing", "landed", "gave_up"}, tries \in 0..MaxTries :
                /\ writer' = [writer EXCEPT ![w] =
                                 [pc |-> pc, tx |-> r.tx, tries |-> tries]]
                /\ pc = "landed" => r.tx.event \in log'
  <2>1. CASE r.tries < MaxTries
    <3>1. writer' = [writer EXCEPT ![w] =
                        [pc |-> "writing", tx |-> r.tx, tries |-> r.tries + 1]]
      BY <1>3, <1>5, <2>1 DEF NextTry
    <3>2. r.tries + 1 \in 0..MaxTries
      BY <1>1, <2>1, ConstantsAssumption
    <3> QED BY <3>1, <3>2
  <2>2. CASE ~(r.tries < MaxTries)
    <3>1. writer' = [writer EXCEPT ![w] =
                        [pc |-> "gave_up", tx |-> r.tx, tries |-> r.tries]]
      BY <1>2, <1>5, <2>2 DEF NextTry
    <3> QED BY <1>1, <3>1
  <2> QED BY <2>1, <2>2
<1>6. CASE CommitFails(w)
  <2>1. faults' \in 0..MaxFaults
    BY <1>6, ConstantsAssumption DEF CommitFails, TypeOK
  <2> QED BY <1>5, <1>6, <2>1 DEF CommitFails, Land, database
<1>7. CASE CommitRefused(w)
  BY <1>5, <1>7 DEF CommitRefused, TypeOK, database
<1> QED BY <1>4, <1>6, <1>7 DEF CommitStep

(* The initial state is typed, and nothing is planned in it. *)
LEMMA InitTyped == Init => TypeOK /\ Control
<1> SUFFICES ASSUME Init PROVE TypeOK /\ Control
  OBVIOUS
<1>1. TypeOK
  BY ConstantsAssumption, TxFacts
  DEF Init, TypeOK, Contracts, Admitted, RunStatus, TaskStatus, AttemptStatus,
      Events, WriterState, CancelState, NoCancel, Idle
<1>2. Control
  BY ConstantsAssumption, TxFacts
  DEF Init, Control, WorkflowWriter, ConfirmingWriter, RetriesLeft, LostWhenDown, Idle,
      Writers, Confirmers
<1> QED BY <1>1, <1>2

(* Every handler of the service stores only values of the declared types; the
   control invariant bounds the retries of tenacity and the tries of a commit. *)
LEMMA TypeStep == TypeOK /\ Control /\ [Next]_vars => TypeOK'
<1> SUFFICES ASSUME TypeOK, Control, [Next]_vars PROVE TypeOK'
  OBVIOUS
<1> USE ConstantsAssumption, TxFacts DEF TypeOK, database, memory, outcome
<1>0. service' \in {"open", "closing", "closed"}
  BY DEF Next, Close, TasksCancelled, Crash, vars
<1> USE <1>0
<1>2. Idle \in WriterState /\ \A tx \in Tx : Plan(tx) \in WriterState
  BY DEF Idle, Plan, WriterState
<1>3. /\ \A v \in Writers, r \in WriterState :
            [writer EXCEPT ![v] = r] \in [Writers -> WriterState]
      /\ \A v \in Writers : writer[v].tx \in Tx
      /\ Confirmers \subseteq Writers
      /\ "workflow" \in Writers /\ "reconciler" \in Writers /\ "closer" \in Writers
  BY DEF WriterState, Writers, Confirmers
<1>1. ASSUME NEW w \in Writers, CommitStep(w) PROVE TypeOK'
  <2>1. PICK pc \in {"writing", "landed", "gave_up"}, tries \in 0..MaxTries :
          writer' = [writer EXCEPT ![w] = [pc |-> pc, tx |-> writer[w].tx, tries |-> tries]]
    BY <1>1, CommitEffect
  <2>2. writer' \in [Writers -> WriterState]
    BY <2>1 DEF WriterState, Writers
  <2>3. durable' \in Contracts /\ log' \subseteq Events
    <3>1. writer[w].tx \in Tx /\ writer[w].tx # NoTx
      BY <1>1, CommitEffect
      DEF WriterState, Writers, Confirmers, Control, WorkflowWriter, ConfirmingWriter
    <3> QED BY <1>1, <3>1, CommitEffect
  <2>4. faults' \in 0..MaxFaults
    BY <1>1, CommitEffect
  <2> QED BY <1>1, CommitEffect, <2>2, <2>3, <2>4 DEF Writers
<1>4. CASE EnterAttempt
  BY <1>2, <1>3, <1>4 DEF EnterAttempt
<1>5. CASE AttemptStarted
  BY <1>2, <1>3, <1>5 DEF AttemptStarted, StartTx
<1>6. CASE PlanSucceeds
  BY <1>2, <1>3, <1>6, StatusType DEF PlanSucceeds, ProposeOutcome, Realign, OutcomeTx
<1>7. CASE PlanFails
  BY <1>2, <1>3, <1>7, StatusType DEF PlanFails, ProposeOutcome, Realign, OutcomeTx,
    Control, RetriesLeft, WorkflowWriter, Asleep
<1>8. CASE RecordAttemptFailure
  <2>1. log' \subseteq Events
    BY <1>8 DEF RecordAttemptFailure, Events
  <2>2. faults' \in 0..MaxFaults
    BY <1>8 DEF RecordAttemptFailure
  <2> QED BY <1>8, <2>1, <2>2 DEF RecordAttemptFailure
<1>9. CASE OutcomeRecorded
  BY <1>2, <1>3, <1>9, StatusType DEF OutcomeRecorded
<1>10. CASE OutcomeParked
  BY <1>2, <1>3, <1>10, StatusType DEF OutcomeParked
<1>11. CASE ReconcilePass
  BY <1>2, <1>3, <1>11 DEF ReconcilePass
<1>12. ASSUME NEW w \in Confirmers, Reconciled(w) PROVE TypeOK'
  BY <1>2, <1>3, <1>12, StatusType DEF Reconciled
<1>13. ASSUME NEW w \in Confirmers, ReconcileUnavailable(w) PROVE TypeOK'
  BY <1>2, <1>3, <1>13 DEF ReconcileUnavailable
<1>14. CASE ReconcilerEnds
  BY <1>14 DEF ReconcilerEnds
<1>15. ASSUME NEW c \in Cancellers, RequestCancel(c) PROVE TypeOK'
  BY <1>15, CancellationType DEF RequestCancel, CancelState
<1>24. ASSUME NEW c \in Cancellers, KeepsRow(c) PROVE TypeOK'
  BY <1>24 DEF KeepsRow, CancelState
<1>16. ASSUME NEW c \in Cancellers, CancelCommits(c) PROVE TypeOK'
  BY <1>16, WrittenType DEF CancelCommits, CancelLand, CancelState, Events
<1>17. ASSUME NEW c \in Cancellers, CancelFails(c) PROVE TypeOK'
  BY <1>17, WrittenType DEF CancelFails, CancelLand, CancelState, Events
<1>18. ASSUME NEW c \in Cancellers, CancelAccepted(c) PROVE TypeOK'
  BY <1>18 DEF CancelAccepted, CancelState
<1>19. CASE Crash
  BY <1>19 DEF Crash, Idle, WriterState, CancelState, Contracts, Admitted, RunStatus,
    TaskStatus, AttemptStatus
<1>20. CASE Restore
  BY <1>20, StatusType DEF Restore
<1>21. CASE UNCHANGED vars
  BY <1>21 DEF vars
<1>22. CASE Close
  BY <1>2, <1>3, <1>22 DEF Close
<1>23. CASE TasksCancelled
  BY <1>23, TxFacts DEF TasksCancelled, Idle, WriterState
<1> QED
  BY <1>1, <1>4, <1>5, <1>6, <1>7, <1>8, <1>9, <1>10, <1>11, <1>12,
     <1>13, <1>14, <1>15, <1>16, <1>17, <1>18, <1>19, <1>20, <1>21, <1>22, <1>23, <1>24
  DEF Next, WorkflowStep, ReconcilerStep, CancelStep, Writers

(* A commit leaves the workflow, the reconciler and every plan where they are. *)
LEMMA CommitKeepsPlans ==
    ASSUME NEW w \in Writers, TypeOK, Control, CommitStep(w)
    PROVE  /\ writer[w].pc = "writing" /\ writer'[w].pc \in {"writing", "landed", "gave_up"}
           /\ \A v \in Writers : writer'[v].tx = writer[v].tx
           /\ \A v \in Writers \ {w} : writer'[v] = writer[v]
           /\ writer'[w].pc = "landed" => writer[w].tx.event \in log'
           /\ writer[w].tx \in {StartTx} \cup OutcomeTx
<1>1. PICK pc \in {"writing", "landed", "gave_up"}, tries \in 0..MaxTries :
        /\ writer' = [writer EXCEPT ![w] =
                         [pc |-> pc, tx |-> writer[w].tx, tries |-> tries]]
        /\ pc = "landed" => writer[w].tx.event \in log'
  BY CommitEffect
<1>2. writer[w].pc = "writing"
  BY CommitEffect
<1>3. writer \in [Writers -> WriterState]
  BY DEF TypeOK, Writers
<1>4. writer[w].tx \in {StartTx} \cup OutcomeTx
  BY <1>2, <1>3
  DEF Control, WorkflowWriter, ConfirmingWriter, Writers, Confirmers, WriterState, Tx
<1> QED BY <1>1, <1>2, <1>3, <1>4

(* A confirming coroutine awake holds the outcome of a finished workflow. *)
LEMMA ConfirmerFacts ==
    ASSUME NEW w \in Confirmers, TypeOK, Control, writer[w].pc # "idle"
    PROVE  /\ w \in Writers /\ writer[w].tx \in OutcomeTx
           /\ workflow = "finished" /\ parked \in {NoTx, writer[w].tx}
           /\ writer["workflow"].tx = NoTx
<1>1. w \in Writers /\ writer["workflow"].tx \in Tx
  BY DEF TypeOK, Writers, Confirmers, WriterState
<1>2. writer[w].tx \in OutcomeTx /\ workflow = "finished" /\ parked \in {NoTx, writer[w].tx}
  BY DEF Control, ConfirmingWriter
<1>3. writer["workflow"].tx \notin {StartTx} \cup OutcomeTx
  BY <1>2 DEF Control, WorkflowWriter
<1> QED BY <1>1, <1>2, <1>3 DEF Tx

(* No interleaving lets a writer hold a transaction its coroutine is not at. *)
LEMMA ControlStep == TypeOK /\ Control /\ [Next]_vars => Control'
<1> SUFFICES ASSUME TypeOK, Control, [Next]_vars PROVE Control'
  OBVIOUS
<1> USE DEF Control, WorkflowWriter, ConfirmingWriter, RetriesLeft, LostWhenDown,
            database, memory, outcome
<1>0. /\ writer \in [Writers -> WriterState] /\ "workflow" \in Writers
      /\ {"reconciler", "closer"} \subseteq Writers /\ parked \in {NoTx} \cup OutcomeTx
  BY DEF TypeOK, Writers
<1>1. ASSUME NEW w \in Writers, CommitStep(w) PROVE Control'
  BY <1>0, <1>1, CommitKeepsPlans, CommitEffect, TxFacts DEF Writers, Confirmers
<1>4. CASE EnterAttempt
  BY <1>0, <1>4, TxFacts DEF EnterAttempt, Plan, Asleep, Writers, Confirmers
<1>5. CASE AttemptStarted
  BY <1>0, <1>5, TxFacts DEF AttemptStarted, Idle, Writers
<1>6. CASE PlanSucceeds
  BY <1>0, <1>6, TxFacts, StatusType
  DEF TypeOK, Realign, PlanSucceeds, ProposeOutcome, Plan, Asleep, Writers, Confirmers,
      OutcomeTx
<1>7. CASE PlanFails
  BY <1>0, <1>7, TxFacts, StatusType
  DEF TypeOK, Realign, PlanFails, ProposeOutcome, Plan, Asleep, Writers, Confirmers,
      OutcomeTx
<1>8. CASE RecordAttemptFailure
  BY <1>0, <1>8, TxFacts DEF RecordAttemptFailure
<1>9. CASE OutcomeRecorded
  BY <1>0, <1>9, TxFacts, StatusType DEF OutcomeRecorded, Idle, Writers
<1>10. CASE OutcomeParked
  BY <1>0, <1>10, TxFacts DEF OutcomeParked, Idle, Writers
<1>11. CASE ReconcilePass
  BY <1>0, <1>11, TxFacts DEF ReconcilePass, Plan, Writers, Confirmers
<1>12. ASSUME NEW w \in Confirmers, Reconciled(w) PROVE Control'
  BY <1>0, <1>12, TxFacts, StatusType DEF Reconciled, Idle, Writers, WriterState
<1>13. ASSUME NEW w \in Confirmers, ReconcileUnavailable(w) PROVE Control'
  BY <1>0, <1>13, TxFacts DEF ReconcileUnavailable, Idle, Writers
<1>14. CASE ReconcilerEnds
  BY <1>0, <1>14, TxFacts DEF ReconcilerEnds
<1>15. ASSUME NEW c \in Cancellers, CancelStep(c) PROVE Control'
  BY <1>15 DEF CancelStep, RequestCancel, KeepsRow, CancelCommits, CancelFails,
              CancelAccepted,
               CancelLand
<1>16. CASE Crash
  BY <1>0, <1>16, TxFacts, ConstantsAssumption DEF Crash, Idle, Writers, Confirmers
<1>17. CASE Restore
  BY <1>17, StatusType DEF Restore, TypeOK
<1>18. CASE UNCHANGED vars
  BY <1>18 DEF vars
<1>19. CASE Close
  BY <1>0, <1>19, TxFacts DEF Close, Plan, Idle, Asleep, Writers, Confirmers
<1>20. CASE TasksCancelled
  BY <1>0, <1>20, TxFacts DEF TasksCancelled, Plan, Idle, Asleep, Writers, Confirmers
<1> QED
  BY <1>1, <1>4, <1>5, <1>6, <1>7, <1>8, <1>9, <1>10, <1>11, <1>12, <1>13, <1>14,
     <1>15, <1>16, <1>17, <1>18, <1>19, <1>20
  DEF Next, WorkflowStep, ReconcilerStep, Writers

-----------------------------------------------------------------------------
(* What is claimed, in memory or in a row, is backed by the log. *)

Logged(record) ==
    /\ record.run = "SUCCEEDED" => "run.succeeded" \in log
    /\ record.run = "FAILED" => "run.failed" \in log
    /\ record.run \in {"CANCELLING", "CANCELLED"} => "run.cancellation_requested" \in log

Landed == \A w \in Writers : writer[w].pc = "landed" => writer[w].tx.event \in log

CancelsLogged == \A c \in Cancellers :
    /\ cancel[c].pc # "idle" => cancel[c].plan.run \in {"CANCELLING", "CANCELLED"}
    /\ cancel[c].pc = "landed" => "run.cancellation_requested" \in log

(* A run's row that reads as a transition of the workflow's would leave it has
   that transition's event in the log: such a transition, committed again, is
   recognized or refused, and never lands with the row left alone. *)
RunRowHasItsEvent ==
    \A tx \in {StartTx} \cup OutcomeTx :
        durable.run = tx.record.run => tx.event \in log

Evidence ==
    /\ Logged(cached) /\ Logged(durable) /\ RunRowHasItsEvent
    /\ Landed
    /\ CancelsLogged

(* The log is append-only. *)
LEMMA LogGrows == TypeOK /\ [Next]_vars => log \subseteq log'
<1> SUFFICES ASSUME TypeOK, [Next]_vars PROVE log \subseteq log'
  OBVIOUS
<1>1. ASSUME NEW w \in Writers, CommitStep(w) PROVE log \subseteq log'
  BY <1>1, CommitEffect DEF database
<1>2. ASSUME NEW c \in Cancellers, CancelStep(c) PROVE log \subseteq log'
  BY <1>2 DEF CancelStep, RequestCancel, KeepsRow, CancelCommits, CancelFails,
              CancelAccepted,
              CancelLand, database
<1>3. CASE WorkflowStep
  BY <1>3 DEF WorkflowStep, EnterAttempt, AttemptStarted, PlanSucceeds, PlanFails,
              RecordAttemptFailure, OutcomeRecorded, OutcomeParked, database
<1>4. CASE ReconcilerStep \/ Close \/ TasksCancelled \/ Crash \/ Restore \/ UNCHANGED vars
  BY <1>4 DEF ReconcilerStep, ReconcilePass, Reconciled, ReconcileUnavailable,
              ReconcilerEnds, Close, TasksCancelled, Crash, Restore, database, vars
<1> QED BY <1>1, <1>2, <1>3, <1>4 DEF Next, Writers

(* What each transaction makes of the run, and the event that goes with it. *)
LEMMA TxClaims ==
    /\ StartTx.record.run = "RUNNING"
    /\ SuccessTx.record.run = "SUCCEEDED" /\ SuccessTx.event = "run.succeeded"
    /\ FailureTx.record.run = "FAILED" /\ FailureTx.event = "run.failed"
    /\ \A tx \in Tx : Coherent(tx.record)
    /\ NoTx.record = Admitted /\ Admitted.run = "QUEUED" /\ Running.run = "RUNNING"
    /\ StartTx.record = Running
BY DEF Tx, NoTx, StartTx, SuccessTx, FailureTx, OutcomeTx, Coherent, Admitted, Running,
       Succeeded, Failed, TerminalRun

(* A cancellation is planned for the three contracts alike. *)
LEMMA CancellationPlan ==
    ASSUME NEW r \in Contracts, CanCancel(r)
    PROVE  /\ Coherent(r) => Coherent(Cancellation(r))
           /\ Cancellation(r).run \in {"CANCELLING", "CANCELLED"}
BY DEF Contracts, Coherent, CanCancel, Cancellation, CancellationOf, Admitted,
       RunStatus, TaskStatus, AttemptStatus, TerminalRun, TerminalTask, TerminalAttempt

(* Every step keeps contracts, memory and log telling one story: what memory
   or a landed commit claims, the append-only log holds. *)
LEMMA EvidenceStep ==
    TypeOK /\ Control /\ Evidence /\ [Next]_vars => Evidence'
<1> SUFFICES ASSUME TypeOK, Control, Evidence, [Next]_vars PROVE Evidence'
  OBVIOUS
<1> USE DEF Evidence, RunRowHasItsEvent, Logged, Landed, CancelsLogged, database, memory,
            outcome
<1>0. /\ writer \in [Writers -> WriterState] /\ "workflow" \in Writers
      /\ {"reconciler", "closer"} \subseteq Writers /\ cancel \in [Cancellers -> CancelState]
      /\ cached \in Contracts /\ durable \in Contracts /\ log \subseteq log'
  BY LogGrows DEF TypeOK, Writers
<1>1. ASSUME NEW w \in Writers, CommitStep(w) PROVE Evidence'
  <2>1. Landed' /\ writer[w].tx \in {StartTx} \cup OutcomeTx
    BY <1>0, <1>1, CommitKeepsPlans
  <2>2. Logged(durable)' /\ RunRowHasItsEvent'
    BY <1>0, <1>1, <2>1, CommitEffect, TxClaims, TxFacts DEF OutcomeTx
  <2> QED BY <1>0, <1>1, <2>1, <2>2, CommitEffect
<1>4. CASE EnterAttempt
  BY <1>0, <1>4 DEF EnterAttempt, Plan
<1>5. CASE AttemptStarted
  BY <1>0, <1>5, TxClaims, TxFacts DEF AttemptStarted, Idle
<1>6. CASE PlanSucceeds
  BY <1>0, <1>6 DEF PlanSucceeds, ProposeOutcome, Plan
<1>7. CASE PlanFails
  BY <1>0, <1>7 DEF PlanFails, ProposeOutcome, Plan
<1>8. CASE RecordAttemptFailure
  BY <1>0, <1>8 DEF RecordAttemptFailure
<1>9. CASE OutcomeRecorded
  BY <1>0, <1>9, TxClaims, TxFacts DEF OutcomeRecorded, Idle, OutcomeTx
<1>10. CASE OutcomeParked
  BY <1>0, <1>10 DEF OutcomeParked, Idle
<1>11. CASE ReconcilePass
  BY <1>0, <1>11 DEF ReconcilePass, Plan
<1>12. ASSUME NEW w \in Confirmers, Reconciled(w) PROVE Evidence'
  <2>1. w \in Writers /\ writer[w].tx \in OutcomeTx
    BY <1>12, ConfirmerFacts DEF Reconciled
  <2> QED BY <1>0, <1>12, <2>1, TxClaims, TxFacts DEF Reconciled, Idle, OutcomeTx
<1>13. ASSUME NEW w \in Confirmers, ReconcileUnavailable(w) PROVE Evidence'
  BY <1>0, <1>13 DEF ReconcileUnavailable, Idle
<1>14. CASE ReconcilerEnds
  BY <1>0, <1>14 DEF ReconcilerEnds
<1>15. ASSUME NEW c \in Cancellers, CancelStep(c) PROVE Evidence'
  <2>1. CASE RequestCancel(c)
    BY <1>0, <2>1, CancellationPlan DEF RequestCancel, CancelState
  <2>2. ASSUME CancelLand(c), cancel[c].pc = "writing"
        PROVE  /\ Logged(durable)' /\ RunRowHasItsEvent'
               /\ "run.cancellation_requested" \in log'
    <3>1. /\ durable'.run \in {durable.run, cancel[c].plan.run}
          /\ "run.cancellation_requested" \in log'
      BY <1>0, <2>2, WrittenType DEF CancelLand, CancelState
    <3> QED BY <1>0, <2>2, <3>1, TxClaims DEF OutcomeTx
  <2>3. CASE CancelCommits(c)
    BY <1>0, <2>2, <2>3 DEF CancelCommits, CancelState
  <2>4. CASE CancelFails(c)
    BY <1>0, <2>2, <2>4 DEF CancelFails, CancelState
  <2>5. CASE CancelAccepted(c)
    BY <1>0, <2>5 DEF CancelAccepted, CancelState
  <2>6. CASE KeepsRow(c)
    BY <1>0, <2>6 DEF KeepsRow, CancelState
  <2> QED BY <1>15, <2>1, <2>3, <2>4, <2>5, <2>6 DEF CancelStep
<1>16. CASE Crash
  BY <1>0, <1>16, TxClaims DEF Crash, Idle, CancelState
<1>17. CASE Restore
  BY <1>0, <1>17 DEF Restore
<1>18. CASE UNCHANGED vars
  BY <1>18 DEF vars
<1>19. CASE Close
  BY <1>0, <1>19, TxFacts DEF Close, Plan, Idle
<1>20. CASE TasksCancelled
  BY <1>0, <1>20, TxFacts DEF TasksCancelled, Plan, Idle
<1> QED
  BY <1>1, <1>4, <1>5, <1>6, <1>7, <1>8, <1>9, <1>10, <1>11, <1>12, <1>13, <1>14,
     <1>15, <1>16, <1>17, <1>18, <1>19, <1>20
  DEF Next, WorkflowStep, ReconcilerStep, Writers

-----------------------------------------------------------------------------
(* One request leaves the three rows with one story. *)

Done == {"landed", "accepted", "refused"}
Excused == AskedTwice /\ workflow = "lost"

(* A request leaves a row alone only where another has been: the row reads as
   cancelling because a request of somebody else's put it there. *)
Story ==
    /\ OneStory
    /\ \A c \in Cancellers :
        /\ cancel[c].pc # "idle" => Excused \/ Coherent(cancel[c].plan)
        /\ cancel[c].kept # 0 => AskedTwice
    /\ "run.cancellation_requested" \in log =>
            \E c \in Cancellers : cancel[c].pc \in Done

(* Requests are not forgotten, and a workflow that is lost stays lost. *)
LEMMA Lasting ==
    ASSUME TypeOK, Control, [Next]_vars
    PROVE  /\ \A c \in Cancellers : /\ cancel[c].pc # "idle" => cancel'[c].pc # "idle"
                                    /\ cancel[c].pc \in Done => cancel'[c].pc \in Done
           /\ workflow = "lost" => workflow' = "lost"
<1> USE DEF memory, outcome, database
<1>1. ASSUME NEW d \in Cancellers, CancelStep(d)
      PROVE  /\ \A c \in Cancellers : /\ cancel[c].pc # "idle" => cancel'[c].pc # "idle"
                                      /\ cancel[c].pc \in Done => cancel'[c].pc \in Done
             /\ workflow' = workflow
  <2>1. cancel \in [Cancellers -> CancelState]
    BY DEF TypeOK
  <2>2. CASE RequestCancel(d)
    BY <2>1, <2>2 DEF RequestCancel, Done, CancelState
  <2>3. CASE KeepsRow(d)
    BY <2>1, <2>3 DEF KeepsRow, Done, CancelState
  <2>4. CASE CancelCommits(d) \/ CancelFails(d) \/ CancelAccepted(d)
    BY <2>1, <2>4 DEF CancelCommits, CancelFails, CancelAccepted, Done, CancelState
  <2> QED BY <1>1, <2>2, <2>3, <2>4 DEF CancelStep
<1>2. ASSUME NEW w \in Writers, CommitStep(w) PROVE UNCHANGED <<cancel, workflow>>
  BY <1>2, CommitEffect
<1>3. CASE WorkflowStep
  BY <1>3, TxFacts
  DEF WorkflowStep, EnterAttempt, AttemptStarted, PlanSucceeds, PlanFails,
      RecordAttemptFailure, OutcomeRecorded, OutcomeParked, Control, WorkflowWriter
<1>4. CASE ReconcilerStep \/ Restore \/ Close \/ TasksCancelled \/ UNCHANGED vars
  BY <1>4 DEF ReconcilerStep, ReconcilePass, Reconciled, ReconcileUnavailable,
              ReconcilerEnds, Restore, Close, TasksCancelled, vars
<1>5. CASE Crash
  BY <1>5 DEF Crash, Done, TypeOK, CancelState
<1> QED BY <1>1, <1>2, <1>3, <1>4, <1>5 DEF Next

(* Every step leaves the rows, and the contracts a workflow works with, with
   one story, unless a second request was made. *)
LEMMA StoryStep ==
    TypeOK /\ Control /\ Evidence /\ Story /\ [Next]_vars => Story'
<1> SUFFICES ASSUME TypeOK, Control, Evidence, Story, [Next]_vars PROVE Story'
  OBVIOUS
<1> USE DEF database, memory, outcome
<1>0. /\ cancel \in [Cancellers -> CancelState] /\ log \subseteq log'
      /\ writer \in [Writers -> WriterState]
      /\ cached \in Contracts /\ durable \in Contracts
  BY LogGrows DEF TypeOK
<1>1. /\ AskedTwice => AskedTwice'
      /\ Excused => Excused'
      /\ (\E c \in Cancellers : cancel[c].pc \in Done)
            => \E c \in Cancellers : cancel'[c].pc \in Done
  BY Lasting DEF AskedTwice, Excused
<1>2. /\ AskedTwice \/ Coherent(durable)
      /\ Excused \/ Coherent(cached)
      /\ \A c \in Cancellers :
            /\ cancel[c].pc # "idle" => Excused \/ Coherent(cancel[c].plan)
            /\ cancel[c].kept # 0 => AskedTwice
      /\ "run.cancellation_requested" \in log =>
            \E c \in Cancellers : cancel[c].pc \in Done
  BY DEF Story, OneStory, Excused
(* What is left to show of a step that asks, keeps and cancels nothing. *)
<1>3. ASSUME \A c \in Cancellers : /\ cancel'[c].plan = cancel[c].plan
                                   /\ cancel'[c].kept = cancel[c].kept
                                   /\ cancel'[c].pc # "idle" => cancel[c].pc # "idle",
             "run.cancellation_requested" \in log' => "run.cancellation_requested" \in log,
             durable' = durable \/ Coherent(durable') \/ AskedTwice,
             cached' = cached \/ Coherent(cached') \/ Excused
      PROVE  Story'
  <2>1. /\ AskedTwice' \/ Coherent(durable')
        /\ Excused' \/ Coherent(cached')
    BY <1>1, <1>2, <1>3
  <2>2. \A c \in Cancellers :
            /\ cancel'[c].pc # "idle" => Excused' \/ Coherent(cancel'[c].plan)
            /\ cancel'[c].kept # 0 => AskedTwice'
    BY <1>1, <1>2, <1>3
  <2>3. "run.cancellation_requested" \in log' =>
            \E c \in Cancellers : cancel'[c].pc \in Done
    BY <1>1, <1>2, <1>3
  <2> QED BY <2>1, <2>2, <2>3 DEF Story, OneStory, Excused
<1>4. ASSUME NEW w \in Writers, CommitStep(w) PROVE Story'
  <2>1. /\ UNCHANGED <<cancel, cached>> /\ writer[w].tx \in {StartTx} \cup OutcomeTx
        /\ \/ UNCHANGED database
           \/ durable' = writer[w].tx.record /\ log' = log \cup {writer[w].tx.event}
    BY <1>4, CommitEffect, CommitKeepsPlans
  <2>2. writer[w].tx \in Tx
    BY <2>1, TxFacts
  <2>3. durable' = durable \/ Coherent(durable')
    BY <2>1, <2>2, TxClaims
  <2>4. "run.cancellation_requested" \in log' => "run.cancellation_requested" \in log
    BY <2>1, <2>2, TxFacts
  <2> QED BY <1>3, <2>1, <2>3, <2>4
<1>5. CASE WorkflowStep
  <2>1. UNCHANGED <<cancel, durable>>
    BY <1>5 DEF WorkflowStep, EnterAttempt, AttemptStarted, PlanSucceeds, PlanFails,
                RecordAttemptFailure, OutcomeRecorded, OutcomeParked
  <2>2. "run.cancellation_requested" \in log' => "run.cancellation_requested" \in log
    BY <1>5 DEF WorkflowStep, EnterAttempt, AttemptStarted, PlanSucceeds, PlanFails,
                RecordAttemptFailure, OutcomeRecorded, OutcomeParked
  <2>3. cached' = cached \/ Coherent(cached')
    BY <1>0, <1>5, TxClaims, TxFacts
    DEF WorkflowStep, EnterAttempt, AttemptStarted, PlanSucceeds, PlanFails,
        RecordAttemptFailure, OutcomeRecorded, OutcomeParked, Writers
  <2> QED BY <1>3, <2>1, <2>2, <2>3
<1>6. CASE ReconcilerStep
  <2>1. UNCHANGED <<cancel, durable, log>>
    BY <1>6 DEF ReconcilerStep, ReconcilePass, Reconciled, ReconcileUnavailable,
                ReconcilerEnds
  <2>2. cached' = cached \/ Coherent(cached')
    <3>1. ASSUME NEW w \in Confirmers, Reconciled(w) PROVE Coherent(cached')
      BY <3>1, ConfirmerFacts, TxClaims, TxFacts DEF Reconciled
    <3> QED BY <1>6, <3>1 DEF ReconcilerStep, ReconcilePass, ReconcileUnavailable,
                              ReconcilerEnds
  <2> QED BY <1>3, <2>1, <2>2
<1>7. CASE Close \/ TasksCancelled \/ UNCHANGED vars
  BY <1>3, <1>7 DEF Close, TasksCancelled, vars
<1>8. CASE Crash
  <2>1. \A c \in Cancellers : /\ cancel'[c].plan = cancel[c].plan
                              /\ cancel'[c].kept = cancel[c].kept
                              /\ cancel'[c].pc # "idle" => cancel[c].pc # "idle"
    BY <1>0, <1>8 DEF Crash, CancelState
  <2>2. UNCHANGED <<durable, log>> /\ Coherent(cached')
    BY <1>8 DEF Crash, Coherent
  <2> QED BY <1>3, <2>1, <2>2
<1>9. CASE Restore
  <2>1. UNCHANGED <<cancel, durable, log>> /\ cached' = durable /\ workflow = "lost"
    BY <1>9 DEF Restore, Control, LostWhenDown, Up
  <2>2. Coherent(cached') \/ Excused
    BY <1>2, <2>1 DEF Excused
  <2> QED BY <1>3, <2>1, <2>2
<1>10. ASSUME NEW c \in Cancellers, RequestCancel(c) PROVE Story'
  <2>1. /\ cancel' = [cancel EXCEPT ![c] =
              [pc |-> "writing", plan |-> Cancellation(cached),
               again |-> Cancellation(cached) = cached, kept |-> 0]]
        /\ UNCHANGED <<durable, cached, log, workflow>> /\ CanCancel(cached)
    BY <1>10 DEF RequestCancel
  <2>2. cancel'[c].plan = Cancellation(cached) /\ cancel'[c].kept = 0
        /\ \A d \in Cancellers \ {c} : cancel'[d] = cancel[d]
    BY <1>0, <2>1
  <2>3. Excused \/ Coherent(cancel'[c].plan)
    BY <1>0, <1>2, <2>1, <2>2, CancellationPlan
  <2> QED BY <1>1, <1>2, <2>1, <2>2, <2>3 DEF Story, OneStory, Excused
<1>11. ASSUME NEW c \in Cancellers, KeepsRow(c) PROVE Story'
  <2>1. /\ cancel[c].pc = "writing" /\ UNCHANGED <<durable, cached, log, workflow>>
        /\ cancel' = [cancel EXCEPT ![c].kept = cancel[c].kept + 1]
        /\ cancel[c].kept # 0 \/ durable.run = cancel[c].plan.run
    BY <1>11 DEF KeepsRow
  <2>2. /\ cancel'[c].pc = cancel[c].pc /\ cancel'[c].plan = cancel[c].plan
        /\ \A d \in Cancellers \ {c} : cancel'[d] = cancel[d]
    BY <1>0, <2>1 DEF CancelState
  <2>3. AskedTwice
    <3>1. CASE cancel[c].kept # 0
      BY <1>2, <3>1
    <3>2. CASE durable.run = cancel[c].plan.run
      <4>1. "run.cancellation_requested" \in log
        BY <2>1, <3>2 DEF Evidence, CancelsLogged, Logged
      <4>2. PICK d \in Cancellers : cancel[d].pc \in Done
        BY <1>2, <4>1
      <4> QED BY <2>1, <4>2 DEF AskedTwice, Done
    <3> QED BY <2>1, <3>1, <3>2
  <2> QED BY <1>1, <1>2, <2>1, <2>2, <2>3 DEF Story, OneStory, Excused
<1>12. ASSUME NEW c \in Cancellers, CancelCommits(c) \/ CancelFails(c) PROVE Story'
  <2>1. PICK pc \in Done :
          /\ cancel' = [cancel EXCEPT ![c].pc = pc] /\ cancel[c].pc = "writing"
          /\ UNCHANGED <<cached, workflow>>
          /\ UNCHANGED database \/ CancelLand(c)
    BY <1>12 DEF CancelCommits, CancelFails, Done
  <2>2. /\ cancel'[c].pc \in Done /\ cancel'[c].plan = cancel[c].plan
        /\ cancel'[c].kept = cancel[c].kept
        /\ \A d \in Cancellers \ {c} : cancel'[d] = cancel[d]
    BY <1>0, <2>1 DEF CancelState
  <2>3. AskedTwice \/ Coherent(durable')
    <3>1. CASE UNCHANGED database
      BY <1>2, <3>1
    <3>2. CASE CancelLand(c)
      BY <1>0, <1>2, <2>1, <3>2, WrittenType DEF CancelLand, CancelState, Excused
    <3> QED BY <2>1, <3>1, <3>2
  <2>4. \A d \in Cancellers :
            /\ cancel'[d].pc # "idle" => Excused' \/ Coherent(cancel'[d].plan)
            /\ cancel'[d].kept # 0 => AskedTwice'
    BY <1>1, <1>2, <2>1, <2>2
  <2> QED BY <1>1, <1>2, <2>1, <2>2, <2>3, <2>4 DEF Story, OneStory, Excused
<1>13. ASSUME NEW c \in Cancellers, CancelAccepted(c) PROVE Story'
  <2>1. /\ cancel' = [cancel EXCEPT ![c].pc = "accepted"] /\ cancel[c].pc = "landed"
        /\ UNCHANGED <<durable, log, workflow>> /\ cached' = cancel[c].plan
    BY <1>13 DEF CancelAccepted
  <2>2. \A d \in Cancellers : /\ cancel'[d].plan = cancel[d].plan
                              /\ cancel'[d].kept = cancel[d].kept
                              /\ cancel'[d].pc # "idle" => cancel[d].pc # "idle"
    BY <1>0, <2>1 DEF CancelState
  <2>3. Coherent(cached') \/ Excused
    BY <1>2, <2>1
  <2> QED BY <1>3, <2>1, <2>2, <2>3
<1> QED
  BY <1>4, <1>5, <1>6, <1>7, <1>8, <1>9, <1>10, <1>11, <1>12, <1>13
  DEF Next, CancelStep

-----------------------------------------------------------------------------
(* What is published is backed by the log. *)

(* Only a step that has seen its commit land publishes an outcome. *)
LEMMA PublishedStep ==
    TypeOK /\ Control /\ Evidence /\ PublishedIsRecorded /\ [Next]_vars
        => PublishedIsRecorded'
<1> SUFFICES ASSUME TypeOK, Control, Evidence, PublishedIsRecorded, [Next]_vars
             PROVE  PublishedIsRecorded'
  OBVIOUS
<1> USE DEF PublishedIsRecorded, database, memory, outcome
<1>0. log \subseteq log' /\ cached \in Contracts /\ durable \in Contracts
  BY LogGrows DEF TypeOK
<1>1. ASSUME NEW w \in Writers, CommitStep(w) PROVE PublishedIsRecorded'
  BY <1>0, <1>1, CommitEffect
<1>2. /\ Logged(cached)
      /\ ExecutionStatusOf(cached.run) = "completed" => cached.run = "SUCCEEDED"
      /\ ExecutionStatusOf(cached.run) = "failed" => cached.run = "FAILED"
      /\ ExecutionStatusOf(cached.run) = "cancelled" => cached.run = "CANCELLED"
  BY <1>0 DEF Evidence, Contracts, RunStatus, ExecutionStatusOf
<1>3. CASE EnterAttempt \/ AttemptStarted \/ RecordAttemptFailure \/ OutcomeParked
  BY <1>0, <1>3 DEF EnterAttempt, AttemptStarted, RecordAttemptFailure, OutcomeParked
<1>4. CASE PlanSucceeds \/ PlanFails
  <2>1. \/ UNCHANGED status
        \/ status' = ExecutionStatusOf(cached.run)
    BY <1>4 DEF PlanSucceeds, PlanFails, ProposeOutcome, Realign
  <2> QED BY <1>0, <1>2, <2>1 DEF Logged
<1>5. CASE OutcomeRecorded
  BY <1>0, <1>5, TxClaims, TxFacts
  DEF OutcomeRecorded, OutcomeTx, PublishedAs, Evidence, Landed, Writers
<1>6. ASSUME NEW w \in Confirmers, Reconciled(w) PROVE PublishedIsRecorded'
  <2>1. w \in Writers /\ writer[w].tx \in OutcomeTx
    BY <1>6, ConfirmerFacts DEF Reconciled
  <2> QED BY <1>0, <1>6, <2>1, TxClaims, TxFacts
          DEF Reconciled, OutcomeTx, PublishedAs, Evidence, Landed, Writers
<1>7. CASE ReconcilePass \/ ReconcilerEnds \/ Close \/ TasksCancelled
  BY <1>0, <1>7 DEF ReconcilePass, ReconcilerEnds, Close, TasksCancelled
<1>12. ASSUME NEW w \in Confirmers, ReconcileUnavailable(w) PROVE PublishedIsRecorded'
  BY <1>0, <1>12 DEF ReconcileUnavailable
<1>8. ASSUME NEW c \in Cancellers, CancelStep(c) PROVE PublishedIsRecorded'
  BY <1>0, <1>8 DEF CancelStep, RequestCancel, KeepsRow, CancelCommits, CancelFails,
                    CancelAccepted, CancelLand, Evidence, CancelsLogged
<1>9. CASE Crash
  BY <1>9 DEF Crash
<1>10. CASE Restore
  BY <1>0, <1>10
  DEF Restore, TerminalRun, Contracts, RunStatus, ExecutionStatusOf
<1>11. CASE UNCHANGED vars
  BY <1>11 DEF vars
<1> QED
  BY <1>1, <1>3, <1>4, <1>5, <1>6, <1>7, <1>8, <1>9, <1>10, <1>11, <1>12
  DEF Next, WorkflowStep, ReconcilerStep, Writers

-----------------------------------------------------------------------------
(* One outcome: whoever still may write an outcome, or plans to, contradicts
   nothing the log holds. *)

Outcomes == {"run.succeeded", "run.failed"}

Undecided == \/ workflow \in {"entering", "reporting"}
             \/ workflow = "executing" /\ writer["workflow"].pc = "idle"

Uncontradicted(tx) ==
    /\ tx = SuccessTx => "run.failed" \notin log
    /\ tx = FailureTx => "run.succeeded" \notin log

Exclusive ==
    /\ Undecided => "run.succeeded" \notin log /\ "run.failed" \notin log
    /\ \A w \in Writers : Uncontradicted(writer[w].tx)
    /\ Uncontradicted(parked)
    /\ ~("run.succeeded" \in log /\ "run.failed" \in log)

(* No retry, park or reconciliation puts a second outcome beside the first. *)
LEMMA ExclusiveStep ==
    TypeOK /\ Control /\ Exclusive /\ [Next]_vars => Exclusive'
<1> SUFFICES ASSUME TypeOK, Control, Exclusive, [Next]_vars PROVE Exclusive'
  OBVIOUS
<1> USE DEF Exclusive, Undecided, Uncontradicted, Control, WorkflowWriter,
            ConfirmingWriter, Confirmers, Writers, database, memory, outcome
<1>0. /\ writer \in [Writers -> WriterState] /\ "workflow" \in Writers
      /\ {"reconciler", "closer"} \subseteq Writers /\ parked \in {NoTx} \cup OutcomeTx
  BY DEF TypeOK, Writers
<1>1. ASSUME NEW w \in Writers, CommitStep(w) PROVE Exclusive'
  <2>1. CASE UNCHANGED log
    BY <1>0, <1>1, <2>1, CommitKeepsPlans, CommitEffect DEF Writers
  <2>2. CASE log' = log \cup {writer[w].tx.event} /\ w = "workflow"
    <3>1. CASE writer["workflow"].tx = StartTx
      BY <1>0, <1>1, <2>2, <3>1, CommitKeepsPlans, CommitEffect, TxFacts DEF StartTx
    <3>2. CASE writer["workflow"].tx \in OutcomeTx
      <4>1. /\ parked = NoTx /\ workflow = "executing"
            /\ \A v \in Confirmers : writer[v].tx = NoTx
        BY <3>2
      <4>2. writer["workflow"].pc = "writing" /\ writer'["workflow"].pc # "idle"
        BY <1>1, <2>2, CommitKeepsPlans
      <4>3. /\ UNCHANGED <<workflow, parked>>
            /\ \A v \in Writers : writer'[v].tx = writer[v].tx
        BY <1>0, <1>1, <2>2, CommitKeepsPlans, CommitEffect
      <4> QED BY <2>2, <3>2, <4>1, <4>2, <4>3, TxClaims, TxFacts DEF OutcomeTx
    <3> QED BY <1>1, <2>2, <3>1, <3>2, CommitKeepsPlans
  <2>3. CASE log' = log \cup {writer[w].tx.event} /\ w \in Confirmers
    <3>1. /\ writer[w].tx \in OutcomeTx /\ workflow = "finished"
          /\ parked \in {NoTx, writer[w].tx} /\ writer["workflow"].tx = NoTx
      BY <1>1, <2>3, CommitEffect, ConfirmerFacts
    <3>2. \A v \in Confirmers : writer[v].tx \in {NoTx, writer[w].tx}
      BY <2>3, <3>1, TxFacts DEF Confirmers
    <3>3. /\ UNCHANGED <<workflow, parked>>
          /\ \A v \in Writers : writer'[v].tx \in {NoTx, writer[w].tx}
      BY <1>0, <1>1, <3>1, <3>2, CommitKeepsPlans, CommitEffect DEF Writers, Confirmers
    <3>4. Uncontradicted(writer[w].tx)
      BY DEF Exclusive
    <3> QED BY <2>3, <3>1, <3>3, <3>4, TxClaims, TxFacts DEF OutcomeTx
  <2> QED BY <1>1, <2>1, <2>2, <2>3, CommitEffect DEF Writers, Confirmers
<1>4. CASE EnterAttempt
  BY <1>0, <1>4, TxFacts DEF EnterAttempt, Plan, Asleep, OutcomeTx
<1>5. CASE AttemptStarted
  BY <1>0, <1>5, TxFacts DEF AttemptStarted, Idle, OutcomeTx
<1>6. CASE PlanSucceeds
  BY <1>0, <1>6, TxFacts DEF PlanSucceeds, ProposeOutcome, Plan, Asleep
<1>7. CASE PlanFails
  BY <1>0, <1>7, TxFacts DEF PlanFails, ProposeOutcome, Plan, Asleep
<1>8. CASE RecordAttemptFailure
  BY <1>0, <1>8, TxFacts DEF RecordAttemptFailure
<1>9. CASE OutcomeRecorded
  BY <1>0, <1>9, TxFacts DEF OutcomeRecorded, Idle, OutcomeTx
<1>10. CASE OutcomeParked
  BY <1>0, <1>10, TxFacts DEF OutcomeParked, Idle, OutcomeTx
<1>11. CASE ReconcilePass
  BY <1>0, <1>11, TxFacts DEF ReconcilePass, Plan
<1>12. ASSUME NEW w \in Confirmers, Reconciled(w) PROVE Exclusive'
  BY <1>0, <1>12, TxFacts DEF Reconciled, Idle, OutcomeTx
<1>13. ASSUME NEW w \in Confirmers, ReconcileUnavailable(w) PROVE Exclusive'
  <2>1. \A v \in Writers : writer'[v].tx \in {NoTx, writer[v].tx}
    BY <1>0, <1>13 DEF ReconcileUnavailable, Idle
  <2>2. writer'["workflow"] = writer["workflow"]
    BY <1>0, <1>13 DEF ReconcileUnavailable
  <2> QED BY <1>0, <1>13, <2>1, <2>2, TxFacts DEF OutcomeTx, ReconcileUnavailable
<1>14. CASE ReconcilerEnds
  BY <1>0, <1>14 DEF ReconcilerEnds
<1>15. ASSUME NEW c \in Cancellers, CancelStep(c) PROVE Exclusive'
  BY <1>15 DEF CancelStep, RequestCancel, KeepsRow, CancelCommits, CancelFails,
              CancelAccepted,
               CancelLand
<1>16. CASE Crash
  BY <1>0, <1>16, TxFacts DEF Crash, Idle, OutcomeTx
<1>17. CASE Restore
  BY <1>17 DEF Restore
<1>18. CASE UNCHANGED vars
  BY <1>18 DEF vars
<1>19. CASE Close
  BY <1>0, <1>19, TxFacts DEF Close, Plan, Idle
<1>20. CASE TasksCancelled
  <2>1. \A v \in Writers : writer'[v].tx = NoTx
    BY <1>20 DEF TasksCancelled, Idle
  <2>2. workflow' \in {"finished", "lost"} /\ UNCHANGED <<log, parked>>
    BY <1>20 DEF TasksCancelled
  <2> QED BY <2>1, <2>2, TxFacts DEF OutcomeTx
<1> QED
  BY <1>1, <1>4, <1>5, <1>6, <1>7, <1>8, <1>9, <1>10, <1>11, <1>12, <1>13, <1>14,
     <1>15, <1>16, <1>17, <1>18, <1>19, <1>20
  DEF Next, WorkflowStep, ReconcilerStep, Writers

-----------------------------------------------------------------------------
(* A withheld outcome is a parked one. *)

(* Parking and withholding, and their ends, happen in one step each. *)
LEMMA WithheldStep ==
    TypeOK /\ Control /\ WithheldIsParked /\ [Next]_vars => WithheldIsParked'
<1> SUFFICES ASSUME TypeOK, Control, WithheldIsParked, [Next]_vars
             PROVE  WithheldIsParked'
  OBVIOUS
<1> USE DEF WithheldIsParked, database, memory, outcome
<1>0. workflow # "finished" => parked = NoTx /\ unconfirmed = "none"
  BY DEF Control, ConfirmingWriter
<1>1. ASSUME NEW w \in Writers, CommitStep(w) PROVE WithheldIsParked'
  BY <1>1, CommitEffect
<1>2. CASE EnterAttempt \/ RecordAttemptFailure
  BY <1>2 DEF EnterAttempt, RecordAttemptFailure
<1>3. CASE AttemptStarted
  BY <1>0, <1>3, TxFacts DEF AttemptStarted, Control, WorkflowWriter, TypeOK
<1>4. CASE PlanSucceeds \/ PlanFails
  BY <1>0, <1>4 DEF PlanSucceeds, PlanFails, ProposeOutcome, Realign
<1>5. CASE OutcomeRecorded
  BY <1>5 DEF OutcomeRecorded
<1>6. CASE OutcomeParked
  BY <1>6, TxFacts DEF OutcomeParked
<1>7. CASE ReconcilerStep \/ Close \/ TasksCancelled
  BY <1>7 DEF ReconcilerStep, ReconcilePass, Reconciled, ReconcileUnavailable,
              ReconcilerEnds, Close, TasksCancelled
<1>8. ASSUME NEW c \in Cancellers, CancelStep(c) PROVE WithheldIsParked'
  BY <1>8 DEF CancelStep, RequestCancel, KeepsRow, CancelCommits, CancelFails,
              CancelAccepted,
              CancelLand
<1>9. CASE Crash \/ Restore \/ UNCHANGED vars
  BY <1>9 DEF Crash, Restore, vars
<1> QED
  BY <1>1, <1>2, <1>3, <1>4, <1>5, <1>6, <1>7, <1>8, <1>9
  DEF Next, WorkflowStep, Writers

-----------------------------------------------------------------------------
(* A finished workflow leaves its outcome behind. *)

(* Every way the workflow ends leaves its outcome in the log or parked, or was
   refused by contracts a cancellation, or a lost start, had left behind. *)
LEMMA KeptStep ==
    TypeOK /\ Control /\ Evidence /\ Story /\ OutcomeKept /\ [Next]_vars
        => OutcomeKept'
<1> SUFFICES ASSUME TypeOK, Control, Evidence, Story, OutcomeKept, [Next]_vars
             PROVE  OutcomeKept'
  OBVIOUS
<1> USE DEF OutcomeKept, database, memory, outcome
<1>0. /\ log \subseteq log' /\ parked \in {NoTx} \cup OutcomeTx
      /\ cached \in Contracts /\ Logged(cached)
      /\ workflow = "executing" => Coherent(cached)
  BY LogGrows DEF TypeOK, Evidence, Story, OneStory
<1>1. ASSUME NEW w \in Writers, CommitStep(w) PROVE OutcomeKept'
  BY <1>0, <1>1, CommitEffect
<1>2. CASE EnterAttempt \/ RecordAttemptFailure \/ AttemptStarted
  BY <1>0, <1>2 DEF EnterAttempt, RecordAttemptFailure, AttemptStarted
<1>3. ASSUME ~CanTransition(cached, Succeeded) \/ ~CanTransition(cached, Failed),
             workflow = "executing"
      PROVE  \/ {"run.succeeded", "run.failed"} \cap log # {}
             \/ cached.run \in {"QUEUED", "CANCELLING", "CANCELLED"}
  <2>1. ~(cached.run = "RUNNING" /\ cached.task = "RUNNING" /\ cached.attempt = "RUNNING")
    BY <1>3 DEF CanTransition, Succeeded, Failed, RunTransitions, TaskTransitions,
                AttemptTransitions
  <2> QED BY <1>0, <1>3, <2>1 DEF Coherent, Admitted, Logged, TerminalRun
<1>4. CASE PlanSucceeds \/ PlanFails
  <2>1. /\ workflow = "executing" /\ UNCHANGED <<log, cached, parked>>
        /\ workflow' = "finished" =>
              ~CanTransition(cached, Succeeded) \/ ~CanTransition(cached, Failed)
    BY <1>4 DEF PlanSucceeds, PlanFails, ProposeOutcome, SuccessTx, FailureTx
  <2> QED BY <1>3, <2>1
<1>5. CASE OutcomeRecorded
  BY <1>0, <1>5, TxClaims
  DEF OutcomeRecorded, OutcomeTx, Evidence, Landed, Writers
<1>6. CASE OutcomeParked
  BY <1>6, TxFacts DEF OutcomeParked
<1>7. CASE ReconcilePass \/ ReconcilerEnds \/ Close \/ TasksCancelled
  BY <1>7 DEF ReconcilePass, ReconcilerEnds, Close, TasksCancelled
<1>13. ASSUME NEW w \in Confirmers, ReconcileUnavailable(w) PROVE OutcomeKept'
  BY <1>13 DEF ReconcileUnavailable
<1>8. ASSUME NEW w \in Confirmers, Reconciled(w) PROVE OutcomeKept'
  <2>1. w \in Writers /\ writer[w].tx \in OutcomeTx
    BY <1>8, ConfirmerFacts DEF Reconciled
  <2> QED BY <1>0, <1>8, <2>1, TxClaims
          DEF Reconciled, OutcomeTx, Evidence, Landed, Writers
<1>9. ASSUME NEW c \in Cancellers, CancelStep(c) PROVE OutcomeKept'
  BY <1>0, <1>9 DEF CancelStep, RequestCancel, KeepsRow, CancelCommits, CancelFails,
                    CancelAccepted, CancelLand, Evidence, CancelsLogged
<1>10. CASE Crash
  BY <1>10 DEF Crash
<1>11. CASE Restore
  BY <1>11 DEF Restore, Control, LostWhenDown, Up
<1>12. CASE UNCHANGED vars
  BY <1>12 DEF vars
<1> QED
  BY <1>1, <1>2, <1>4, <1>5, <1>6, <1>7, <1>8, <1>9, <1>10, <1>11, <1>12, <1>13
  DEF Next, WorkflowStep, ReconcilerStep, Writers

-----------------------------------------------------------------------------
(* The inductive invariant, and what follows from it. *)

IInv == /\ TypeOK /\ Control /\ Evidence /\ Story /\ Exclusive
        /\ PublishedIsRecorded /\ WithheldIsParked /\ OutcomeKept

(* The strengthened invariant holds in every state the service can reach. *)
THEOREM Invariance == Spec => []IInv
<1>1. Init => IInv
  <2> SUFFICES ASSUME Init PROVE IInv
    OBVIOUS
  <2>1. TypeOK /\ Control
    BY InitTyped
  <2>2. Evidence
    BY TxClaims
    DEF Init, Evidence, RunRowHasItsEvent, Logged, Landed, CancelsLogged, NoCancel, Idle,
        Writers, OutcomeTx
  <2>5. Story
    BY DEF Init, Story, OneStory, Coherent, NoCancel
  <2>3. Exclusive
    BY TxFacts DEF Init, Exclusive, Undecided, Uncontradicted, Idle, OutcomeTx
  <2>4. PublishedIsRecorded /\ WithheldIsParked /\ OutcomeKept
    BY DEF Init, PublishedIsRecorded, WithheldIsParked, OutcomeKept
  <2> QED BY <2>1, <2>2, <2>3, <2>4, <2>5 DEF IInv
<1>2. IInv /\ [Next]_vars => IInv'
  BY TypeStep, ControlStep, EvidenceStep, StoryStep, ExclusiveStep, PublishedStep, WithheldStep,
     KeptStep
  DEF IInv
<1> QED BY <1>1, <1>2, PTL DEF Spec

(* Every variable keeps the type the code gives it, whatever is cancelled,
   however often the database fails and the process dies. *)
THEOREM Typing == Spec => []TypeOK
<1>1. IInv => TypeOK
  BY DEF IInv
<1> QED BY <1>1, Invariance, PTL

(* The run, its task and its attempt tell one story until a second cancel
   request is made, and to a workflow always. *)
THEOREM Agreement == Spec => []OneStory
<1>1. IInv => OneStory
  BY DEF IInv, Story
<1> QED BY <1>1, Invariance, PTL

(* No transition of the workflow's lands with the run's row left alone: one
   that finds the row as planned finds its event in the log. *)
THEOREM TransitionsWriteTheRun == Spec => []RunRowHasItsEvent
<1>1. IInv => RunRowHasItsEvent
  BY DEF IInv, Evidence
<1> QED BY <1>1, Invariance, PTL

(* No caller reads an outcome or an accepted cancellation the log lacks. *)
THEOREM PublishedOnlyIfRecorded == Spec => []PublishedIsRecorded
<1>1. IInv => PublishedIsRecorded
  BY DEF IInv
<1> QED BY <1>1, Invariance, PTL

(* The log never holds a success and a failure of the same run. *)
THEOREM SingleOutcome == Spec => []OneOutcome
<1>1. IInv => OneOutcome
  BY DEF IInv, Exclusive, OneOutcome
<1> QED BY <1>1, Invariance, PTL

(* What a caller is told is withheld is exactly what is parked. *)
THEOREM WithheldOnlyIfParked == Spec => []WithheldIsParked
<1>1. IInv => WithheldIsParked
  BY DEF IInv
<1> QED BY <1>1, Invariance, PTL

(* A finished workflow left its outcome in the log or parked, or its contracts
   refused it. *)
THEOREM OutcomeIsKept == Spec => []OutcomeKept
<1>1. IInv => OutcomeKept
  BY DEF IInv
<1> QED BY <1>1, Invariance, PTL

-----------------------------------------------------------------------------
(* The service implements RunPromise. *)

(* What ties the rows to the log until a cancellation is recorded: they hold
   the last thing it tells, and nobody holds a started contract, or a success,
   of a run never started. *)
Uncancelled ==
    /\ {durable, cached} \subseteq {Admitted, Running, Succeeded, Failed}
    /\ "run.succeeded" \in log => durable = Succeeded
    /\ "run.failed" \in log => durable = Failed
    /\ \/ durable # Admitted
       \/ /\ "run.started" \notin log /\ cached = Admitted /\ parked # SuccessTx
          /\ \A w \in Writers : writer[w].tx # SuccessTx

(* The four records differ, and so do their runs. *)
LEMMA RecordFacts ==
    /\ Admitted.run = "QUEUED" /\ Running.run = "RUNNING"
    /\ Succeeded.run = "SUCCEEDED" /\ Failed.run = "FAILED"
    /\ StartTx.record = Running /\ StartTx.event = "run.started"
    /\ SuccessTx.record = Succeeded /\ SuccessTx.event = "run.succeeded"
    /\ FailureTx.record = Failed /\ FailureTx.event = "run.failed"
    /\ SuccessTx \notin {NoTx, StartTx, FailureTx}
BY DEF Admitted, Running, Succeeded, Failed, NoTx, StartTx, SuccessTx, FailureTx

(* A commit writes what may follow: a start over a run no outcome was logged
   for, an outcome over a started run or over itself, a failure over a run that
   may never have started. *)
LEMMA CommitFollows ==
    ASSUME IInv, Uncancelled, NEW w \in Writers, CommitStep(w)
    PROVE  /\ Uncancelled'
           /\ durable'.run = durable.run \/ <<durable.run, durable'.run>> \in RunTransitions
<1> DEFINE tx == writer[w].tx
<1>1. /\ TypeOK /\ Control /\ Exclusive /\ Evidence
      /\ \A v \in Writers : writer'[v].tx = writer[v].tx
      /\ tx \in {StartTx} \cup OutcomeTx /\ UNCHANGED <<cached, parked>>
  BY CommitKeepsPlans, CommitEffect DEF IInv, memory, outcome
<1>2. CASE UNCHANGED database
  BY <1>1, <1>2 DEF Uncancelled, database
<1>3. ASSUME durable' = tx.record, log' = log \cup {tx.event}, tx = StartTx
      PROVE  /\ Uncancelled' /\ durable \in {Admitted, Running}
  <2>1. workflow = "entering"
    BY <1>1, <1>3, ConfirmerFacts, CommitEffect, TxFacts
    DEF Control, WorkflowWriter, Writers, Confirmers
  <2>2. "run.succeeded" \notin log /\ "run.failed" \notin log
    BY <1>1, <2>1 DEF Exclusive, Undecided
  <2>3. durable \in {Admitted, Running}
    BY <1>1, <2>2, RecordFacts DEF Uncancelled, Evidence, Logged
  <2> QED BY <1>1, <1>3, <2>2, <2>3, RecordFacts DEF Uncancelled
<1>4. ASSUME durable' = tx.record, log' = log \cup {tx.event}, tx \in OutcomeTx
      PROVE  /\ Uncancelled'
             /\ durable \in {Running, tx.record} \/ (durable = Admitted /\ tx = FailureTx)
  <2>1. durable # Admitted \/ tx = FailureTx
    BY <1>4 DEF Uncancelled, OutcomeTx
  <2>2. Uncontradicted(tx)
    BY <1>1 DEF Exclusive
  <2>3. durable \in {Running, tx.record} \/ (durable = Admitted /\ tx = FailureTx)
    <3>1. /\ tx = SuccessTx \/ tx = FailureTx
          /\ durable \in {Admitted, Running, Succeeded, Failed}
      BY <1>4 DEF OutcomeTx, Uncancelled
    <3>2. /\ durable = Succeeded => "run.succeeded" \in log
          /\ durable = Failed => "run.failed" \in log
      BY <1>1, RecordFacts DEF Evidence, Logged
    <3> QED BY <2>1, <2>2, <3>1, <3>2, RecordFacts DEF Uncontradicted
  <2> QED BY <1>1, <1>4, <2>2, <2>3, RecordFacts DEF Uncancelled, Uncontradicted, OutcomeTx
<1>5. UNCHANGED database \/ (durable' = tx.record /\ log' = log \cup {tx.event})
  BY <1>1, CommitEffect
<1> QED BY <1>1, <1>2, <1>3, <1>4, <1>5, RecordFacts
        DEF database, OutcomeTx, RunTransitions

(* Until a cancellation is requested, nothing but a commit writes the rows, and
   every step keeps them tied to the log. *)
LEMMA UncancelledStep ==
    IInv /\ Uncancelled /\ [Next]_vars /\ "run.cancellation_requested" \notin log'
        => /\ Uncancelled'
           /\ UNCHANGED durable \/ \E w \in Writers : CommitStep(w)
<1> SUFFICES ASSUME IInv, Uncancelled, [Next]_vars,
                    "run.cancellation_requested" \notin log'
             PROVE  /\ Uncancelled'
                    /\ UNCHANGED durable \/ \E w \in Writers : CommitStep(w)
  OBVIOUS
<1> USE RecordFacts, TxFacts DEF database, memory, outcome
<1>0. /\ TypeOK /\ Control /\ Evidence
      /\ writer \in [Writers -> WriterState] /\ "workflow" \in Writers
      /\ "reconciler" \in Writers /\ "closer" \in Writers
      /\ \A v \in Writers : writer[v].pc = "landed" => writer[v].tx.event \in log
      /\ durable = Admitted => cached = Admitted
  BY DEF IInv, TypeOK, Evidence, Landed, Writers, Uncancelled
<1>1. ASSUME NEW w \in Writers, CommitStep(w) PROVE Uncancelled'
  BY <1>1, CommitFollows
<1>2. CASE EnterAttempt
  BY <1>0, <1>2 DEF EnterAttempt, Plan, Uncancelled, Writers
<1>3. CASE AttemptStarted
  <2>1. /\ cached' \in {cached, Running} /\ parked' \in {parked, NoTx}
        /\ cached' = Running => durable # Admitted
    BY <1>0, <1>3 DEF AttemptStarted, Uncancelled
  <2>2. \A v \in Writers : writer'[v].tx \in {NoTx, writer[v].tx}
    BY <1>0, <1>3 DEF AttemptStarted, Idle
  <2>3. UNCHANGED database
    BY <1>3 DEF AttemptStarted
  <2> QED BY <1>0, <2>1, <2>2, <2>3 DEF Uncancelled
<1>4. CASE PlanSucceeds \/ PlanFails
  <2>1. /\ UNCHANGED <<database, cached, parked>>
        /\ \/ UNCHANGED writer \/ cached # Admitted
           \/ writer' = [writer EXCEPT !["workflow"] = Plan(FailureTx)]
    <3>1. ~CanTransition(Admitted, Succeeded)
      BY DEF CanTransition, RunTransitions
    <3> QED BY <1>4, <3>1 DEF PlanSucceeds, PlanFails, ProposeOutcome
  <2> QED BY <1>0, <2>1 DEF Uncancelled, Plan
<1>5. CASE RecordAttemptFailure
  BY <1>5 DEF RecordAttemptFailure, Uncancelled
<1>6. ASSUME OutcomeRecorded \/ \E w \in Confirmers : Reconciled(w)
      PROVE  Uncancelled' /\ UNCHANGED durable
  <2>1. PICK w \in Writers :
          /\ writer[w].pc = "landed" /\ writer[w].tx \in OutcomeTx
          /\ cached' = writer[w].tx.record /\ parked' = NoTx
          /\ writer' = [writer EXCEPT ![w] = Idle] /\ UNCHANGED database
    BY <1>0, <1>6, ConfirmerFacts DEF OutcomeRecorded, Reconciled
  <2>2. cached' = durable
    BY <1>0, <2>1 DEF Uncancelled, OutcomeTx
  <2>3. \A v \in Writers : writer'[v].tx \in {NoTx, writer[v].tx}
    BY <1>0, <2>1 DEF Idle
  <2> QED BY <1>0, <2>1, <2>2, <2>3 DEF Uncancelled
<1>7. CASE OutcomeParked
  BY <1>0, <1>7 DEF OutcomeParked, Idle, Uncancelled
<1>8. CASE ReconcilePass \/ Close
  <2>1. /\ UNCHANGED <<database, cached, parked>>
        /\ \A v \in Writers : writer'[v].tx \in {parked, writer[v].tx}
    BY <1>0, <1>8 DEF ReconcilePass, Close, Plan
  <2> QED BY <1>0, <2>1 DEF Uncancelled
<1>9. ASSUME ReconcilerEnds \/ TasksCancelled \/ \E w \in Confirmers : ReconcileUnavailable(w)
      PROVE  Uncancelled' /\ UNCHANGED durable
  <2>1. \A v \in Writers : writer'[v].tx \in {NoTx, writer[v].tx}
    BY <1>0, <1>9 DEF ReconcilerEnds, TasksCancelled, ReconcileUnavailable, Idle
  <2>2. UNCHANGED <<database, cached, parked>>
    BY <1>9 DEF ReconcilerEnds, TasksCancelled, ReconcileUnavailable
  <2> QED BY <2>1, <2>2 DEF Uncancelled
<1>10. CASE Crash
  BY <1>10 DEF Crash, Idle, Uncancelled
<1>11. CASE Restore
  BY <1>11 DEF Restore, Uncancelled
<1>12. CASE UNCHANGED vars
  BY <1>12 DEF vars, Uncancelled
<1>13. ASSUME NEW c \in Cancellers, CancelStep(c) PROVE Uncancelled' /\ UNCHANGED durable
  <2>1. "run.cancellation_requested" \notin log'
    OBVIOUS
  <2>2. CASE RequestCancel(c) \/ KeepsRow(c) \/ (CancelFails(c) /\ UNCHANGED database)
    BY <2>2 DEF RequestCancel, KeepsRow, CancelFails, Uncancelled
  <2>3. CASE CancelAccepted(c)
    BY <1>0, <2>1, <2>3 DEF CancelAccepted, Evidence, CancelsLogged
  <2>4. CASE CancelCommits(c) \/ (CancelFails(c) /\ CancelLand(c))
    BY <2>1, <2>4 DEF CancelCommits, CancelFails, CancelLand
  <2> QED BY <1>13, <2>2, <2>3, <2>4 DEF CancelStep, CancelFails
<1>14. \/ EnterAttempt \/ AttemptStarted \/ PlanSucceeds \/ PlanFails
       \/ RecordAttemptFailure \/ OutcomeParked \/ ReconcilePass \/ Close
       \/ Crash \/ Restore \/ UNCHANGED vars
       => UNCHANGED durable
  BY DEF EnterAttempt, AttemptStarted, PlanSucceeds, PlanFails, RecordAttemptFailure,
         OutcomeParked, ReconcilePass, Close, Crash, Restore, vars
<1> QED
  BY <1>1, <1>2, <1>3, <1>4, <1>5, <1>6, <1>7, <1>8, <1>9, <1>10, <1>11, <1>12, <1>13, <1>14
  DEF Next, WorkflowStep, ReconcilerStep

(* The rows are overwritten unconditionally, so only who writes them makes a
   terminal row final. *)
MovesByTable ==
    \/ durable'.run = durable.run
    \/ <<durable.run, durable'.run>> \in RunTransitions
    \/ "run.cancellation_requested" \in log'

RowMovesByTable == [][MovesByTable]_vars

UntilCancelled == "run.cancellation_requested" \in log \/ Uncancelled

LEMMA UntilInit == Init => UntilCancelled
BY RecordFacts, TxFacts DEF Init, UntilCancelled, Uncancelled, Idle, Writers

LEMMA UntilStep ==
    IInv /\ UntilCancelled /\ [Next]_vars => UntilCancelled' /\ MovesByTable
<1> SUFFICES ASSUME IInv, UntilCancelled, [Next]_vars PROVE UntilCancelled' /\ MovesByTable
  OBVIOUS
<1>1. CASE "run.cancellation_requested" \in log'
  BY <1>1 DEF UntilCancelled, MovesByTable
<1>2. CASE "run.cancellation_requested" \notin log'
  <2>1. Uncancelled
    BY <1>2, LogGrows DEF UntilCancelled, IInv
  <2>2. Uncancelled' /\ (UNCHANGED durable \/ \E w \in Writers : CommitStep(w))
    BY <1>2, <2>1, UncancelledStep
  <2>3. MovesByTable
    BY <2>1, <2>2, CommitFollows DEF MovesByTable
  <2> QED BY <2>2, <2>3 DEF UntilCancelled
<1> QED BY <1>1, <1>2

(* While no cancellation is recorded, requested or not, no step of the
   workflow, the reconciler, close() or a restart moves the run against the
   transition table: a terminal row changes in a race with a cancellation or
   not at all. *)
THEOREM RowFollowsTable == Spec => RowMovesByTable
<1>1. IInv /\ UntilCancelled /\ [Next]_vars => [MovesByTable]_vars
  BY UntilStep
<1> QED BY <1>1, UntilInit, UntilStep, Invariance, PTL DEF Spec, RowMovesByTable

(* A step writes to the database or to what callers read, never to both. *)
LEMMA WritesOrTells == TypeOK /\ [Next]_vars => UNCHANGED database \/ UNCHANGED status
<1> SUFFICES ASSUME TypeOK, [Next]_vars PROVE UNCHANGED database \/ UNCHANGED status
  OBVIOUS
<1> USE DEF database, memory
<1>1. ASSUME NEW w \in Writers, CommitStep(w) PROVE UNCHANGED status
  BY <1>1, CommitEffect
<1>2. CASE WorkflowStep
  BY <1>2 DEF WorkflowStep, EnterAttempt, AttemptStarted, PlanSucceeds, PlanFails,
              RecordAttemptFailure, OutcomeRecorded, OutcomeParked
<1>3. CASE ReconcilerStep
  BY <1>3 DEF ReconcilerStep, ReconcilePass, ReconcilerEnds, Reconciled,
              ReconcileUnavailable
<1>4. ASSUME NEW c \in Cancellers, CancelStep(c)
      PROVE  UNCHANGED database \/ UNCHANGED status
  BY <1>4 DEF CancelStep, RequestCancel, KeepsRow, CancelCommits, CancelFails,
              CancelAccepted
<1>5. CASE Restore \/ Close \/ TasksCancelled \/ Crash \/ UNCHANGED vars
  BY <1>5 DEF Restore, Close, TasksCancelled, Crash, vars
<1> QED BY <1>1, <1>2, <1>3, <1>4, <1>5 DEF Next

(* What is published is the outcome the log records, and there is one. *)
TellsTheRecord ==
    /\ Published = "none" \/ Published = Recorded
    /\ ~("run.succeeded" \in log /\ "run.failed" \in log)

LEMMA RecordIsTold == IInv => TellsTheRecord
<1> SUFFICES ASSUME IInv PROVE TellsTheRecord
  OBVIOUS
<1>1. ~("run.succeeded" \in log /\ "run.failed" \in log) /\ PublishedIsRecorded
  BY DEF IInv, Exclusive
<1>2. CASE status = "completed"
  BY <1>1, <1>2 DEF PublishedIsRecorded, Published, Recorded, TellsTheRecord
<1>3. CASE status = "failed"
  BY <1>1, <1>3 DEF PublishedIsRecorded, Published, Recorded, TellsTheRecord
<1>4. CASE status \notin {"completed", "failed"}
  BY <1>1, <1>4 DEF Published, TellsTheRecord
<1> QED BY <1>2, <1>3, <1>4

Asked == "run.cancellation_requested" \in log

(* A transaction records at most the outcome that was missing, and leaves a
   row that reads no other; until a cancellation is recorded it reads that one. *)
LEMMA WriteStep ==
    ASSUME IInv, IInv', TellsTheRecord', UntilCancelled', MovesByTable, [Next]_vars
    PROVE  /\ durable'.run \in Promise!RunStatus
           /\ Recorded' = Recorded \/ (Recorded = "none" /\ Recorded' \in Promise!Outcomes)
           /\ Asked' \in {Asked, TRUE}
           /\ durable'.run \in Promise!Outcomes => durable'.run = Recorded'
           /\ Asked' \/ /\ \/ durable'.run = durable.run
                           \/ <<durable.run, durable'.run>> \in Promise!RunTransitions
                        /\ Recorded' # "none" => durable'.run = Recorded'
<1>1. durable'.run \in Promise!RunStatus
  BY DEF IInv, TypeOK, Contracts, RunStatus, Promise!RunStatus
<1>2. log \subseteq log' /\ ~("run.succeeded" \in log' /\ "run.failed" \in log')
  BY LogGrows DEF IInv, TellsTheRecord
<1>6. Asked' \in {Asked, TRUE}
  <2>1. Asked => Asked'
    BY <1>2 DEF Asked
  <2>2. Asked' \in BOOLEAN /\ Asked \in BOOLEAN
    BY DEF Asked
  <2> QED BY <2>1, <2>2
<1>3. Recorded' = Recorded \/ (Recorded = "none" /\ Recorded' \in Promise!Outcomes)
  BY <1>2 DEF Recorded, Promise!Outcomes
<1>4. durable'.run \in Promise!Outcomes => durable'.run = Recorded'
  BY <1>2 DEF IInv, Evidence, Logged, Recorded, Promise!Outcomes
<1>5. CASE ~Asked'
  <2>1. Uncancelled'
    BY <1>5 DEF UntilCancelled, Asked
  <2>2. Recorded' # "none" => durable'.run = Recorded'
    BY <2>1, RecordFacts DEF Uncancelled, Recorded
  <2>3. \/ durable'.run = durable.run
        \/ <<durable.run, durable'.run>> \in Promise!RunTransitions
    BY <1>5 DEF MovesByTable, Asked, RunTransitions, Promise!RunTransitions
  <2> QED BY <1>1, <1>3, <1>4, <1>6, <2>2, <2>3
<1> QED BY <1>1, <1>3, <1>4, <1>5, <1>6

(* One outcome is recorded and told, and until a cancellation is recorded the
   run's row follows the table and holds that outcome, whatever is requested,
   fails, is shut down or dies: the service implements RunPromise. *)
THEOREM PromiseKept == Spec => KeepsPromise
<1>1. Init => Promise!Init
  BY RecordFacts DEF Init, Promise!Init, Published, Recorded
<1>2. IInv /\ IInv' /\ TellsTheRecord /\ TellsTheRecord'
            /\ UntilCancelled' /\ MovesByTable /\ [Next]_vars
        => [Promise!Next]_<<durable.run, Recorded, Asked, Published>>
  <2> SUFFICES ASSUME IInv, IInv', TellsTheRecord, TellsTheRecord',
                      UntilCancelled', MovesByTable, [Next]_vars
               PROVE  [Promise!Next]_<<durable.run, Recorded, Asked, Published>>
    OBVIOUS
  <2>1. CASE UNCHANGED database
    <3>1. UNCHANGED <<durable.run, Recorded, Asked>>
      BY <2>1 DEF database, Recorded, Asked
    <3> QED BY <3>1 DEF TellsTheRecord, Promise!Next, Promise!Publish, Promise!Forget, Asked
  <2>2. CASE UNCHANGED status
    <3>1. UNCHANGED Published
      BY <2>2 DEF Published
    <3>2. Promise!Write
      BY <3>1, WriteStep, Zenon DEF Promise!Write, Asked
    <3> QED BY <3>2 DEF Promise!Next
  <2> QED BY <2>1, <2>2, WritesOrTells DEF IInv
<1>3. IInv /\ UntilCancelled /\ [Next]_vars => UntilCancelled' /\ MovesByTable
  BY UntilStep
<1> QED BY <1>1, <1>2, <1>3, RecordIsTold, UntilInit, Invariance, PTL
        DEF Spec, KeepsPromise, Promise!Spec, Asked
==============================================================================

--------------------------- MODULE LifecycleStates ---------------------------
(***************************************************************************)
(* The immutable lifecycle contracts of a run, its task and its attempt    *)
(* (src/core/contracts/states.py, lifecycle.py, task_lifecycle.py): the    *)
(* three transition tables and the two operations every writer plans with, *)
(* transition_to and request_cancellation.                                 *)
(*                                                                         *)
(* The execution service always advances the three contracts of one run    *)
(* together, so the unit here is a Contracts record of three statuses.     *)
(* Timestamps, reasons and provenance fields are data no guard below       *)
(* depends on; they are left out.                                          *)
(***************************************************************************)

RunStatus == {"CREATED", "QUEUED", "RUNNING", "CANCELLING",
              "SUCCEEDED", "FAILED", "CANCELLED"}

TaskStatus == {"PENDING", "READY", "RUNNING", "CANCELLING",
               "SUCCEEDED", "FAILED", "CANCELLED", "SKIPPED"}

AttemptStatus == {"CREATED", "RUNNING", "CANCELLING",
                  "SUCCEEDED", "FAILED", "CANCELLED", "TIMED_OUT"}

TerminalRun == {"SUCCEEDED", "FAILED", "CANCELLED"}
TerminalTask == {"SUCCEEDED", "FAILED", "CANCELLED", "SKIPPED"}
TerminalAttempt == {"SUCCEEDED", "FAILED", "CANCELLED", "TIMED_OUT"}

(* The pairs <<current, target>> the code's tables list. *)
RunTransitions ==
    ({"CREATED"} \X {"QUEUED", "FAILED", "CANCELLED"})
    \cup ({"QUEUED"} \X {"RUNNING", "FAILED", "CANCELLED"})
    \cup ({"RUNNING"} \X {"SUCCEEDED", "FAILED", "CANCELLING"})
    \cup ({"CANCELLING"} \X {"CANCELLED", "FAILED"})

TaskTransitions ==
    ({"PENDING"} \X {"READY", "FAILED", "CANCELLED", "SKIPPED"})
    \cup ({"READY"} \X {"RUNNING", "FAILED", "CANCELLED", "SKIPPED"})
    \cup ({"RUNNING"} \X {"SUCCEEDED", "FAILED", "CANCELLING"})
    \cup ({"CANCELLING"} \X {"CANCELLED", "FAILED"})

AttemptTransitions ==
    ({"CREATED"} \X {"RUNNING", "FAILED", "CANCELLED"})
    \cup ({"RUNNING"} \X {"SUCCEEDED", "FAILED", "CANCELLING", "TIMED_OUT"})
    \cup ({"CANCELLING"} \X {"CANCELLED", "FAILED"})

Contracts == [run : RunStatus, task : TaskStatus, attempt : AttemptStatus]

(* The resting point of admission, before the workflow starts. *)
Admitted == [run |-> "QUEUED", task |-> "READY", attempt |-> "CREATED"]

(* The three targets the service plans. *)
Running == [run |-> "RUNNING", task |-> "RUNNING", attempt |-> "RUNNING"]
Succeeded == [run |-> "SUCCEEDED", task |-> "SUCCEEDED", attempt |-> "SUCCEEDED"]
Failed == [run |-> "FAILED", task |-> "FAILED", attempt |-> "FAILED"]

(* Slip: anything may follow a record that is not terminal. *)
CanLeave(current, target) == current.run \notin TerminalRun

(* transition_to succeeds on all three contracts, or the plan is refused.
   A terminal status has no successor in any table. *)
CanTransition(current, target) ==
    /\ <<current.run, target.run>> \in RunTransitions
    /\ <<current.task, target.task>> \in TaskTransitions
    /\ <<current.attempt, target.attempt>> \in AttemptTransitions

(* request_cancellation: asking again is idempotent, a running record starts
   cancelling, one that never started is cancelled outright. *)
CancellationOf(current) ==
    IF current \in {"CANCELLING", "CANCELLED"} THEN current
    ELSE IF current = "RUNNING" THEN "CANCELLING" ELSE "CANCELLED"

Cancellation(current) ==
    [run |-> CancellationOf(current.run),
     task |-> CancellationOf(current.task),
     attempt |-> CancellationOf(current.attempt)]

(* It raises only for the terminal statuses other than CANCELLED. *)
CanCancel(current) ==
    /\ current.run \notin TerminalRun \ {"CANCELLED"}
    /\ current.task \notin TerminalTask \ {"CANCELLED"}
    /\ current.attempt \notin TerminalAttempt \ {"CANCELLED"}
==============================================================================

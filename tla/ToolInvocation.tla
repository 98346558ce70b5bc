--------------------------- MODULE ToolInvocation ----------------------------
(***************************************************************************)
(* One idempotency key of the tool boundary: every call of                 *)
(* ToolBoundary.invoke (src/core/tools/boundary.py) that carries the same  *)
(* request, in whatever process, over the shared durable audit store       *)
(* (SessionToolAuditStore, src/agents/tools/durable_audit.py).             *)
(*                                                                         *)
(* The first call to write the requested row owns the work and a lease on  *)
(* it, which a heartbeat renews. Every other call is answered from the     *)
(* row, or finds the lease expired and settles it as unknown. A call may   *)
(* be slow at every await, lose its answer from the database, be cancelled *)
(* or die. A denied call never consults or occupies the key and is left    *)
(* out; so is the request comparison, which equal requests pass.           *)
(***************************************************************************)
EXTENDS Integers, FiniteSets

CONSTANTS
    Calls,          \* the invocations of this key
    Lease,          \* lease_duration, in ticks
    MaxTime,        \* bound: ticks of the clock
    MaxFaults       \* bound: database calls that fail, and deaths of a caller

ASSUME InvocationAssumption ==
    /\ Lease \in Nat \ {0} /\ {MaxTime, MaxFaults} \subseteq Nat

VARIABLES
    row,            \* the agent_tool_invocations row that occupies the key
    completions,    \* its EVENT_COMPLETED events
    call,           \* each invocation
    clock, faults

vars == <<row, completions, call, clock, faults>>

(* What a handler may end with, and what a row may say of it. A refused call
   (invalid input, open circuit) never ran; unknown is
   unknown_after_lease_expired. *)
Results == {"succeeded", "failed", "timed_out", "cancelled"}
Terminal == Results \cup {"refused", "unknown"}

NoOne == "no one"
NoRow == [owner |-> NoOne, outcome |-> "absent", lease |-> 0]
NewCall == [pc |-> "idle", at |-> 0, result |-> "none", answer |-> "none",
            ran |-> FALSE, heart |-> "still", beat |-> -1]

Init ==
    /\ row = NoRow /\ completions = 0
    /\ call = [c \in Calls |-> NewCall]
    /\ clock = 0 /\ faults = 0

At(c, pc) == call[c].pc = pc
Go(c, pc) == call' = [call EXCEPT ![c].pc = pc]
Answer(c, what) == call' = [call EXCEPT ![c].pc = "done", ![c].answer = what]
Settling(c, result) ==
    call' = [call EXCEPT ![c].pc = "settling", ![c].result = result]

Pending == row.outcome = "requested"
LiveAt(time) == Pending /\ row.lease > time

SettleRow(outcome) ==
    /\ row' = [row EXCEPT !.outcome = outcome, !.lease = 0]
    /\ completions' = completions + 1

(* A row that is there decides the answer: its outcome, or IN_PROGRESS. *)
Replayed == IF Pending THEN "in_progress" ELSE row.outcome
Unwritten == UNCHANGED <<row, completions>>

-----------------------------------------------------------------------------
(* reconcile_pending_invocation; `now` was read when the call began. *)

Begin(c) ==
    /\ At(c, "idle")
    /\ call' = [call EXCEPT ![c].pc = "looking", ![c].at = clock]
    /\ UNCHANGED <<row, completions, clock, faults>>

(* The transaction, and what it tells the call; "clear" is a key still free. *)
Search(c, told) ==
    \/ row = NoRow /\ told = "clear" /\ Unwritten
    \/ /\ row.outcome \in Terminal \/ LiveAt(call[c].at)
       /\ told = Replayed /\ Unwritten
    \/ /\ Pending /\ ~LiveAt(call[c].at)
       /\ told = "unknown" /\ SettleRow("unknown")

LookUp(c) ==
    /\ At(c, "looking")
    /\ \/ Search(c, "clear") /\ Go(c, "clear")
       \/ \E told \in Terminal \cup {"in_progress"} : Search(c, told) /\ Answer(c, told)
    /\ UNCHANGED <<clock, faults>>

(* Input that cannot be used, or an open breaker. *)
Refuse(c) ==
    /\ At(c, "clear")
    /\ Settling(c, "refused")
    /\ UNCHANGED <<row, completions, clock, faults>>

(* persist of the requested row. Another call's row violates the partial
   unique index and answers instead, whatever its lease says. *)
Reserve(c) ==
    /\ row = NoRow
    /\ row' = [owner |-> c, outcome |-> "requested", lease |-> call[c].at + Lease]
    /\ UNCHANGED completions

Request(c) ==
    /\ At(c, "clear")
    /\ \/ /\ Reserve(c)
          /\ call' = [call EXCEPT ![c].pc = "admitted", ![c].heart = "beating"]
       \/ row # NoRow /\ Answer(c, Replayed) /\ Unwritten
    /\ UNCHANGED <<clock, faults>>

(* Cancelled while the requested row is being written: the write is awaited,
   whatever comes of it is ignored, and the call is settled as cancelled. *)
CancelledRequesting(c) ==
    /\ At(c, "clear")
    /\ \/ /\ Reserve(c) /\ UNCHANGED faults
          /\ call' = [call EXCEPT ![c].pc = "settling", ![c].result = "cancelled",
                                  ![c].heart = "beating"]
       \/ row # NoRow /\ Settling(c, "cancelled") /\ Unwritten /\ UNCHANGED faults
       \/ /\ faults < MaxFaults /\ faults' = faults + 1
          /\ Settling(c, "cancelled")
          /\ Reserve(c) \/ Unwritten
    /\ UNCHANGED clock

(* The requested event cannot be published, or the call is cancelled before
   its handler is started. *)
LeaveAdmission(c) ==
    /\ At(c, "admitted")
    /\ Settling(c, "failed") \/ Settling(c, "cancelled")
    /\ UNCHANGED <<row, completions, clock, faults>>

-----------------------------------------------------------------------------
(* _run_tool and _call_handler: the handler is raced against its deadline, the
   caller's cancellation and the loss of the lease. *)

Dispatch(c) ==
    /\ At(c, "admitted") /\ call[c].heart # "lost"
    /\ call' = [call EXCEPT ![c].pc = "running", ![c].ran = TRUE]
    /\ UNCHANGED <<row, completions, clock, faults>>

(* A lost lease fails the call, whether or not its handler was started. *)
HandlerEnds(c) ==
    /\ \/ /\ At(c, "running") /\ call[c].heart # "lost"
          /\ \E result \in Results : Settling(c, result)
       \/ /\ call[c].pc \in {"admitted", "running"} /\ call[c].heart = "lost"
          /\ Settling(c, "failed") \/ Settling(c, "cancelled")
    /\ UNCHANGED <<row, completions, clock, faults>>

(* _lease_heartbeat, from admission until the call is settled: the clock is
   read, and the update that compares it lands later. *)
Beating(c) == call[c].heart = "beating" /\ ~At(c, "done")

Beat(c) ==
    /\ Beating(c) /\ call[c].beat = -1
    /\ call' = [call EXCEPT ![c].beat = clock]
    /\ UNCHANGED <<row, completions, clock, faults>>

Renew(c) ==
    /\ Beating(c) /\ call[c].beat # -1
    /\ IF LiveAt(call[c].beat)
       THEN /\ row' = [row EXCEPT !.lease = call[c].beat + Lease]
            /\ call' = [call EXCEPT ![c].beat = -1]
       ELSE /\ call' = [call EXCEPT ![c].beat = -1, ![c].heart = "lost"]
            /\ UNCHANGED row
    /\ UNCHANGED <<completions, clock, faults>>

(* The answer to the update is lost; the update may have landed. *)
RenewFails(c) ==
    /\ Beating(c) /\ call[c].beat # -1
    /\ faults < MaxFaults /\ faults' = faults + 1
    /\ call' = [call EXCEPT ![c].beat = -1, ![c].heart = "lost"]
    /\ \/ UNCHANGED row
       \/ LiveAt(call[c].beat) /\ row' = [row EXCEPT !.lease = call[c].beat + Lease]
    /\ UNCHANGED <<completions, clock>>

-----------------------------------------------------------------------------
(* _terminate: persist of the terminal row under the row lock, with the clock
   read inside the transaction. *)

(* Slips: the worker's own result is the answer, whatever the row says; any
   call settles the pending row; a settled row is settled again. *)
ConcludeTrustingWorker(c, told) ==
    /\ told = call[c].result
    /\ IF row = NoRow
       THEN /\ row' = [owner |-> c, outcome |-> told, lease |-> 0]
            /\ completions' = completions + 1
       ELSE IF row.owner = c /\ Pending THEN SettleRow(told) ELSE Unwritten

ConcludeForOthers(c, told) ==
    /\ row # NoRow
    /\ \/ Pending /\ told = call[c].result /\ SettleRow(told)
       \/ ~Pending /\ told = Replayed /\ Unwritten

ConcludeTwice(c, told) ==
    /\ row.owner = c
    /\ told = call[c].result /\ SettleRow(told)

Conclude(c, told) ==
    \/ /\ row = NoRow /\ told = call[c].result
       /\ row' = [owner |-> c, outcome |-> told, lease |-> 0]
       /\ completions' = completions + 1
    \/ /\ row.owner = c /\ LiveAt(clock)
       /\ told = call[c].result /\ SettleRow(told)
    \/ /\ row.owner = c /\ Pending /\ ~LiveAt(clock)
       /\ told = "unknown" /\ SettleRow("unknown")
    \/ /\ row # NoRow /\ ~(row.owner = c /\ Pending)
       /\ told = Replayed /\ Unwritten

Settle(c) ==
    /\ At(c, "settling")
    /\ \E told \in Terminal \cup {"in_progress"} : Conclude(c, told) /\ Answer(c, told)
    /\ UNCHANGED <<clock, faults>>

(* A database call raises, and so does the invocation. The transaction it was
   to answer may have been committed. *)
Raises(c) ==
    /\ call[c].pc \in {"looking", "clear", "settling"}
    /\ faults < MaxFaults /\ faults' = faults + 1
    /\ Answer(c, "raised")
    /\ \/ Unwritten
       \/ At(c, "looking") /\ Search(c, "unknown")
       \/ At(c, "clear") /\ Reserve(c)
       \/ At(c, "settling") /\ \E told \in Terminal : Conclude(c, told)
    /\ UNCHANGED clock

(* The process of the caller dies. *)
Dies(c) ==
    /\ ~At(c, "idle") /\ ~At(c, "done")
    /\ faults < MaxFaults /\ faults' = faults + 1
    /\ Answer(c, "raised")
    /\ UNCHANGED <<row, completions, clock>>

Tick ==
    /\ clock < MaxTime /\ clock' = clock + 1
    /\ UNCHANGED <<row, completions, call, faults>>

Proceed(c) ==
    LookUp(c) \/ Refuse(c) \/ Request(c) \/ CancelledRequesting(c)
    \/ LeaveAdmission(c) \/ Dispatch(c) \/ HandlerEnds(c) \/ Settle(c)

Next ==
    \/ \E c \in Calls : \/ Begin(c) \/ Proceed(c) \/ Raises(c) \/ Dies(c)
                        \/ Beat(c) \/ Renew(c) \/ RenewFails(c)
    \/ Tick

Spec == Init /\ [][Next]_vars

-----------------------------------------------------------------------------
(* Every variable holds values the code could store in it. *)
TypeOK ==
    /\ row \in [owner : Calls \cup {NoOne}, lease : 0..(MaxTime + Lease),
                outcome : {"absent", "requested"} \cup Terminal]
    /\ completions \in Nat
    /\ call \in [Calls -> [
            pc : {"idle", "looking", "clear", "admitted", "running", "settling", "done"},
            at : 0..MaxTime, ran : BOOLEAN, beat : -1..MaxTime,
            heart : {"still", "beating", "lost"},
            result : Results \cup {"none", "refused"},
            answer : Terminal \cup {"none", "in_progress", "raised"}]]
    /\ clock \in 0..MaxTime /\ faults \in 0..MaxFaults

(* A key reserves one unit of work: however calls race, repeat, lose their
   answers or outlive their lease, the tool runs for at most one of them. *)
RunsOnce == \A c, d \in Calls : call[c].ran /\ call[d].ran => c = d

(* "The durable row is authoritative; never return the late worker's output":
   every conclusive answer, to any call, is the one the row holds for good, so
   two calls are never told different things. *)
AnswersAreRecorded ==
    \A c \in Calls : call[c].answer \in Terminal => row.outcome = call[c].answer

(* A row reports what a tool did only if it did run, and says that nothing ran
   only if nothing did. *)
RowIsTruthful ==
    /\ row.outcome \in {"succeeded", "timed_out"} => call[row.owner].ran
    /\ row.outcome = "refused" => \A c \in Calls : ~call[c].ran

(* The log tells of a completion exactly once, when the row has one. *)
OneCompletion == completions = IF row.outcome \in Terminal THEN 1 ELSE 0

(* What the row says never changes once it is conclusive: neither a late
   worker nor a heartbeat reopens it. *)
OutcomeIsFinal == [][row.outcome \in Terminal => UNCHANGED row]_vars

(* What one key promises its callers, stated by IdempotentCall: races, lost
   answers, deaths and expired leases are steps of it or no step at all. *)
Key == INSTANCE IdempotentCall WITH
    Callers <- Calls, NoOne <- NoOne, Outcomes <- Terminal,
    NeedsWork <- {"succeeded", "timed_out"},
    holder <- row.owner, outcome <- row.outcome,
    worked <- {c \in Calls : call[c].ran},
    told <- [c \in Calls |-> call[c].answer]
IsIdempotent == Key!Spec
==============================================================================

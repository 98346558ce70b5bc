------------------------------ MODULE RunStream ------------------------------
(***************************************************************************)
(* The event log of one run and the clients that tail it: writers append   *)
(* events under the run's row lock                                         *)
(* (src/repositories/run_event_repository.py), RunEventStreamReader        *)
(* (src/api/websocket/run_stream.py) pages through the log and stops once  *)
(* the run has ended, and a client whose connection breaks comes back with *)
(* the cursor of a frame it received. A wake-up from the hub only ever     *)
(* shortens a wait, and may get lost between a read and the next wait.     *)
(***************************************************************************)
EXTENDS Naturals, FiniteSets

CONSTANTS
    Writers,        \* transactions that append to the run's log, one at a time each
    Readers,        \* clients, each with one connection at a time
    Limit,          \* batch_limit
    Burst,          \* bound: events committed between two reads of a client
                    \* that has caught up; nothing in the code keeps it to Limit
    MaxEvents       \* bound: events the run ever has

ASSUME StreamAssumption ==
    {Limit, Burst} \subseteq Nat \ {0} /\ MaxEvents \in Nat

VARIABLES
    last,       \* agent_runs.last_event_sequence
    events,     \* sequence numbers of the committed events
    status,     \* whether agent_runs.status is a terminal one
    endedAt,    \* the event that came with the last terminal status (observed only)
    txn,        \* each writer's open transaction
    reader      \* each client and the generator that serves it

vars == <<last, events, status, endedAt, txn, reader>>

Kinds == {"progress", "terminal", "cancelling"}
NoTxn == [sequence |-> 0, kind |-> "progress"]

(* position and page belong to the generator, seen to the client; goal is the
   terminal event the generator's check told it of (observed only). *)
Away == [pc |-> "away", position |-> 0, page |-> {}, woken |-> FALSE,
         seen |-> {}, goal |-> 0]

Init ==
    /\ last = 0 /\ events = {} /\ status = "live" /\ endedAt = 0
    /\ txn = [w \in Writers |-> NoTxn]
    /\ reader = [r \in Readers |-> Away]

At(r, pc) == reader[r].pc = pc
After(position) == {e \in events : e > position}

-----------------------------------------------------------------------------
(* append_event in a transaction of its own or with a change of status: a
   terminal status and its event share a commit, and a cancellation planned
   before the run ended may make it CANCELLING again. *)

Open(w, kind) ==
    /\ txn[w] = NoTxn /\ last < MaxEvents
    /\ last' = last + 1
    /\ txn' = [txn EXCEPT ![w] = [sequence |-> last + 1, kind |-> kind]]
    /\ UNCHANGED <<events, status, endedAt, reader>>

(* Slip: the next sequence is read without holding the run's row. *)
AllocateUnlocked(w, kind) == Open(w, kind)

(* _allocate_sequence: the row is locked from here to the end of the
   transaction. *)
Allocate(w, kind) ==
    /\ \A v \in Writers : txn[v] = NoTxn
    /\ Open(w, kind)

CaughtUp(r) == reader[r].pc \in {"checking", "final"}

Commit(w) ==
    /\ txn[w] # NoTxn
    /\ \A r \in Readers :
            CaughtUp(r) => Cardinality(After(reader[r].position)) < Burst
    /\ events' = events \cup {txn[w].sequence}
    /\ \/ /\ txn[w].kind = "progress" /\ UNCHANGED <<status, endedAt>>
       \/ /\ txn[w].kind = "terminal"
          /\ status' = "ended" /\ endedAt' = txn[w].sequence
       \/ /\ txn[w].kind = "cancelling"
          /\ status' = "live" /\ UNCHANGED endedAt
    /\ txn' = [txn EXCEPT ![w] = NoTxn]
    /\ UNCHANGED <<last, reader>>

Rollback(w) ==
    /\ txn[w] # NoTxn
    /\ last' = txn[w].sequence - 1
    /\ txn' = [txn EXCEPT ![w] = NoTxn]
    /\ UNCHANGED <<events, status, endedAt, reader>>

-----------------------------------------------------------------------------
(* RunEventStreamReader.stream *)

log == <<last, events, status, endedAt, txn>>

(* A client connects with no cursor, or with one it was given before. *)
Connect(r, cursor) ==
    /\ At(r, "away") /\ cursor \in reader[r].seen \cup {0}
    /\ reader' = [reader EXCEPT ![r] =
            [@ EXCEPT !.pc = "reading", !.position = cursor, !.woken = FALSE]]
    /\ UNCHANGED log

(* read_batch: the page, and the position after it. *)
FirstOf(position) ==
    {e \in After(position) : Cardinality({f \in After(position) : f <= e}) <= Limit}

(* Slips: the page is not ordered by sequence; the position skips to the end
   of the log instead of the end of the page. *)
Latest(position) ==
    {e \in After(position) : Cardinality({f \in After(position) : f >= e}) <= Limit}

Page(position) == FirstOf(position)

Beyond(position, page) ==
    CHOOSE p \in page \cup {position} : \A e \in page \cup {position} : e <= p

ReadBatch(r, found, nothing) ==
    LET page == Page(reader[r].position) IN
    reader' = [reader EXCEPT ![r] = [@ EXCEPT
        !.page = page, !.position = Beyond(reader[r].position, page),
        !.pc = IF page = {} THEN nothing
               ELSE IF found = "tailing" /\ Cardinality(page) >= Limit
               THEN "draining" ELSE found]]

Read(r) ==
    /\ At(r, "reading")
    /\ ReadBatch(r, "tailing", "checking")
    /\ UNCHANGED log

(* Where the generator goes when it has yielded the last frame of a page:
   waiter.clear() comes before a wait. *)
AfterPage(pc) == CASE pc = "draining" -> "reading"
               [] pc = "tailing" -> "waiting"
               [] pc = "finishing" -> "stopped"

Deliver(r) ==
    /\ reader[r].pc \in {"draining", "tailing", "finishing"}
    /\ \E e \in reader[r].page :
        LET final == reader[r].page = {e} IN
        /\ \A f \in reader[r].page : e <= f
        /\ reader' = [reader EXCEPT ![r] = [@ EXCEPT
                !.seen = reader[r].seen \cup {e}, !.page = reader[r].page \ {e},
                !.pc = IF final THEN AfterPage(reader[r].pc) ELSE reader[r].pc,
                !.woken = ~final /\ reader[r].woken]]
    /\ UNCHANGED log

(* Slips: a run seen terminal ends the stream there and then; the stored status
   is compared with the members of the enumeration and never equals one. *)
StopsAtOnce(r) ==
    /\ At(r, "checking")
    /\ reader' = [reader EXCEPT ![r] =
            IF status = "ended" THEN [@ EXCEPT !.pc = "stopped", !.goal = endedAt]
            ELSE [@ EXCEPT !.pc = "waiting", !.woken = FALSE]]
    /\ UNCHANGED log

ChecksInVain(r) ==
    /\ At(r, "checking")
    /\ reader' = [reader EXCEPT ![r] = [@ EXCEPT !.pc = "waiting", !.woken = FALSE]]
    /\ UNCHANGED log

(* is_run_terminal *)
Check(r) ==
    /\ At(r, "checking")
    /\ reader' = [reader EXCEPT ![r] =
            IF status = "ended" THEN [@ EXCEPT !.pc = "final", !.goal = endedAt]
            ELSE [@ EXCEPT !.pc = "waiting", !.woken = FALSE]]
    /\ UNCHANGED log

(* Slip: the page of the last read is not delivered. *)
FinalReadUnsent(r) ==
    /\ At(r, "final")
    /\ ReadBatch(r, "stopped", "stopped")
    /\ UNCHANGED log

(* if is_terminal: one more page, read after the status, and no loop. *)
FinalRead(r) ==
    /\ At(r, "final")
    /\ ReadBatch(r, "finishing", "stopped")
    /\ UNCHANGED log

(* RunStreamHub.notify, once the relay has delivered something; only the
   generators of the relay's own process hear of it. *)
Notify ==
    /\ events # {}
    /\ \E woken \in SUBSET {r \in Readers : ~reader[r].woken} :
        /\ woken # {}
        /\ reader' = [r \in Readers |->
                [reader[r] EXCEPT !.woken = @ \/ (r \in woken /\ ~At(r, "away"))]]
    /\ UNCHANGED log

(* Slip: no timeout. *)
WakesOnlyWhenTold(r) ==
    /\ At(r, "waiting") /\ reader[r].woken
    /\ reader' = [reader EXCEPT ![r].pc = "reading"]
    /\ UNCHANGED log

(* The hub, or the poll interval. *)
Wakes(r) ==
    /\ At(r, "waiting")
    /\ reader' = [reader EXCEPT ![r].pc = "reading"]
    /\ UNCHANGED log

(* The connection breaks, or a read raises; what was yielded and not received
   is lost with the generator. *)
Disconnect(r) ==
    /\ ~At(r, "away") /\ ~At(r, "stopped")
    /\ reader' = [reader EXCEPT ![r] =
            [@ EXCEPT !.pc = "away", !.page = {}, !.position = 0, !.woken = FALSE,
                      !.goal = 0]]
    /\ UNCHANGED log

Serves(r) == Read(r) \/ Deliver(r) \/ Check(r) \/ FinalRead(r) \/ Wakes(r)

Next ==
    \/ \E w \in Writers : \/ \E kind \in Kinds : Allocate(w, kind)
                          \/ Commit(w) \/ Rollback(w)
    \/ \E r \in Readers :
        \/ \E cursor \in 0..MaxEvents : Connect(r, cursor)
        \/ Serves(r) \/ Disconnect(r)
    \/ Notify

Spec == Init /\ [][Next]_vars

(* A transaction ends one way or the other, and a generator that is connected
   is scheduled; nothing makes a client connect, or a notification arrive. *)
FairSpec ==
    /\ Spec
    /\ \A w \in Writers : WF_vars(Commit(w) \/ Rollback(w))
    /\ \A r \in Readers : WF_vars(Serves(r))

-----------------------------------------------------------------------------
(* Every variable holds values the code could store in it. *)
TypeOK ==
    /\ last \in 0..MaxEvents /\ events \subseteq 1..last
    /\ status \in {"live", "ended"} /\ endedAt \in 0..MaxEvents
    /\ txn \in [Writers -> [sequence : 0..MaxEvents, kind : Kinds]]
    /\ reader \in [Readers -> [
            pc : {"away", "reading", "draining", "tailing", "checking", "final",
                  "finishing", "waiting", "stopped"},
            position : 0..MaxEvents, page : SUBSET (1..MaxEvents),
            woken : BOOLEAN, seen : SUBSET (1..MaxEvents), goal : 0..MaxEvents]]

(* "A distinct, gap-free, monotonically increasing sequence" (_allocate_sequence)
   under concurrent appends and rollbacks. *)
LogIsGapFree == \A e \in events : 1..e \subseteq events

(* "Exactly the events it missed, in sequence order, with no gap": a client
   that has an event has every earlier one, those included that were committed
   after it was read, across broken connections and old cursors. *)
NoGap == \A r \in Readers, e \in events :
            (\E s \in reader[r].seen : e < s) => e \in reader[r].seen

(* "One more read is guaranteed to pick up everything that commit wrote,
   including the event that made the run terminal": a stream that says it is
   complete has delivered the end of the run and all before it. It holds when
   Burst <= Limit: the one more read is one page, and a run that ends behind
   more events than a page holds is called complete without its end. *)
StopsComplete ==
    \A r \in Readers : At(r, "stopped") =>
        /\ reader[r].goal \in reader[r].seen
        /\ 1..reader[r].goal \subseteq reader[r].seen

(* "In sequence order, with no gap", over a client's whole life: whatever
   cursors, pages, rollbacks, wake-ups and broken connections there are, a
   client sees the log grow in order, and is let go when it has it all. *)
P == INSTANCE ResumableStream WITH
    recorded <- events, ended <- endedAt,
    seen <- [r \in Readers |-> reader[r].seen],
    goal <- [r \in Readers |-> reader[r].goal],
    complete <- {r \in Readers : At(r, "stopped")}

IsResumable == P!Spec

(* "The stream must never depend on a notification arriving": a client that
   stays connected receives every event, or its stream is complete. *)
EventsArrive ==
    \A r \in Readers : <>[]~At(r, "away") =>
        \A e \in 1..MaxEvents :
            e \in events ~> e \in reader[r].seen \/ At(r, "stopped")

(* A client that stays connected to a run that stays ended is let go. *)
StreamEnds ==
    \A r \in Readers :
        <>[](status = "ended" /\ ~At(r, "away")) => <>At(r, "stopped")
==============================================================================

--------------------------- MODULE AdaptiveRouting ---------------------------
(***************************************************************************)
(* How routers learn from outcomes: an evaluator hands a typed outcome to  *)
(* MASRouter.record_routing_outcome (masr.py), or RoutingOutcomeRecorder   *)
(* (src/ai_brain/router/outcome_recorder.py) delivers one that names no    *)
(* evaluator and is merely counted. The router judges whether the outcome  *)
(* may be learned from (routing_outcome.py), takes its process's lock,     *)
(* loads the shared state, applies the outcome and writes the next         *)
(* revision with a compare-and-set that also leaves a marker against       *)
(* replays (adaptive_state_store.py). The markers expire, and the          *)
(* judgement is made before the lock is had.                               *)
(***************************************************************************)
EXTENDS Integers

CONSTANTS
    Outcomes,       \* outcome_id of each outcome
    Routers,        \* processes that share the store
    Calls,          \* deliveries in progress at once
    Retries,        \* adaptive_routing_conflict_retries
    Deliveries,     \* max_delivery_attempts
    MaxAge, Skew,   \* max_outcome_age, allowed_future_skew, in ticks
    Ahead,          \* bound: how far recorded_at may be ahead of the clock
    MaxTime,        \* bound: ticks of the clock
    MaxFaults       \* bound: failed or unanswered store calls, and cancellations

ASSUME AdaptiveAssumption ==
    /\ {Retries, MaxAge, Skew, Ahead, MaxTime, MaxFaults} \subseteq Nat
    /\ Deliveries \in Nat \ {0}

VARIABLES
    stored,     \* the snapshot under the state key; revision 0 when there is none
    marker,     \* when each outcome's marker was last written; -1 for never
    recordedAt, \* each outcome's timestamp
    call,       \* each delivery
    landed,     \* outcomes learned by a write the store accepted (observed only)
    clock,
    faults

vars == <<stored, marker, recordedAt, call, landed, clock, faults>>

(* How many times each outcome was applied, as a reward or as a mere count. *)
NoneApplied == [o \in Outcomes |-> 0]
Empty == [revision |-> 0, learned |-> NoneApplied, noted |-> NoneApplied]

Statuses == {"none", "applied", "duplicate", "conflict_exhausted", "store_error"}

(* A delivery that is not in the router's hands. *)
Resting(pc, o, r, delivery, status) ==
    [pc |-> pc, outcome |-> o, router |-> r, eligible |-> FALSE, attempt |-> 0,
     delivery |-> delivery, base |-> Empty, status |-> status]
Idle == Resting("out", "none", "none", 0, "none")

Init ==
    /\ stored = Empty
    /\ marker = [o \in Outcomes |-> -1]
    /\ recordedAt \in [Outcomes -> 0..Ahead]
    /\ call = [c \in Calls |-> Idle]
    /\ landed = {} /\ clock = 0 /\ faults = 0

Fault == faults < MaxFaults /\ faults' = faults + 1

-----------------------------------------------------------------------------
(* EvaluatorEligibilityPolicy.assess, what depends on the time; an outcome may
   be ineligible for other reasons. *)
Fresh(o) == recordedAt[o] - clock <= Skew /\ clock - recordedAt[o] <= MaxAge

Assessed(c, o, r, delivery) ==
    \E eligible \in BOOLEAN :
        /\ eligible => Fresh(o)
        /\ call' = [call EXCEPT ![c] =
                [pc |-> "queued", outcome |-> o, router |-> r,
                 eligible |-> eligible, attempt |-> 0, delivery |-> delivery,
                 base |-> Empty, status |-> "none"]]

(* An outcome is handed over with the timestamp it was given, for the first
   time, or again by a caller that does not know what became of the first. *)
Record(c, o, r) ==
    /\ call[c].pc = "out"
    /\ Assessed(c, o, r, 1)
    /\ UNCHANGED <<stored, marker, recordedAt, landed, clock, faults>>

(* A delivery answered for good keeps its answer until the next one. *)
Concluded(c, status) ==
    call' = [call EXCEPT ![c] = Resting("out", call[c].outcome, "none", 0, status)]

(* The retry of a result that is retryable, with the same outcome. *)
Redeliver(c) ==
    /\ call[c].pc = "failed" /\ call[c].delivery < Deliveries
    /\ Assessed(c, call[c].outcome, call[c].router, call[c].delivery + 1)
    /\ UNCHANGED <<stored, marker, recordedAt, landed, clock, faults>>

GivesUp(c) ==
    /\ call[c].pc = "failed" /\ call[c].delivery >= Deliveries
    /\ Concluded(c, call[c].status)
    /\ UNCHANGED <<stored, marker, recordedAt, landed, clock, faults>>

-----------------------------------------------------------------------------
(* _record_routing_outcome_unlocked, under the router's lock. *)

Holds(c) == call[c].pc \in {"writing", "backoff"}
LockFree(r) == \A c \in Calls : Holds(c) => call[c].router # r

(* retryable, or not *)
Answered(c, status) ==
    IF status \in {"conflict_exhausted", "store_error"}
    THEN call' = [call EXCEPT ![c] =
            Resting("failed", call[c].outcome, call[c].router, call[c].delivery, status)]
    ELSE Concluded(c, status)

(* _refresh_adaptive_state, on taking the lock or again after a conflict. *)
Loads(c) ==
    /\ \/ call[c].pc = "queued" /\ LockFree(call[c].router)
       \/ call[c].pc = "backoff"
    /\ \/ /\ call' = [call EXCEPT ![c] = [@ EXCEPT !.pc = "writing", !.base = stored]]
          /\ UNCHANGED faults
       \/ Fault /\ Answered(c, "store_error")
    /\ UNCHANGED <<stored, marker, recordedAt, landed, clock>>

(* _apply_outcome_to_snapshot *)
Applied(snapshot, o, eligible) ==
    LET Once(counts) == [counts EXCEPT ![o] = @ + 1] IN
    [revision |-> snapshot.revision + 1,
     learned |-> IF eligible THEN Once(snapshot.learned) ELSE snapshot.learned,
     noted |-> IF eligible THEN snapshot.noted ELSE Once(snapshot.noted)]

(* Slip: the marker is kept for the age alone. *)
LiveForAge(o) == marker[o] >= 0 /\ clock - marker[o] <= MaxAge

(* ADAPTIVE_OUTCOME_RETENTION_SECONDS *)
Live(o) == marker[o] >= 0 /\ clock - marker[o] <= MaxAge + Skew

(* What the script finds; the slip looks at the marker alone. *)
WouldStoreAnyRevision(c) == ~Live(call[c].outcome)

WouldStore(c) ==
    /\ ~Live(call[c].outcome)
    /\ call[c].base.revision = stored.revision

Stores(c) ==
    LET o == call[c].outcome  eligible == call[c].eligible IN
    /\ WouldStore(c)
    /\ stored' = Applied(call[c].base, o, eligible)
    /\ marker' = [marker EXCEPT ![o] = clock]
    /\ landed' = IF eligible THEN landed \cup {o} ELSE landed

(* Slip: the marker is written before the revisions are compared. *)
StoresNothingButMarker(c) ==
    /\ ~WouldStore(c)
    /\ marker' = [marker EXCEPT ![call[c].outcome] = clock]
    /\ UNCHANGED <<stored, landed>>

StoresNothing(c) == ~WouldStore(c) /\ UNCHANGED <<stored, marker, landed>>

RetriesLeft(c) == call[c].attempt < Retries

(* compare_and_set, and what the router makes of the answer; the answer is lost
   before or after the script ran, or is never waited for. *)
Writes(c) ==
    /\ call[c].pc = "writing"
    /\ \/ Stores(c) /\ Answered(c, "applied") /\ UNCHANGED faults
       \/ /\ StoresNothing(c)
          /\ \/ Live(call[c].outcome) /\ Answered(c, "duplicate")
             \/ /\ ~Live(call[c].outcome) /\ RetriesLeft(c)
                /\ call' = [call EXCEPT ![c] =
                        [call[c] EXCEPT !.pc = "backoff", !.attempt = @ + 1, !.base = Empty]]
             \/ /\ ~Live(call[c].outcome) /\ ~RetriesLeft(c)
                /\ Answered(c, "conflict_exhausted")
          /\ UNCHANGED faults
       \/ /\ Stores(c) \/ StoresNothing(c) \/ UNCHANGED <<stored, marker, landed>>
          /\ Fault
          /\ \/ Answered(c, "store_error")
             \/ call' = [call EXCEPT ![c] = Idle]
    /\ UNCHANGED <<recordedAt, clock>>

(* The caller is cancelled while it waits: for the lock, the load, a backoff. *)
Cancelled(c) ==
    /\ call[c].pc \in {"queued", "backoff", "failed"}
    /\ Fault /\ call' = [call EXCEPT ![c] = Idle]
    /\ UNCHANGED <<stored, marker, recordedAt, landed, clock>>

(* Nothing bounds how long a delivery waits for the lock, the store or a
   backoff. *)
Tick ==
    /\ clock < MaxTime /\ clock' = clock + 1
    /\ UNCHANGED <<stored, marker, recordedAt, call, landed, faults>>

Next ==
    \/ \E c \in Calls :
        \/ \E o \in Outcomes, r \in Routers : Record(c, o, r)
        \/ Redeliver(c) \/ GivesUp(c) \/ Loads(c) \/ Writes(c) \/ Cancelled(c)
    \/ Tick

Spec == Init /\ [][Next]_vars

-----------------------------------------------------------------------------
Snapshot == [revision : Nat, learned : [Outcomes -> Nat], noted : [Outcomes -> Nat]]
Delivery == [pc : {"out", "queued", "writing", "backoff", "failed"},
             outcome : Outcomes \cup {"none"}, router : Routers \cup {"none"},
             eligible : BOOLEAN, attempt : 0..Retries, delivery : 0..Deliveries,
             base : Snapshot, status : Statuses]

(* Every variable holds values the code could store in it. *)
TypeOK ==
    /\ stored \in Snapshot
    /\ marker \in [Outcomes -> -1..MaxTime]
    /\ recordedAt \in [Outcomes -> 0..Ahead]
    /\ call \in [Calls -> Delivery]
    /\ landed \subseteq Outcomes
    /\ clock \in 0..MaxTime /\ faults \in 0..MaxFaults

(* "No still-eligible outcome can be replayed after its idempotency marker
   expires" (routing_outcome.py): whoever delivers it, however often, however
   far ahead it is dated and however long a delivery waits for its write, what
   was learned is learned again only when it is too old to be judged eligible:
   by a replay that was judged in time and waited too long. *)
Outdated(o) == clock - recordedAt[o] > MaxAge

RelearnsOnlyOutdated ==
    [][\A o \in Outcomes :
        0 < stored.learned[o] /\ stored.learned[o] < stored'.learned[o] => Outdated(o)]_vars

(* No router overwrites what another one learned: an outcome whose write was
   accepted stays in every later revision, answered or not. *)
NoLostUpdate == \A o \in landed : stored.learned[o] >= 1

(* A delivery is told its outcome was applied, or was a duplicate, only when
   the stored state counts that outcome. *)
AnswersAreTrue ==
    \A c \in Calls : call[c].status \in {"applied", "duplicate"} =>
        stored.learned[call[c].outcome] + stored.noted[call[c].outcome] >= 1

(* The routers that share the store learn as one writer would: whatever they
   load, retry and overwrite, an accepted write adds one outcome to the state
   it replaces, a learned one again only when it is outdated, and no delivery
   is told more than that. *)
Told(c) ==
    IF call[c].status \in {"applied", "duplicate"} THEN call[c].outcome ELSE "none"

L == INSTANCE SerialLearning WITH
    revision <- stored.revision, learned <- stored.learned, noted <- stored.noted,
    told <- [c \in Calls |-> Told(c)], outdated <- {o \in Outcomes : Outdated(o)}

LearnsSerially == L!Spec
==============================================================================

----------------------------- MODULE OutboxRelay -----------------------------
(***************************************************************************)
(* The transactional outbox and the relays that drain it                   *)
(* (src/api/services/outbox_relay.py). A claim is a lease: a relay takes   *)
(* a batch of rows `in_flight`, publishes them one by one, and finalizes   *)
(* each with what it remembers from the claim. A relay may be slower than  *)
(* its lease, or die between any two of those steps.                       *)
(*                                                                         *)
(* Deadlines are kept as the time left to them, so Tick counts them down.  *)
(***************************************************************************)
EXTENDS Integers, FiniteSets

CONSTANTS
    Rows,           \* outbox row ids, claimed in this order
    Relays,         \* relay instances sharing the database
    BatchSize,      \* batch_size
    MaxAttempts,    \* max_attempts
    Lease,          \* claim_lease_seconds, in ticks
    MaxBackoff,     \* _MAX_BACKOFF_SECONDS, in ticks
    MaxCrashes      \* bound: relay deaths and aborted iterations

ASSUME RelayAssumption ==
    /\ Rows \subseteq Nat /\ Relays # {}
    /\ {BatchSize, MaxAttempts, Lease, MaxBackoff} \subseteq Nat \ {0}
    /\ MaxCrashes \in Nat

VARIABLES
    outbox,     \* the agent_run_event_outbox rows
    relay,      \* each relay's claimed batch and the publish it has to record
    published,  \* attempts of each row that reached the destination
    crashes

vars == <<outbox, relay, published, crashes>>

Statuses == {"absent", "pending", "in_flight", "failed", "delivered"}

(* What a relay remembers of a row: RETURNING reads `attempts` at claim time. *)
Claims == [row : Rows, attempt : 1..MaxAttempts]
NoAnswer == [row |-> -1, attempt |-> 0, ok |-> FALSE]
Answers == [row : Rows, attempt : 1..MaxAttempts, ok : BOOLEAN] \cup {NoAnswer}

Backoff(attempts) ==
    IF 2^attempts \in 0..MaxBackoff THEN 2^attempts ELSE MaxBackoff

Resting(w) == relay[w].batch = {} /\ relay[w].answer = NoAnswer

Init ==
    /\ outbox = [r \in Rows |-> [status |-> "absent", attempts |-> 0, wait |-> 0,
                                 lease |-> 0, error |-> "none"]]
    /\ relay = [w \in Relays |-> [batch |-> {}, answer |-> NoAnswer]]
    /\ published = [r \in Rows |-> {}]
    /\ crashes = 0

(* append_event commits an outbox row with its event. *)
AppendEvent(r) ==
    /\ outbox[r].status = "absent"
    /\ outbox' = [outbox EXCEPT ![r].status = "pending"]
    /\ UNCHANGED <<relay, published, crashes>>

(* Slip: a failed row is retried for ever. *)
FailedAlwaysClaimable(r) ==
    \/ outbox[r].status \in {"pending", "failed"} /\ outbox[r].wait = 0
    \/ /\ outbox[r].attempts < MaxAttempts
       /\ outbox[r].status = "in_flight" /\ outbox[r].lease = 0

Claimable(r) ==
    /\ outbox[r].attempts < MaxAttempts
    /\ \/ outbox[r].status \in {"pending", "failed"} /\ outbox[r].wait = 0
       \/ outbox[r].status = "in_flight" /\ outbox[r].lease = 0

Batch ==
    {r \in Rows : /\ Claimable(r)
                  /\ Cardinality({q \in Rows : q < r /\ Claimable(q)}) < BatchSize}

(* Slip: no sweep. *)
NeverSwept(r) == FALSE

AbandonedAtCeiling(r) ==
    /\ outbox[r].status = "in_flight"
    /\ outbox[r].attempts >= MaxAttempts
    /\ outbox[r].lease = 0

(* Slip: attempts are counted when they end, not when they are claimed. *)
ClaimedUncounted(row) == [row EXCEPT !.status = "in_flight", !.lease = Lease]

Claimed(row) ==
    [row EXCEPT !.status = "in_flight", !.attempts = @ + 1, !.lease = Lease]

DeadLettered(row) == [row EXCEPT !.status = "failed", !.error = "dead_letter"]

(* _claim_batch and _dead_letter_abandoned_claims, one transaction. *)
Claim(w) ==
    /\ Resting(w)
    /\ relay' = [relay EXCEPT ![w].batch =
            {[row |-> r, attempt |-> outbox[r].attempts + 1] : r \in Batch}]
    /\ outbox' = [r \in Rows |->
            IF r \in Batch THEN Claimed(outbox[r])
            ELSE IF AbandonedAtCeiling(r) THEN DeadLettered(outbox[r])
            ELSE outbox[r]]
    /\ UNCHANGED <<published, crashes>>

(* _deliver: the destination takes the event, or is unavailable or unknown. *)
Deliver(w, c) ==
    /\ relay[w].answer = NoAnswer
    /\ c \in relay[w].batch
    /\ \E ok \in BOOLEAN :
        /\ relay' = [relay EXCEPT ![w] =
                [batch |-> @.batch \ {c},
                 answer |-> [row |-> c.row, attempt |-> c.attempt, ok |-> ok]]]
        /\ published' = IF ok THEN [published EXCEPT ![c.row] = @ \cup {c.attempt}]
                        ELSE published
    /\ UNCHANGED <<outbox, crashes>>

(* Slips: a spent row reads delivered, or merely failed. *)
FinalizedAsDelivered(row, answer) ==
    IF answer.ok \/ answer.attempt >= MaxAttempts
    THEN [row EXCEPT !.status = "delivered"]
    ELSE [row EXCEPT !.status = "failed", !.wait = Backoff(answer.attempt),
                     !.error = "unavailable"]

FinalizedWithoutCeiling(row, answer) ==
    IF answer.ok THEN [row EXCEPT !.status = "delivered"]
    ELSE [row EXCEPT !.status = "failed", !.wait = Backoff(answer.attempt),
                     !.error = "unavailable"]

(* _finalize updates the row by id alone: neither its status nor its claimant
   is compared with the claim being finalized. *)
Finalized(row, answer) ==
    IF answer.ok THEN [row EXCEPT !.status = "delivered"]
    ELSE IF answer.attempt >= MaxAttempts THEN DeadLettered(row)
    ELSE [row EXCEPT !.status = "failed", !.wait = Backoff(answer.attempt),
                     !.error = "unavailable"]

Finalize(w) ==
    LET answer == relay[w].answer IN
    /\ answer # NoAnswer
    /\ outbox' = [outbox EXCEPT ![answer.row] = Finalized(@, answer)]
    /\ relay' = [relay EXCEPT ![w].answer = NoAnswer]
    /\ UNCHANGED <<published, crashes>>

(* The relay dies, or an exception ends the iteration: its claims are left
   in_flight. *)
Crash(w) ==
    /\ ~Resting(w)
    /\ crashes < MaxCrashes
    /\ crashes' = crashes + 1
    /\ relay' = [relay EXCEPT ![w] = [batch |-> {}, answer |-> NoAnswer]]
    /\ UNCHANGED <<outbox, published>>

Less(n) == IF n = 0 THEN 0 ELSE n - 1

Tick ==
    /\ outbox' = [r \in Rows |-> [outbox[r] EXCEPT !.wait = Less(@),
                                                   !.lease = Less(@)]]
    /\ UNCHANGED <<relay, published, crashes>>

RelayStep(w) ==
    \/ Claim(w)
    \/ \E c \in relay[w].batch : Deliver(w, c)
    \/ Finalize(w)

Next ==
    \/ \E r \in Rows : AppendEvent(r)
    \/ \E w \in Relays : RelayStep(w) \/ Crash(w)
    \/ Tick

Spec == Init /\ [][Next]_vars

(* A relay polls for ever, its calls return, and time passes. *)
FairSpec == Spec /\ WF_vars(Tick) /\ \A w \in Relays : WF_vars(RelayStep(w))

-----------------------------------------------------------------------------
(* Every variable holds values the code could store in it. *)
RowState == [status : Statuses, attempts : 0..MaxAttempts, wait : 0..MaxBackoff,
             lease : 0..Lease, error : {"none", "unavailable", "dead_letter"}]

TypeOK ==
    /\ outbox \in [Rows -> RowState]
    /\ relay \in [Relays -> [batch : SUBSET Claims, answer : Answers]]
    /\ published \in [Rows -> SUBSET (1..MaxAttempts)]
    /\ crashes \in 0..MaxCrashes

(* Delivery is at least once: a row that reads delivered was published, however
   leases expired and relays died in between. *)
DeliveredWasPublished ==
    \A r \in Rows : outbox[r].status = "delivered" => published[r] # {}

(* "a row's attempt count always reflects delivery attempts actually made": no
   claim is worked twice, by one relay or by two, so a row is published at
   most `attempts`, hence max_attempts, times. *)
Holds(w, r, n) ==
    \/ [row |-> r, attempt |-> n] \in relay[w].batch
    \/ relay[w].answer # NoAnswer /\ relay[w].answer.row = r /\ relay[w].answer.attempt = n

EachClaimOnce ==
    \A r \in Rows, n \in 1..MaxAttempts :
        /\ n \in published[r] => n <= outbox[r].attempts
        /\ \A w \in Relays :
            /\ Holds(w, r, n) => n <= outbox[r].attempts
            /\ [row |-> r, attempt |-> n] \in relay[w].batch => n \notin published[r]
            /\ \A v \in Relays : Holds(w, r, n) /\ Holds(v, r, n) => v = w

(* A row whose attempts are spent and that no relay still works on says so:
   _finalize or the sweep has dead-lettered it, unless it was delivered. *)
NoSilentAbandonment ==
    \A r \in Rows :
        /\ outbox[r].status = "failed" /\ outbox[r].attempts = MaxAttempts
        /\ \A w \in Relays, n \in 1..MaxAttempts : ~Holds(w, r, n)
        => outbox[r].error = "dead_letter"

Settled(r) == \/ outbox[r].status = "delivered"
              \/ outbox[r].status = "failed" /\ outbox[r].error = "dead_letter"

(* A delivered or dead-lettered row is never taken up again or re-reported: one
   relay never outlives its own claim. *)
SettledIsFinal ==
    [][\A r \in Rows : Settled(r) =>
            /\ outbox'[r].status = outbox[r].status
            /\ outbox'[r].error = outbox[r].error]_vars

(* Every row written is in the end delivered or visibly given up on, for good. *)
EveryRowSettles == \A r \in Rows : outbox[r].status = "pending" ~> []Settled(r)

(* What a row is owed: bounded tries, each published at most once, and one
   conclusion that the tries bear out. *)
Fate(r) ==
    IF outbox[r].status = "delivered" THEN "delivered"
    ELSE IF outbox[r].error = "dead_letter" THEN "given_up" ELSE "open"

A == INSTANCE AtLeastOnce WITH
    tries <- [r \in Rows |-> outbox[r].attempts],
    fate <- [r \in Rows |-> Fate(r)]

DeliversAtLeastOnce == A!Spec
==============================================================================

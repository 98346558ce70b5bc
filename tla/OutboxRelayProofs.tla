-------------------------- MODULE OutboxRelayProofs --------------------------
(***************************************************************************)
(* Proofs about OutboxRelay, for any rows, any number of relays sharing    *)
(* them, any batch, lease, backoff and ceiling, and any number of deaths.  *)
(***************************************************************************)
EXTENDS OutboxRelay, TLAPS

(* What the handlers make of a row, field by field. *)
LEMMA RowMoves ==
    ASSUME NEW row \in RowState, NEW answer \in Answers
    PROVE  /\ row.attempts < MaxAttempts =>
                /\ Claimed(row) \in RowState
                /\ Claimed(row).attempts = row.attempts + 1
                /\ Claimed(row).status = "in_flight"
           /\ DeadLettered(row) \in RowState
           /\ DeadLettered(row).attempts = row.attempts
           /\ DeadLettered(row).status = "failed"
           /\ Finalized(row, answer) \in RowState
           /\ Finalized(row, answer).attempts = row.attempts
           /\ Finalized(row, answer).status = "delivered" => answer.ok
<1>1. ASSUME row.attempts < MaxAttempts PROVE Claimed(row) \in RowState
  <2>1. row.attempts + 1 \in 0..MaxAttempts /\ Lease \in 0..Lease
    BY <1>1, RelayAssumption DEF RowState
  <2> QED BY <2>1 DEF Claimed, RowState, Statuses
<1>2. Claimed(row).attempts = row.attempts + 1 /\ Claimed(row).status = "in_flight"
  BY DEF Claimed, RowState
<1>3. Backoff(answer.attempt) \in 0..MaxBackoff
  BY RelayAssumption DEF Backoff
<1>4. DeadLettered(row) \in RowState /\ Finalized(row, answer) \in RowState
  BY <1>3 DEF Finalized, DeadLettered, RowState, Statuses
<1>5. /\ DeadLettered(row).attempts = row.attempts
      /\ DeadLettered(row).status = "failed"
      /\ Finalized(row, answer).attempts = row.attempts
      /\ Finalized(row, answer).status = "delivered" => answer.ok
  BY DEF Finalized, DeadLettered, RowState, Statuses
<1> QED BY <1>1, <1>2, <1>4, <1>5

(* The table starts empty and well typed. *)
LEMMA TypeInit == Init => TypeOK
BY RelayAssumption
DEF Init, TypeOK, RowState, Statuses, Answers, NoAnswer

(* Every step of a relay, of the log writer and of the clock keeps every row,
   every claim and every answer within its type. *)
LEMMA TypeStep == TypeOK /\ [Next]_vars => TypeOK'
<1> SUFFICES ASSUME TypeOK, [Next]_vars PROVE TypeOK'
  OBVIOUS
<1> USE RelayAssumption DEF TypeOK
<1>0. NoAnswer \in Answers
  BY DEF Answers
<1>1. ASSUME NEW r \in Rows, AppendEvent(r) PROVE TypeOK'
  <2>1. [outbox[r] EXCEPT !.status = "pending"] \in RowState
    BY DEF RowState, Statuses
  <2> QED BY <1>1, <2>1 DEF AppendEvent
<1>2. ASSUME NEW w \in Relays, Claim(w) PROVE TypeOK'
  <2>1. ASSUME NEW r \in Rows PROVE outbox'[r] \in RowState
    BY <1>0, <1>2, RowMoves DEF Claim, Batch, Claimable
  <2>2. ASSUME NEW r \in Batch
        PROVE  [row |-> r, attempt |-> outbox[r].attempts + 1] \in Claims
    <3>1. r \in Rows /\ outbox[r] \in RowState /\ outbox[r].attempts < MaxAttempts
      BY DEF Batch, Claimable
    <3>2. outbox[r].attempts + 1 \in 1..MaxAttempts
      BY <3>1 DEF RowState
    <3> QED BY <3>1, <3>2 DEF Claims
  <2>3. relay' \in [Relays -> [batch : SUBSET Claims, answer : Answers]]
    BY <1>2, <2>2 DEF Claim
  <2> QED BY <1>2, <2>1, <2>3 DEF Claim
<1>3. ASSUME NEW w \in Relays, NEW c \in relay[w].batch, Deliver(w, c) PROVE TypeOK'
  <2>1. c.row \in Rows /\ c.attempt \in 1..MaxAttempts
    BY DEF Claims
  <2>2. PICK ok \in BOOLEAN :
          /\ relay' = [relay EXCEPT ![w] =
                [batch |-> @.batch \ {c},
                 answer |-> [row |-> c.row, attempt |-> c.attempt, ok |-> ok]]]
          /\ published' = IF ok
                          THEN [published EXCEPT ![c.row] = @ \cup {c.attempt}]
                          ELSE published
    BY <1>3 DEF Deliver
  <2>3. [row |-> c.row, attempt |-> c.attempt, ok |-> ok] \in Answers
    BY <2>1 DEF Answers
  <2>4. relay' \in [Relays -> [batch : SUBSET Claims, answer : Answers]]
    BY <2>2, <2>3
  <2>5. published' \in [Rows -> SUBSET (1..MaxAttempts)]
    BY <2>1, <2>2
  <2> QED BY <1>3, <2>4, <2>5 DEF Deliver
<1>4. ASSUME NEW w \in Relays, Finalize(w) PROVE TypeOK'
  <2>1. relay[w].answer \in Answers /\ relay[w].answer.row \in Rows
    BY <1>4 DEF Finalize, Answers
  <2>2. Finalized(outbox[relay[w].answer.row], relay[w].answer) \in RowState
    BY <2>1, RowMoves
  <2> QED BY <1>0, <1>4, <2>1, <2>2 DEF Finalize
<1>5. ASSUME NEW w \in Relays, Crash(w) PROVE TypeOK'
  BY <1>0, <1>5 DEF Crash
<1>6. CASE Tick
  <2>1. ASSUME NEW r \in Rows PROVE outbox'[r] \in RowState
    <3>1. outbox[r] \in RowState
      OBVIOUS
    <3>2. /\ Less(outbox[r].wait) \in 0..MaxBackoff
          /\ Less(outbox[r].lease) \in 0..Lease
      BY <3>1 DEF Less, RowState
    <3>3. [outbox[r] EXCEPT !.wait = Less(@), !.lease = Less(@)] \in RowState
      BY <3>1, <3>2 DEF RowState
    <3> QED BY <1>6, <3>3 DEF Tick
  <2> QED BY <1>6, <2>1 DEF Tick
<1>7. CASE UNCHANGED vars
  BY <1>7 DEF vars
<1> QED BY <1>1, <1>2, <1>3, <1>4, <1>5, <1>6, <1>7 DEF Next, RelayStep

(* Every row and every claim a relay remembers keeps its type; no row is
   claimed more often than max_attempts, however leases expire. *)
THEOREM Typing == Spec => []TypeOK
BY TypeInit, TypeStep, PTL DEF Spec

-----------------------------------------------------------------------------
(* A step that claims nothing and publishes nothing cannot break the claims:
   what relays hold only shrinks, and attempt counts stand. *)
LEMMA ClaimsShrink ==
    ASSUME EachClaimOnce, published' = published,
           \A r \in Rows : outbox'[r].attempts = outbox[r].attempts,
           \A w \in Relays, r \in Rows, n \in 1..MaxAttempts :
                /\ Holds(w, r, n)' => Holds(w, r, n)
                /\ [row |-> r, attempt |-> n] \in relay'[w].batch
                        => [row |-> r, attempt |-> n] \in relay[w].batch
    PROVE  EachClaimOnce'
BY DEF EachClaimOnce

(* No step makes two relays, or one relay twice, work the same claim. *)
LEMMA ClaimStep == TypeOK /\ EachClaimOnce /\ [Next]_vars => EachClaimOnce'
<1> SUFFICES ASSUME TypeOK, EachClaimOnce, [Next]_vars PROVE EachClaimOnce'
  OBVIOUS
<1>1. ASSUME NEW r \in Rows, AppendEvent(r) PROVE EachClaimOnce'
  <2>1. \A q \in Rows : outbox'[q].attempts = outbox[q].attempts
    BY <1>1 DEF AppendEvent, TypeOK, RowState
  <2> QED BY <1>1, <2>1, ClaimsShrink DEF AppendEvent, Holds
<1>2. ASSUME NEW w \in Relays, Claim(w) PROVE EachClaimOnce'
  <2>1. ASSUME NEW r \in Rows
        PROVE  /\ r \in Batch => outbox'[r].attempts = outbox[r].attempts + 1
               /\ r \notin Batch => outbox'[r].attempts = outbox[r].attempts
               /\ outbox[r].attempts \in Int
    <3>1. outbox[r] \in RowState
      BY DEF TypeOK
    <3>2. /\ DeadLettered(outbox[r]).attempts = outbox[r].attempts
          /\ Claimed(outbox[r]).attempts = outbox[r].attempts + 1
      BY <3>1 DEF RowState, DeadLettered, Claimed
    <3> QED BY <1>2, <3>1, <3>2 DEF Claim, RowState
  <2>2. ASSUME NEW r \in Rows, NEW n \in 1..MaxAttempts, NEW v \in Relays
        PROVE  /\ v # w => (Holds(v, r, n)' <=> Holds(v, r, n))
               /\ Holds(w, r, n)' => r \in Batch /\ n = outbox[r].attempts + 1
               /\ v # w => relay'[v] = relay[v]
    BY <1>2 DEF Claim, Resting, Holds, TypeOK
  <2>3. ASSUME NEW r \in Rows, NEW n \in 1..MaxAttempts
        PROVE  /\ n \in published'[r] => n <= outbox'[r].attempts
               /\ \A v \in Relays : Holds(v, r, n)' => n <= outbox'[r].attempts
    <3>1. /\ published' = published
          /\ outbox'[r].attempts \in {outbox[r].attempts, outbox[r].attempts + 1}
      BY <1>2, <2>1 DEF Claim
    <3>2. ASSUME n <= outbox[r].attempts PROVE n <= outbox'[r].attempts
      BY <2>1, <3>2, <3>1
    <3>3. ASSUME NEW v \in Relays, Holds(v, r, n) PROVE n <= outbox'[r].attempts
      BY <3>2, <3>3 DEF EachClaimOnce
    <3>4. n \in published'[r] => n <= outbox'[r].attempts
      BY <3>2, <3>1 DEF EachClaimOnce
    <3>5. Holds(w, r, n)' => n <= outbox'[r].attempts
      BY <2>1, <2>2
    <3> QED BY <2>2, <3>3, <3>4, <3>5
  <2>4. ASSUME NEW r \in Rows, NEW n \in 1..MaxAttempts, NEW v \in Relays,
               [row |-> r, attempt |-> n] \in relay'[v].batch
        PROVE  n \notin published'[r]
    <3>1. CASE v = w
      BY <1>2, <2>1, <2>2, <2>4, <3>1 DEF Claim, EachClaimOnce, Holds
    <3>2. CASE v # w
      BY <1>2, <2>2, <2>4, <3>2 DEF Claim, EachClaimOnce
    <3> QED BY <3>1, <3>2
  <2>5. ASSUME NEW r \in Rows, NEW n \in 1..MaxAttempts,
               NEW u \in Relays, NEW v \in Relays, Holds(u, r, n)', Holds(v, r, n)'
        PROVE  u = v
    <3>1. ASSUME NEW x \in Relays, Holds(x, r, n) PROVE n <= outbox[r].attempts
      BY <3>1 DEF EachClaimOnce
    <3>2. (u = w \/ v = w) => n = outbox[r].attempts + 1
      BY <2>2, <2>5
    <3>3. (u # w \/ v # w) => u = v \/ n <= outbox[r].attempts
      BY <2>2, <2>5, <3>1
    <3>4. u # w /\ v # w => u = v
      <4>1. u # w /\ v # w => Holds(u, r, n) /\ Holds(v, r, n)
        BY <2>2, <2>5
      <4> QED BY <4>1 DEF EachClaimOnce
    <3> QED BY <2>1, <3>2, <3>3, <3>4
  <2> QED BY <2>3, <2>4, <2>5 DEF EachClaimOnce
<1>3. ASSUME NEW w \in Relays, NEW c \in relay[w].batch, Deliver(w, c)
      PROVE  EachClaimOnce'
  <2>1. c = [row |-> c.row, attempt |-> c.attempt]
        /\ c.row \in Rows /\ c.attempt \in 1..MaxAttempts
    BY DEF TypeOK, Claims
  <2>2. /\ outbox' = outbox
        /\ relay'[w].batch = relay[w].batch \ {c}
        /\ relay'[w].answer.row = c.row /\ relay'[w].answer.attempt = c.attempt
        /\ \A v \in Relays : v # w => relay'[v] = relay[v]
    BY <1>3 DEF Deliver, TypeOK
  <2>3. \A r \in Rows, n \in 1..MaxAttempts :
            n \in published'[r] => \/ n \in published[r]
                                   \/ r = c.row /\ n = c.attempt
    BY <1>3, <2>1 DEF Deliver, TypeOK
  <2>4. ASSUME NEW v \in Relays, NEW r \in Rows, NEW n \in 1..MaxAttempts
        PROVE  Holds(v, r, n)' => Holds(v, r, n)
    BY <2>1, <2>2 DEF Holds
  <2>5. Holds(w, c.row, c.attempt)
    BY <2>1 DEF Holds
  <2>6. ASSUME NEW v \in Relays, NEW r \in Rows, NEW n \in 1..MaxAttempts,
               [row |-> r, attempt |-> n] \in relay'[v].batch
        PROVE  n \notin published'[r]
    <3>1. [row |-> r, attempt |-> n] \in relay[v].batch
      BY <2>2, <2>6
    <3>2. n \notin published[r] /\ Holds(v, r, n)
      BY <3>1 DEF EachClaimOnce, Holds
    <3>3. ~(r = c.row /\ n = c.attempt)
      BY <2>1, <2>2, <2>5, <2>6, <3>2 DEF EachClaimOnce
    <3> QED BY <2>3, <3>2, <3>3
  <2>7. ASSUME NEW r \in Rows, NEW n \in 1..MaxAttempts, n \in published'[r]
        PROVE  n <= outbox'[r].attempts
    <3>1. ASSUME n \in published[r] PROVE n <= outbox[r].attempts
      BY <3>1 DEF EachClaimOnce
    <3>2. c.attempt <= outbox[c.row].attempts
      BY <2>1, <2>5 DEF EachClaimOnce
    <3> QED BY <2>2, <2>3, <2>7, <3>1, <3>2
  <2> QED BY <2>2, <2>4, <2>6, <2>7 DEF EachClaimOnce
<1>4. ASSUME NEW w \in Relays, Finalize(w) PROVE EachClaimOnce'
  <2>1. \A r \in Rows : outbox'[r].attempts = outbox[r].attempts
    BY <1>4, RowMoves DEF Finalize, TypeOK
  <2>2. \A v \in Relays : /\ relay'[v].batch = relay[v].batch
                          /\ relay'[v].answer \in {relay[v].answer, NoAnswer}
    BY <1>4 DEF Finalize, TypeOK
  <2> QED BY <1>4, <2>1, <2>2, ClaimsShrink DEF Finalize, Holds
<1>5. ASSUME NEW w \in Relays, Crash(w) PROVE EachClaimOnce'
  <2>1. \A v \in Relays : \/ relay'[v] = relay[v]
                          \/ relay'[v].batch = {} /\ relay'[v].answer = NoAnswer
    BY <1>5 DEF Crash, TypeOK
  <2> QED BY <1>5, <2>1, ClaimsShrink DEF Crash, Holds
<1>6. CASE Tick
  <2>1. \A r \in Rows : outbox'[r].attempts = outbox[r].attempts
    BY <1>6 DEF Tick, TypeOK, RowState
  <2> QED BY <1>6, <2>1, ClaimsShrink DEF Tick, Holds
<1>7. CASE UNCHANGED vars
  BY <1>7, ClaimsShrink DEF vars, Holds
<1> QED BY <1>1, <1>2, <1>3, <1>4, <1>5, <1>6, <1>7 DEF Next, RelayStep

(* However many relays share the table, and however slow or short-lived they
   are, no two of them ever work the same claim, and a row is published at most
   once for each attempt counted, so never more than max_attempts times. *)
THEOREM Exclusion == Spec => []EachClaimOnce
<1>1. Init => EachClaimOnce
  BY DEF Init, EachClaimOnce, Holds
<1> QED BY <1>1, Typing, ClaimStep, PTL DEF Spec

-----------------------------------------------------------------------------
(* A relay that is about to record a delivery did publish that attempt. *)
AnswersArePublished ==
    \A w \in Relays : relay[w].answer.ok =>
        relay[w].answer.attempt \in published[relay[w].answer.row]

DeliveryInv == DeliveredWasPublished /\ AnswersArePublished

(* Every step keeps both halves of the delivery argument: a relay learns of a
   delivery in the step that publishes, and a row reads delivered from that. *)
LEMMA DeliveryStep == TypeOK /\ DeliveryInv /\ [Next]_vars => DeliveryInv'
<1> SUFFICES ASSUME TypeOK, DeliveryInv, [Next]_vars PROVE DeliveryInv'
  OBVIOUS
<1> USE DEF DeliveryInv, DeliveredWasPublished, AnswersArePublished
<1>0. ASSUME relay' = relay, published' = published,
             \A r \in Rows : outbox'[r].status = "delivered"
                                => outbox[r].status = "delivered"
      PROVE  DeliveryInv'
  BY <1>0
<1>1. ASSUME NEW r \in Rows, AppendEvent(r) PROVE DeliveryInv'
  BY <1>0, <1>1 DEF AppendEvent, TypeOK, RowState
<1>2. ASSUME NEW w \in Relays, Claim(w) PROVE DeliveryInv'
  <2>1. ASSUME NEW r \in Rows, outbox'[r].status = "delivered"
        PROVE  outbox[r].status = "delivered"
    <3>1. outbox[r] \in RowState
      BY DEF TypeOK
    <3>2. DeadLettered(outbox[r]).status # "delivered"
          /\ Claimed(outbox[r]).status # "delivered"
      BY <3>1 DEF RowState, DeadLettered, Claimed
    <3> QED BY <1>2, <2>1, <3>2 DEF Claim
  <2>2. \A v \in Relays : relay'[v].answer = relay[v].answer
    BY <1>2 DEF Claim, TypeOK
  <2> QED BY <1>2, <2>1, <2>2 DEF Claim
<1>3. ASSUME NEW w \in Relays, NEW c \in relay[w].batch, Deliver(w, c)
      PROVE  DeliveryInv'
  <2>1. c.row \in Rows
    BY DEF TypeOK, Claims
  <2>2. \A r \in Rows : published[r] \subseteq published'[r]
    BY <1>3, <2>1 DEF Deliver, TypeOK
  <2>3. relay'[w].answer.ok =>
            relay'[w].answer.attempt \in published'[relay'[w].answer.row]
    BY <1>3, <2>1 DEF Deliver, TypeOK
  <2>4. ASSUME NEW v \in Relays, v # w PROVE relay'[v] = relay[v]
    BY <1>3, <2>4 DEF Deliver, TypeOK
  <2>5. \A v \in Relays : relay[v].answer.ok => relay[v].answer.row \in Rows
    BY DEF TypeOK, Answers, NoAnswer
  <2> QED BY <1>3, <2>2, <2>3, <2>4, <2>5 DEF Deliver
<1>4. ASSUME NEW w \in Relays, Finalize(w) PROVE DeliveryInv'
  <2>1. relay[w].answer \in Answers /\ relay[w].answer.row \in Rows
    BY <1>4 DEF Finalize, TypeOK, Answers
  <2>2. Finalized(outbox[relay[w].answer.row], relay[w].answer).status = "delivered"
            => relay[w].answer.ok
    BY <2>1, RowMoves DEF TypeOK
  <2>3. \A v \in Relays : \/ relay'[v].answer = relay[v].answer
                          \/ relay'[v].answer = NoAnswer
    BY <1>4 DEF Finalize, TypeOK
  <2> QED BY <1>4, <2>1, <2>2, <2>3 DEF Finalize, NoAnswer, TypeOK
<1>5. ASSUME NEW w \in Relays, Crash(w) PROVE DeliveryInv'
  BY <1>5 DEF Crash, NoAnswer, TypeOK
<1>6. CASE Tick
  BY <1>0, <1>6 DEF Tick, TypeOK, RowState
<1>7. CASE UNCHANGED vars
  BY <1>0, <1>7 DEF vars
<1> QED BY <1>1, <1>2, <1>3, <1>4, <1>5, <1>6, <1>7 DEF Next, RelayStep

(* A row that reads delivered was published, for any number of relays, expired
   leases and deaths: delivery is at least once. *)
THEOREM Delivery == Spec => []DeliveredWasPublished
<1>1. Init => DeliveryInv
  BY DEF Init, DeliveryInv, DeliveredWasPublished, AnswersArePublished, NoAnswer
<1>2. DeliveryInv => DeliveredWasPublished
  BY DEF DeliveryInv
<1> QED BY <1>1, <1>2, Typing, DeliveryStep, PTL DEF Spec

-----------------------------------------------------------------------------
(* A row is dead-lettered only when its attempts are spent, and they stay so. *)
DeadLetterAtCeiling ==
    \A r \in Rows : outbox[r].error = "dead_letter" => outbox[r].attempts = MaxAttempts

(* What a claim makes of a row: it takes it, sweeps it, or leaves it alone. *)
LEMMA ClaimRow ==
    ASSUME TypeOK, DeadLetterAtCeiling, NEW w \in Relays, Claim(w), NEW r \in Rows
    PROVE  \/ /\ r \in Batch /\ outbox[r].attempts < MaxAttempts
              /\ outbox'[r].status = "in_flight"
              /\ outbox'[r].attempts = outbox[r].attempts + 1
              /\ outbox'[r].error = outbox[r].error
              /\ ~Settled(r)
           \/ /\ r \notin Batch
              /\ outbox[r].status = "in_flight" /\ outbox'[r].status = "failed"
              /\ outbox[r].attempts = MaxAttempts /\ outbox'[r].attempts = MaxAttempts
              /\ outbox'[r].error = "dead_letter"
           \/ r \notin Batch /\ outbox'[r] = outbox[r]
<1>0. outbox[r] \in RowState
  BY DEF TypeOK
<1>1. CASE r \in Batch
  <2>1. outbox'[r] = Claimed(outbox[r]) /\ Claimable(r)
    BY <1>1 DEF Claim, Batch
  <2>2. outbox[r].attempts # MaxAttempts
    BY <1>0, <2>1, RelayAssumption DEF Claimable, RowState
  <2>3. ~Settled(r)
    BY <2>1, <2>2 DEF Claimable, Settled, DeadLetterAtCeiling
  <2> QED BY <1>0, <1>1, <2>1, <2>3 DEF Claimed, Claimable, RowState
<1>2. CASE r \notin Batch /\ AbandonedAtCeiling(r)
  <2>1. outbox'[r] = DeadLettered(outbox[r])
    BY <1>2 DEF Claim
  <2>2. outbox[r].attempts = MaxAttempts
    <3>1. outbox[r].attempts \in 0..MaxAttempts /\ outbox[r].attempts >= MaxAttempts
      BY <1>0, <1>2 DEF AbandonedAtCeiling, RowState
    <3> QED BY <3>1, RelayAssumption
  <2> QED BY <1>0, <1>2, <2>1, <2>2 DEF DeadLettered, AbandonedAtCeiling, RowState
<1>3. CASE r \notin Batch /\ ~AbandonedAtCeiling(r)
  BY <1>3 DEF Claim
<1> QED BY <1>1, <1>2, <1>3

(* What recording the answer to a claim makes of a row. *)
LEMMA FinalizeRow ==
    ASSUME TypeOK, NEW w \in Relays, Finalize(w)
    PROVE  /\ relay[w].answer # NoAnswer
           /\ relay[w].answer.row \in Rows /\ relay[w].answer.attempt \in 1..MaxAttempts
           /\ outbox'[relay[w].answer.row]
                = Finalized(outbox[relay[w].answer.row], relay[w].answer)
           /\ outbox'[relay[w].answer.row].attempts = outbox[relay[w].answer.row].attempts
           /\ \A r \in Rows : r # relay[w].answer.row => outbox'[r] = outbox[r]
<1>1. /\ relay[w].answer # NoAnswer /\ relay[w].answer \in Answers
      /\ relay[w].answer.row \in Rows /\ relay[w].answer.attempt \in 1..MaxAttempts
      /\ outbox[relay[w].answer.row] \in RowState
  BY DEF Finalize, TypeOK, Answers
<1> QED BY <1>1, RowMoves DEF Finalize, TypeOK

(* A row is settled for good unless a relay still holds a claim of it, one it
   has outlived. *)
UnlessHeld ==
    \A r \in Rows :
        /\ Settled(r)
        /\ \A w \in Relays, n \in 1..MaxAttempts : ~Holds(w, r, n)
        => /\ outbox'[r].status = outbox[r].status
           /\ outbox'[r].error = outbox[r].error

SettledUnlessHeld == [][UnlessHeld]_vars

(* A late answer may cost a spent row its dead letter, but not its count: no
   claim is numbered above it, so none lowers the ceiling. *)
LEMMA CeilingStep ==
    TypeOK /\ EachClaimOnce /\ DeadLetterAtCeiling /\ [Next]_vars
        => DeadLetterAtCeiling' /\ UnlessHeld
<1> SUFFICES ASSUME TypeOK, EachClaimOnce, DeadLetterAtCeiling, [Next]_vars
             PROVE  DeadLetterAtCeiling' /\ UnlessHeld
  OBVIOUS
<1>0. \A r \in Rows : outbox[r] \in RowState
  BY DEF TypeOK
<1>1. ASSUME NEW q \in Rows, AppendEvent(q) PROVE DeadLetterAtCeiling' /\ UnlessHeld
  <2>1. \A r \in Rows : r # q => outbox'[r] = outbox[r]
    BY <1>1 DEF AppendEvent, TypeOK
  <2>2. /\ outbox[q].status = "absent"
        /\ outbox'[q].attempts = outbox[q].attempts /\ outbox'[q].error = outbox[q].error
    BY <1>0, <1>1 DEF AppendEvent, TypeOK, RowState
  <2> QED BY <2>1, <2>2 DEF DeadLetterAtCeiling, UnlessHeld, Settled
<1>2. ASSUME NEW w \in Relays, Claim(w) PROVE DeadLetterAtCeiling' /\ UnlessHeld
  <2>1. ASSUME NEW r \in Rows
        PROVE  /\ outbox'[r].error = "dead_letter" => outbox'[r].attempts = MaxAttempts
               /\ Settled(r) => outbox'[r] = outbox[r]
    <3>1. outbox[r].error = "dead_letter" => outbox[r].attempts = MaxAttempts
      BY DEF DeadLetterAtCeiling
    <3>2. MaxAttempts \in Nat
      BY RelayAssumption
    <3> QED BY <1>2, <3>1, <3>2, ClaimRow DEF Settled
  <2> QED BY <2>1 DEF DeadLetterAtCeiling, UnlessHeld
<1>3. ASSUME NEW w \in Relays, Finalize(w) PROVE DeadLetterAtCeiling' /\ UnlessHeld
  <2> DEFINE a == relay[w].answer
  <2>1. /\ a # NoAnswer /\ a.row \in Rows /\ a.attempt \in 1..MaxAttempts
        /\ outbox'[a.row] = Finalized(outbox[a.row], a)
        /\ outbox'[a.row].attempts = outbox[a.row].attempts
        /\ \A r \in Rows : r # a.row => outbox'[r] = outbox[r]
    BY <1>3, FinalizeRow
  <2>2. Holds(w, a.row, a.attempt) /\ a.attempt <= outbox[a.row].attempts
    BY <2>1 DEF Holds, EachClaimOnce
  <2>3. outbox'[a.row].error = "dead_letter" => outbox'[a.row].attempts = MaxAttempts
    <3>1. \/ outbox'[a.row].error = outbox[a.row].error
          \/ outbox'[a.row].error = "unavailable"
          \/ a.attempt >= MaxAttempts
      BY <1>0, <2>1 DEF Finalized, RowState
    <3>2. outbox[a.row].attempts \in 0..MaxAttempts /\ MaxAttempts \in Nat
      BY <1>0, <2>1, RelayAssumption DEF RowState
    <3> QED BY <2>1, <2>2, <3>1, <3>2 DEF DeadLetterAtCeiling
  <2>4. DeadLetterAtCeiling'
    BY <2>1, <2>3 DEF DeadLetterAtCeiling
  <2>5. UnlessHeld
    BY <2>1, <2>2 DEF UnlessHeld
  <2> QED BY <2>4, <2>5
<1>4. ASSUME UNCHANGED outbox PROVE DeadLetterAtCeiling' /\ UnlessHeld
  BY <1>4 DEF DeadLetterAtCeiling, UnlessHeld
<1>5. CASE Tick
  <2>1. \A r \in Rows : /\ outbox'[r].status = outbox[r].status
                        /\ outbox'[r].attempts = outbox[r].attempts
                        /\ outbox'[r].error = outbox[r].error
    BY <1>0, <1>5 DEF Tick, RowState
  <2> QED BY <2>1 DEF DeadLetterAtCeiling, UnlessHeld
<1> QED BY <1>1, <1>2, <1>3, <1>4, <1>5 DEF Next, RelayStep, Deliver, Crash, vars

(* Any number of relays: a delivered or dead-lettered row is taken up or
   reported anew only while some relay holds a claim of it that it outlived. *)
THEOREM OnlyHoldersUnsettle == Spec => SettledUnlessHeld
<1>1. Init => DeadLetterAtCeiling
  BY DEF Init, DeadLetterAtCeiling
<1>2. TypeOK /\ EachClaimOnce /\ DeadLetterAtCeiling /\ [Next]_vars
        => DeadLetterAtCeiling' /\ [UnlessHeld]_vars
  BY CeilingStep
<1> QED BY <1>1, <1>2, Typing, Exclusion, PTL DEF Spec, SettledUnlessHeld

-----------------------------------------------------------------------------
(* With one relay, the row of a claim it holds is still as the claim left it. *)
HeldIsCurrent ==
    \A w \in Relays, r \in Rows, n \in 1..MaxAttempts :
        Holds(w, r, n) => outbox[r].status = "in_flight" /\ outbox[r].attempts = n

(* A claim being recorded is no longer waiting to be published. *)
AnswerLeftBatch ==
    \A w \in Relays, r \in Rows, n \in 1..MaxAttempts :
        relay[w].answer.row = r /\ relay[w].answer.attempt = n
            => [row |-> r, attempt |-> n] \notin relay[w].batch

SoleInv == /\ HeldIsCurrent
           /\ AnswerLeftBatch
           /\ DeadLetterAtCeiling
           /\ NoSilentAbandonment

RowIsFinal == \A r \in Rows : Settled(r) => /\ outbox'[r].status = outbox[r].status
                                            /\ outbox'[r].error = outbox[r].error

(* No step of a sole relay breaks the argument, nor moves a settled row. *)
LEMMA SoleStep ==
    ASSUME NEW w, Relays = {w}, TypeOK, SoleInv, [Next]_vars
    PROVE  SoleInv' /\ RowIsFinal
<1> USE DEF SoleInv
<1>0. \A r \in Rows : outbox[r] \in RowState
  BY DEF TypeOK
<1>1. ASSUME NEW q \in Rows, AppendEvent(q) PROVE SoleInv' /\ RowIsFinal
  <2>1. \A r \in Rows : r # q => outbox'[r] = outbox[r]
    BY <1>1 DEF AppendEvent, TypeOK
  <2>2. /\ outbox'[q].status = "pending"
        /\ outbox'[q].attempts = outbox[q].attempts
        /\ outbox'[q].error = outbox[q].error
    BY <1>0, <1>1 DEF AppendEvent, TypeOK, RowState
  <2>3. relay' = relay /\ outbox[q].status = "absent"
    BY <1>1 DEF AppendEvent
  <2>4. HeldIsCurrent'
    BY <2>1, <2>3 DEF HeldIsCurrent, Holds
  <2>5. AnswerLeftBatch'
    BY <2>3 DEF AnswerLeftBatch
  <2>6. DeadLetterAtCeiling'
    BY <2>1, <2>2 DEF DeadLetterAtCeiling
  <2>7. NoSilentAbandonment'
    BY <2>1, <2>2, <2>3 DEF NoSilentAbandonment, Holds
  <2>8. RowIsFinal
    BY <2>1, <2>3 DEF RowIsFinal, Settled
  <2> QED BY <2>4, <2>5, <2>6, <2>7, <2>8
<1>2. ASSUME Claim(w) PROVE SoleInv' /\ RowIsFinal
  <2>1. ASSUME NEW r \in Rows
        PROVE  \/ /\ r \in Batch /\ outbox[r].attempts < MaxAttempts
                  /\ outbox'[r].status = "in_flight"
                  /\ outbox'[r].attempts = outbox[r].attempts + 1
                  /\ outbox'[r].error = outbox[r].error
                  /\ ~Settled(r)
               \/ /\ r \notin Batch
                  /\ outbox[r].status = "in_flight" /\ outbox'[r].status = "failed"
                  /\ outbox'[r].attempts = MaxAttempts
                  /\ outbox'[r].error = "dead_letter"
               \/ r \notin Batch /\ outbox'[r] = outbox[r]
    BY <1>2, ClaimRow DEF SoleInv
  <2>2. /\ relay[w].batch = {} /\ relay[w].answer = NoAnswer
        /\ relay'[w].answer = NoAnswer
        /\ relay'[w].batch =
                {[row |-> r, attempt |-> outbox[r].attempts + 1] : r \in Batch}
    BY <1>2 DEF Claim, Resting, TypeOK
  <2>3. ASSUME NEW r \in Rows, NEW n \in 1..MaxAttempts
        PROVE  /\ Holds(w, r, n)' => r \in Batch /\ n = outbox[r].attempts + 1
               /\ ~Holds(w, r, n)
    BY <2>2 DEF Holds
  <2>4. HeldIsCurrent'
    BY <2>1, <2>3 DEF HeldIsCurrent
  <2>5. AnswerLeftBatch'
    BY <2>2 DEF AnswerLeftBatch, NoAnswer
  <2>6. DeadLetterAtCeiling'
    BY <1>0, <2>1, RelayAssumption DEF DeadLetterAtCeiling, RowState
  <2>7. NoSilentAbandonment'
    BY <2>1, <2>3 DEF NoSilentAbandonment
  <2>8. RowIsFinal
    BY <2>1 DEF RowIsFinal, Settled
  <2> QED BY <2>4, <2>5, <2>6, <2>7, <2>8
<1>3. ASSUME NEW c \in relay[w].batch, Deliver(w, c) PROVE SoleInv' /\ RowIsFinal
  <2>1. c = [row |-> c.row, attempt |-> c.attempt]
    BY DEF TypeOK, Claims
  <2>2. /\ outbox' = outbox
        /\ relay[w].answer = NoAnswer
        /\ relay'[w].batch = relay[w].batch \ {c}
        /\ relay'[w].answer.row = c.row /\ relay'[w].answer.attempt = c.attempt
        /\ relay'[w].answer # NoAnswer
    <3>1. c.row \in Rows /\ -1 \notin Rows
      BY RelayAssumption DEF TypeOK, Claims
    <3> QED BY <1>3, <3>1 DEF Deliver, TypeOK, NoAnswer
  <2>3. \A r \in Rows, n \in 1..MaxAttempts : Holds(w, r, n)' <=> Holds(w, r, n)
    BY <2>1, <2>2 DEF Holds
  <2>4. HeldIsCurrent'
    BY <2>2, <2>3 DEF HeldIsCurrent
  <2>5. AnswerLeftBatch'
    BY <2>1, <2>2 DEF AnswerLeftBatch
  <2>6. DeadLetterAtCeiling'
    BY <2>2 DEF DeadLetterAtCeiling
  <2>7. NoSilentAbandonment'
    BY <2>2, <2>3 DEF NoSilentAbandonment
  <2>8. RowIsFinal
    BY <2>2 DEF RowIsFinal
  <2> QED BY <2>4, <2>5, <2>6, <2>7, <2>8
<1>4. ASSUME Finalize(w) PROVE SoleInv' /\ RowIsFinal
  <2> DEFINE answer == relay[w].answer
  <2>1. /\ answer \in Answers /\ answer # NoAnswer
        /\ answer.row \in Rows /\ answer.attempt \in 1..MaxAttempts
    BY <1>4 DEF Finalize, TypeOK, Answers
  <2>2. /\ outbox'[answer.row] = Finalized(outbox[answer.row], answer)
        /\ \A r \in Rows : r # answer.row => outbox'[r] = outbox[r]
        /\ relay'[w].batch = relay[w].batch /\ relay'[w].answer = NoAnswer
    BY <1>4, <2>1 DEF Finalize, TypeOK
  <2>3. /\ outbox[answer.row].status = "in_flight"
        /\ outbox[answer.row].attempts = answer.attempt
    <3>1. Holds(w, answer.row, answer.attempt)
      BY <2>1 DEF Holds
    <3> QED BY <2>1, <3>1 DEF HeldIsCurrent
  <2>4. /\ outbox'[answer.row].attempts = answer.attempt
        /\ \/ outbox'[answer.row].status = "delivered"
              /\ outbox'[answer.row].error = outbox[answer.row].error
           \/ outbox'[answer.row].error = "dead_letter" /\ answer.attempt = MaxAttempts
           \/ outbox'[answer.row].error = "unavailable" /\ answer.attempt # MaxAttempts
    BY <1>0, <2>1, <2>2, <2>3, RelayAssumption DEF Finalized, DeadLettered, RowState
  <2>5. ASSUME NEW r \in Rows, NEW n \in 1..MaxAttempts
        PROVE  /\ Holds(w, r, n)' => Holds(w, r, n) /\ r # answer.row
               /\ Holds(w, r, n) /\ r # answer.row => Holds(w, r, n)'
    <3>1. Holds(w, r, n)' <=> [row |-> r, attempt |-> n] \in relay[w].batch
      BY <2>2 DEF Holds
    <3>2. CASE r = answer.row
      BY <2>1, <2>3, <3>1, <3>2 DEF HeldIsCurrent, AnswerLeftBatch, Holds
    <3>3. CASE r # answer.row
      BY <3>1, <3>3 DEF Holds
    <3> QED BY <3>2, <3>3
  <2>6. HeldIsCurrent'
    BY <2>2, <2>5 DEF HeldIsCurrent
  <2>7. AnswerLeftBatch'
    BY <2>2, RelayAssumption DEF AnswerLeftBatch, NoAnswer
  <2>8. DeadLetterAtCeiling'
    BY <2>2, <2>3, <2>4 DEF DeadLetterAtCeiling
  <2>9. NoSilentAbandonment'
    BY <2>2, <2>4, <2>5 DEF NoSilentAbandonment
  <2>10. RowIsFinal
    BY <2>2, <2>3 DEF RowIsFinal, Settled
  <2> QED BY <2>6, <2>7, <2>8, <2>9, <2>10
<1>5. ASSUME Crash(w) PROVE SoleInv' /\ RowIsFinal
  <2>1. outbox' = outbox /\ relay'[w].batch = {} /\ relay'[w].answer = NoAnswer
    BY <1>5 DEF Crash, TypeOK
  <2>2. \A r \in Rows, n \in 1..MaxAttempts : ~Holds(w, r, n)'
    BY <2>1 DEF Holds
  <2>3. NoSilentAbandonment'
    BY <2>1 DEF NoSilentAbandonment, HeldIsCurrent
  <2> QED BY <2>1, <2>2, <2>3
          DEF HeldIsCurrent, AnswerLeftBatch, DeadLetterAtCeiling, RowIsFinal
<1>6. CASE Tick
  <2>1. /\ relay' = relay
        /\ \A r \in Rows : /\ outbox'[r].status = outbox[r].status
                           /\ outbox'[r].attempts = outbox[r].attempts
                           /\ outbox'[r].error = outbox[r].error
    BY <1>0, <1>6 DEF Tick, RowState
  <2> QED BY <2>1 DEF HeldIsCurrent, AnswerLeftBatch, DeadLetterAtCeiling,
                      NoSilentAbandonment, RowIsFinal, Holds
<1>7. CASE UNCHANGED vars
  BY <1>7 DEF vars, HeldIsCurrent, AnswerLeftBatch, DeadLetterAtCeiling,
              NoSilentAbandonment, RowIsFinal, Holds
<1> QED BY <1>1, <1>2, <1>3, <1>4, <1>5, <1>6, <1>7 DEF Next, RelayStep

(* One relay starts with nothing claimed and nothing written. *)
LEMMA SoleInit == Init => SoleInv
BY RelayAssumption
DEF Init, SoleInv, HeldIsCurrent, AnswerLeftBatch, DeadLetterAtCeiling,
    NoSilentAbandonment, Holds, NoAnswer

(* A relay that shares the table with no other never leaves a spent row merely
   failed, wherever it dies: what it or its sweep gives up on is dead-lettered. *)
THEOREM SoleRelayNeverSilent ==
    ASSUME NEW w, Relays = {w} PROVE Spec => []NoSilentAbandonment
<1>1. TypeOK /\ SoleInv /\ [Next]_vars => SoleInv'
  BY SoleStep
<1>2. SoleInv => NoSilentAbandonment
  BY DEF SoleInv
<1> QED BY <1>1, <1>2, SoleInit, Typing, PTL DEF Spec

(* Nor does it ever take up, or report anew, a row that has settled. *)
THEOREM SoleRelayIsFinal ==
    ASSUME NEW w, Relays = {w} PROVE Spec => SettledIsFinal
<1>1. TypeOK /\ SoleInv /\ [Next]_vars => SoleInv' /\ [RowIsFinal]_vars
  BY SoleStep
<1>2. RowIsFinal <=> \A r \in Rows : Settled(r) =>
                        /\ outbox'[r].status = outbox[r].status
                        /\ outbox'[r].error = outbox[r].error
  BY DEF RowIsFinal
<1> QED BY <1>1, <1>2, SoleInit, Typing, PTL DEF Spec, SettledIsFinal

-----------------------------------------------------------------------------
(* With one relay the outbox implements AtLeastOnce. *)

(* A dead letter is never taken up, so its row still reads failed. *)
DeadIsFailed == \A r \in Rows : outbox[r].error = "dead_letter" => outbox[r].status = "failed"

SoleTypedInv == /\ TypeOK /\ SoleInv /\ EachClaimOnce /\ DeliveryInv /\ DeadIsFailed

owed == <<[r \in Rows |-> outbox[r].attempts], published, [r \in Rows |-> Fate(r)]>>

(* The row of a claim a sole relay holds is open, at that attempt. *)
LEMMA HeldIsOpen ==
    ASSUME SoleTypedInv, NEW w \in Relays, NEW r \in Rows, NEW n \in 1..MaxAttempts,
           Holds(w, r, n)
    PROVE  Fate(r) = "open" /\ outbox[r].attempts = n
BY DEF SoleTypedInv, SoleInv, HeldIsCurrent, DeadIsFailed, Fate

(* What no one settles or takes up is owed what it was. *)
LEMMA OwedStays ==
    ASSUME published' = published,
           \A r \in Rows : outbox'[r].attempts = outbox[r].attempts /\ Fate(r)' = Fate(r)
    PROVE  UNCHANGED owed
BY DEF owed

LEMMA ClaimOwes ==
    ASSUME SoleTypedInv, NEW w \in Relays, Claim(w)
    PROVE  A!Next /\ DeadIsFailed'
<1> DEFINE spent == {r \in Rows : outbox[r].error # "dead_letter"
                                    /\ outbox'[r].error = "dead_letter"}
<1>1. ASSUME NEW r \in Rows
      PROVE  \/ /\ r \in Batch /\ r \notin spent
                /\ Fate(r) = "open" /\ outbox[r].attempts < MaxAttempts
                /\ Fate(r)' = "open" /\ outbox'[r].attempts = outbox[r].attempts + 1
                /\ outbox'[r].error # "dead_letter"
             \/ /\ r \notin Batch /\ r \in spent
                /\ Fate(r) = "open" /\ outbox[r].attempts = MaxAttempts
                /\ Fate(r)' = "given_up" /\ outbox'[r].attempts = outbox[r].attempts
                /\ outbox'[r].status = "failed"
             \/ r \notin Batch /\ r \notin spent /\ outbox'[r] = outbox[r]
  <2>1. outbox[r].error = "dead_letter" => Settled(r) /\ outbox[r].status = "failed"
    BY DEF SoleTypedInv, DeadIsFailed, Settled
  <2> QED BY <2>1, ClaimRow DEF SoleTypedInv, SoleInv, Fate, Settled
<1>2. DeadIsFailed'
  BY <1>1 DEF DeadIsFailed, SoleTypedInv
<1>3. ASSUME NEW r \in Rows, r \notin Batch, r \notin spent PROVE Fate(r)' = Fate(r)
  BY <1>1, <1>3 DEF Fate
<1>4. Batch \subseteq Rows /\ spent \subseteq Rows
  BY DEF Batch
<1> HIDE DEF spent
<1> PICK b \in SUBSET Rows, s \in SUBSET Rows : b = Batch /\ s = spent
  BY <1>4
<1>5. /\ \A r \in b : Fate(r) = "open" /\ outbox[r].attempts < MaxAttempts
      /\ \A r \in s : Fate(r) = "open" /\ outbox[r].attempts = MaxAttempts
      /\ \A r \in Rows : outbox'[r].attempts
            = IF r \in b THEN outbox[r].attempts + 1 ELSE outbox[r].attempts
      /\ \A r \in Rows : Fate(r)' = IF r \in s THEN "given_up" ELSE Fate(r)
  BY <1>1, <1>3
<1>6. A!Begin(b, s)
  BY <1>5 DEF A!Begin, Claim
<1> QED BY <1>2, <1>6 DEF A!Next

LEMMA DeliverOwes ==
    ASSUME SoleTypedInv, NEW w \in Relays, NEW c \in relay[w].batch, Deliver(w, c)
    PROVE  [A!Next]_owed /\ DeadIsFailed'
<1>1. /\ c.row \in Rows /\ c.attempt \in 1..MaxAttempts
      /\ c = [row |-> c.row, attempt |-> c.attempt]
      /\ outbox' = outbox /\ published \in [Rows -> SUBSET (1..MaxAttempts)]
  BY DEF SoleTypedInv, TypeOK, Claims, Deliver
<1>2. DeadIsFailed' /\ \A r \in Rows : Fate(r)' = Fate(r)
  BY <1>1 DEF SoleTypedInv, DeadIsFailed, Fate
<1>3. Holds(w, c.row, c.attempt)
  BY <1>1 DEF Holds
<1>4. /\ Fate(c.row) = "open" /\ outbox[c.row].attempts = c.attempt
      /\ c.attempt \notin published[c.row]
  BY <1>1, <1>3, HeldIsOpen DEF SoleTypedInv, EachClaimOnce
<1>5. CASE published' = published
  BY <1>1, <1>2, <1>5, OwedStays
<1>6. CASE published' = [published EXCEPT ![c.row] = @ \cup {c.attempt}]
  BY <1>1, <1>2, <1>4, <1>6 DEF A!Next, A!Publish
<1> QED BY <1>2, <1>5, <1>6 DEF Deliver

LEMMA FinalizeOwes ==
    ASSUME SoleTypedInv, NEW w \in Relays, Finalize(w)
    PROVE  [A!Next]_owed /\ DeadIsFailed'
<1> PICK a \in Answers, q \in Rows : a = relay[w].answer /\ q = a.row
  BY FinalizeRow DEF SoleTypedInv, TypeOK
<1>1. /\ a # NoAnswer /\ q = a.row /\ a.attempt \in 1..MaxAttempts
      /\ outbox'[q] = Finalized(outbox[q], a)
      /\ outbox'[q].attempts = outbox[q].attempts
      /\ \A r \in Rows : r # q => outbox'[r] = outbox[r]
  BY FinalizeRow DEF SoleTypedInv
<1>2. /\ published' = published /\ outbox[q] \in RowState
      /\ MaxAttempts \in Nat
  BY <1>1, RelayAssumption DEF SoleTypedInv, TypeOK, Finalize
<1>3. /\ Fate(q) = "open" /\ outbox[q].attempts = a.attempt
      /\ a.ok => a.attempt \in published[q]
  BY <1>1, HeldIsOpen DEF Holds, SoleTypedInv, DeliveryInv, AnswersArePublished
<1>4. \/ a.ok /\ outbox'[q].status = "delivered"
              /\ outbox'[q].error = outbox[q].error
      \/ a.attempt = MaxAttempts /\ outbox'[q].status = "failed"
                                 /\ outbox'[q].error = "dead_letter"
      \/ outbox'[q].status = "failed" /\ outbox'[q].error = "unavailable"
  BY <1>1, <1>2 DEF Finalized, DeadLettered, RowState
<1>5. outbox[q].error # "dead_letter"
  BY <1>3 DEF Fate
<1>6. DeadIsFailed'
  BY <1>1, <1>4, <1>5 DEF DeadIsFailed, SoleTypedInv
<1>7. \A r \in Rows : r # q => Fate(r)' = Fate(r)
  BY <1>1 DEF Fate
<1>8. /\ [r \in Rows |-> outbox'[r].attempts] = [r \in Rows |-> outbox[r].attempts]
      /\ [r \in Rows |-> Fate(r)]' = [[r \in Rows |-> Fate(r)] EXCEPT ![q] = Fate(q)']
  BY <1>1, <1>7
<1>9. \/ Fate(q)' = "delivered" /\ a.ok
      \/ Fate(q)' = "given_up" /\ a.attempt = MaxAttempts
      \/ Fate(q)' = "open"
  BY <1>4 DEF Fate
<1>10. CASE Fate(q)' = "open"
  BY <1>1, <1>2, <1>3, <1>6, <1>7, <1>10, OwedStays
<1>11. CASE Fate(q)' # "open"
  <2>1. A!Settle(q)
    BY <1>1, <1>2, <1>3, <1>8, <1>9, <1>11 DEF A!Settle
  <2> QED BY <1>6, <2>1 DEF A!Next
<1> QED BY <1>10, <1>11

(* Each step of a sole relay, of the log writer and of the clock is one that
   the promise allows, or owes its rows what they were owed. *)
LEMMA OwedStep ==
    ASSUME NEW w, Relays = {w}
    PROVE  SoleTypedInv /\ [Next]_vars => [A!Next]_owed /\ DeadIsFailed'
<1> SUFFICES ASSUME SoleTypedInv, [Next]_vars PROVE [A!Next]_owed /\ DeadIsFailed'
  OBVIOUS
<1>0. outbox \in [Rows -> RowState]
  BY DEF SoleTypedInv, TypeOK
<1>1. ASSUME published' = published,
             \A r \in Rows : /\ outbox'[r].attempts = outbox[r].attempts
                             /\ outbox'[r].error = outbox[r].error
                             /\ \/ outbox'[r].status = outbox[r].status
                                \/ outbox[r].status = "absent" /\ outbox'[r].status = "pending"
      PROVE  [A!Next]_owed /\ DeadIsFailed'
  <2>1. \A r \in Rows : Fate(r)' = Fate(r)
    BY <1>1 DEF Fate
  <2>2. DeadIsFailed'
    BY <1>1 DEF DeadIsFailed, SoleTypedInv
  <2> QED BY <1>1, <2>1, <2>2, OwedStays
<1>2. ASSUME NEW q \in Rows, AppendEvent(q) PROVE [A!Next]_owed /\ DeadIsFailed'
  <2>1. /\ \A r \in Rows : r # q => outbox'[r] = outbox[r]
        /\ outbox'[q].attempts = outbox[q].attempts
        /\ outbox'[q].error = outbox[q].error
        /\ outbox[q].status = "absent" /\ outbox'[q].status = "pending"
    BY <1>0, <1>2 DEF AppendEvent, RowState
  <2> QED BY <1>1, <1>2, <2>1 DEF AppendEvent
<1>3. CASE Claim(w)
  BY <1>3, ClaimOwes
<1>4. ASSUME NEW c \in relay[w].batch, Deliver(w, c) PROVE [A!Next]_owed /\ DeadIsFailed'
  BY <1>4, DeliverOwes
<1>5. CASE Finalize(w)
  BY <1>5, FinalizeOwes
<1>6. CASE Crash(w) \/ UNCHANGED vars
  BY <1>1, <1>6 DEF Crash, vars
<1>7. CASE Tick
  <2>1. \A r \in Rows : /\ outbox'[r].attempts = outbox[r].attempts
                        /\ outbox'[r].error = outbox[r].error
                        /\ outbox'[r].status = outbox[r].status
    BY <1>0, <1>7 DEF Tick, RowState
  <2> QED BY <1>1, <1>7, <2>1 DEF Tick
<1> QED BY <1>2, <1>3, <1>4, <1>5, <1>6, <1>7 DEF Next, RelayStep

(* A relay that drains the table alone, dying anywhere, tries each event a
   bounded number of times, publishes no try twice, and settles it once and
   truthfully: it implements AtLeastOnce. *)
THEOREM SoleRelayDelivers ==
    ASSUME NEW w, Relays = {w} PROVE Spec => DeliversAtLeastOnce
<1>1. Init => SoleTypedInv /\ A!Init
  <2>1. Init => DeliveryInv /\ EachClaimOnce /\ DeadIsFailed
    BY DEF Init, DeliveryInv, DeliveredWasPublished, AnswersArePublished, EachClaimOnce,
           Holds, NoAnswer, DeadIsFailed
  <2>2. Init => A!Init
    BY DEF Init, A!Init, Fate
  <2> QED BY <2>1, <2>2, TypeInit, SoleInit DEF SoleTypedInv
<1>2. SoleTypedInv /\ [Next]_vars => SoleTypedInv'
  BY TypeStep, SoleStep, ClaimStep, DeliveryStep, OwedStep DEF SoleTypedInv
<1>3. SoleTypedInv /\ [Next]_vars
        => [A!Next]_<<[r \in Rows |-> outbox[r].attempts], published,
                      [r \in Rows |-> Fate(r)]>>
  BY OwedStep DEF owed
<1> QED BY <1>1, <1>2, <1>3, PTL DEF Spec, DeliversAtLeastOnce, A!Spec
==============================================================================

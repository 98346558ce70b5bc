------------------------ MODULE AdaptiveRoutingProofs ------------------------
(***************************************************************************)
(* Proofs about AdaptiveRouting, for any outcomes, routers and deliveries, *)
(* any retry limits, any ages and skews, and any wait before a write.      *)
(***************************************************************************)
EXTENDS AdaptiveRouting, TLAPS

(* What a delivery k in the state given by the other arguments is good for: it
   names its outcome, it was judged eligible only for an outcome that is dated
   no further ahead than the skew, what it loaded is the stored state or an earlier
   revision of it, and its answer is true. *)
Sum(snapshot, o) == snapshot.learned[o] + snapshot.noted[o]

Good(k, now, recorded, snapshot) ==
    /\ k.pc # "out" => k.outcome \in Outcomes /\ k.router \in Routers
    /\ k.pc \in {"queued", "writing", "backoff"} /\ k.eligible =>
        recorded[k.outcome] - now <= Skew
    /\ k.pc = "writing" =>
        /\ k.base.revision <= snapshot.revision
        /\ k.base.revision = snapshot.revision => k.base = snapshot
    /\ k.status \in {"applied", "duplicate"} =>
        k.outcome \in Outcomes /\ Sum(snapshot, k.outcome) >= 1

(* The stored state counts an outcome when it has a marker, keeps what it
   learned, and its marker is at most the skew older than the outcome. *)
Counted ==
    \A o \in Outcomes :
        /\ marker[o] >= 0 <=> Sum(stored, o) >= 1
        /\ stored.learned[o] >= 1 => recordedAt[o] - marker[o] <= Skew
        /\ o \in landed => stored.learned[o] >= 1

Inv == TypeOK /\ Counted /\ \A c \in Calls : Good(call[c], clock, recordedAt, stored)

(* What a step may do to the stored state: leave it, or move it to the next
   revision with one more application. *)
LEMMA AppliedOnce ==
    ASSUME NEW s \in Snapshot, NEW o \in Outcomes, NEW e \in BOOLEAN
    PROVE  /\ Applied(s, o, e) \in Snapshot
           /\ Applied(s, o, e).revision = s.revision + 1
           /\ \A p \in Outcomes : Applied(s, o, e).learned[p] =
                IF p = o /\ e THEN s.learned[p] + 1 ELSE s.learned[p]
           /\ \A p \in Outcomes : Applied(s, o, e).noted[p] =
                IF p = o /\ ~e THEN s.noted[p] + 1 ELSE s.noted[p]
<1>1. s.learned \in [Outcomes -> Nat] /\ s.noted \in [Outcomes -> Nat] /\ s.revision \in Nat
  BY DEF Snapshot
<1> QED BY <1>1 DEF Applied, Snapshot

(* A delivery that does not move stays good when the stored state moves on. *)
LEMMA StaysGood ==
    ASSUME NEW k \in Delivery, NEW now \in Nat, NEW recorded, NEW s \in Snapshot,
           NEW t \in Snapshot, Good(k, now, recorded, s),
           t = s \/ (t.revision = s.revision + 1
                     /\ \A p \in Outcomes : Sum(t, p) >= Sum(s, p))
    PROVE  Good(k, now, recorded, t)
<1>1. CASE t = s
  BY <1>1
<1>2. CASE t.revision = s.revision + 1 /\ \A p \in Outcomes : Sum(t, p) >= Sum(s, p)
  <2>1. k.base.revision \in Nat /\ s.revision \in Nat
    BY DEF Delivery, Snapshot
  <2>2. ASSUME NEW p \in Outcomes PROVE Sum(t, p) \in Nat /\ Sum(s, p) \in Nat
    BY DEF Sum, Snapshot
  <2> QED BY <1>2, <2>1, <2>2 DEF Good
<1> QED BY <1>1, <1>2

(* A step that moves delivery c to k, and leaves the clock alone. *)
LEMMA MovesOne ==
    ASSUME Inv, NEW c \in Calls, NEW k \in Delivery,
           call' = [call EXCEPT ![c] = k],
           UNCHANGED <<clock, recordedAt>>, stored' \in Snapshot,
           \/ stored' = stored
           \/ /\ stored'.revision = stored.revision + 1
              /\ \A p \in Outcomes : Sum(stored', p) >= Sum(stored, p),
           Good(k, clock, recordedAt, stored')
    PROVE  /\ call' \in [Calls -> Delivery]
           /\ \A d \in Calls : Good(call'[d], clock', recordedAt', stored')
<1>1. call \in [Calls -> Delivery] /\ clock \in Nat /\ stored \in Snapshot
  BY AdaptiveAssumption DEF Inv, TypeOK
<1>2. call' \in [Calls -> Delivery]
  BY <1>1
<1>3. ASSUME NEW d \in Calls PROVE Good(call'[d], clock', recordedAt', stored')
  <2>1. CASE d = c
    BY <2>1, <1>1
  <2>2. CASE d # c
    <3>1. call'[d] = call[d] /\ call[d] \in Delivery /\ Good(call[d], clock, recordedAt, stored)
      BY <2>2, <1>1 DEF Inv
    <3>2. Good(call[d], clock, recordedAt, stored')
      BY <3>1, <1>1, StaysGood
    <3> QED BY <3>1, <3>2
  <2> QED BY <2>1, <2>2
<1> QED BY <1>2, <1>3

(* A delivery that is being judged, that has failed, or that is over. *)
LEMMA EmptyTyped == Empty \in Snapshot
BY DEF Empty, NoneApplied, Snapshot

LEMMA RestingTyped ==
    ASSUME NEW pc \in {"out", "failed"}, NEW o \in Outcomes \cup {"none"},
           NEW r \in Routers \cup {"none"}, NEW delivery \in 0..Deliveries,
           NEW status \in Statuses
    PROVE  Resting(pc, o, r, delivery, status) \in Delivery
<1>1. 0 \in 0..Retries /\ 0 \in 0..MaxTime
  BY AdaptiveAssumption
<1> QED BY <1>1, EmptyTyped, ZenonT(30) DEF Resting, Delivery

LEMMA IdleTyped == Idle \in Delivery
<1>1. 0 \in 0..Deliveries /\ "none" \in Statuses
  BY AdaptiveAssumption DEF Statuses
<1> QED BY <1>1, RestingTyped DEF Idle

LEMMA AssessedMoves ==
    ASSUME Inv, NEW c \in Calls, NEW o \in Outcomes, NEW r \in Routers,
           NEW delivery \in 1..Deliveries, Assessed(c, o, r, delivery),
           UNCHANGED <<stored, clock, recordedAt>>
    PROVE  /\ call' \in [Calls -> Delivery]
           /\ \A d \in Calls : Good(call'[d], clock', recordedAt', stored')
<1> DEFINE k(e) == [pc |-> "queued", outcome |-> o, router |-> r, eligible |-> e,
                    attempt |-> 0, delivery |-> delivery,
                    base |-> Empty, status |-> "none"]
<1>1. PICK e \in BOOLEAN : (e => Fresh(o)) /\ call' = [call EXCEPT ![c] = k(e)]
  BY DEF Assessed
<1>2. clock \in 0..MaxTime /\ stored \in Snapshot
  BY DEF Inv, TypeOK
<1>3. k(e) \in Delivery
  <2>1. 0 \in 0..Retries /\ delivery \in 0..Deliveries /\ "none" \in Statuses
    BY AdaptiveAssumption DEF Statuses
  <2> QED BY <1>2, <2>1, EmptyTyped, ZenonT(30) DEF Delivery
<1>4. /\ k(e).pc = "queued" /\ k(e).outcome = o /\ k(e).router = r
      /\ k(e).eligible = e /\ k(e).status = "none"
  OBVIOUS
<1> HIDE DEF k
<1>5. Good(k(e), clock, recordedAt, stored')
  BY <1>1, <1>2, <1>4, AdaptiveAssumption DEF Good, Fresh
<1> QED BY <1>1, <1>2, <1>3, <1>5, MovesOne

LEMMA ConcludedMoves ==
    ASSUME Inv, NEW c \in Calls, NEW status \in Statuses, Concluded(c, status),
           UNCHANGED <<clock, recordedAt>>, stored' \in Snapshot,
           \/ stored' = stored
           \/ /\ stored'.revision = stored.revision + 1
              /\ \A p \in Outcomes : Sum(stored', p) >= Sum(stored, p),
           status \in {"applied", "duplicate"} =>
                call[c].outcome \in Outcomes /\ Sum(stored', call[c].outcome) >= 1
    PROVE  /\ call' \in [Calls -> Delivery]
           /\ \A d \in Calls : Good(call'[d], clock', recordedAt', stored')
<1> DEFINE k == Resting("out", call[c].outcome, "none", 0, status)
<1>1. call[c].outcome \in Outcomes \cup {"none"} /\ 0 \in 0..Deliveries
  BY AdaptiveAssumption DEF Inv, TypeOK, Delivery
<1>2. k \in Delivery /\ k.pc = "out" /\ k.outcome = call[c].outcome /\ k.status = status
  BY <1>1, RestingTyped DEF Resting
<1>3. call' = [call EXCEPT ![c] = k]
  BY DEF Concluded
<1> HIDE DEF k
<1>4. Good(k, clock, recordedAt, stored')
  BY <1>2 DEF Good
<1> QED BY <1>2, <1>3, <1>4, MovesOne

(* An answered delivery, whatever the store did meanwhile. *)
LEMMA AnsweredMoves ==
    ASSUME Inv, NEW c \in Calls, call[c].pc # "out", NEW status \in Statuses \ {"none"},
           Answered(c, status), UNCHANGED <<clock, recordedAt>>, stored' \in Snapshot,
           \/ stored' = stored
           \/ /\ stored'.revision = stored.revision + 1
              /\ \A p \in Outcomes : Sum(stored', p) >= Sum(stored, p),
           status \in {"applied", "duplicate"} => Sum(stored', call[c].outcome) >= 1
    PROVE  /\ call' \in [Calls -> Delivery]
           /\ \A d \in Calls : Good(call'[d], clock', recordedAt', stored')
<1>1. /\ call[c] \in Delivery
      /\ call[c].outcome \in Outcomes /\ call[c].router \in Routers
  BY DEF Inv, TypeOK, Good
<1>2. CASE status \in {"conflict_exhausted", "store_error"}
  <2> DEFINE k == Resting("failed", call[c].outcome, call[c].router, call[c].delivery, status)
  <2>1. k \in Delivery /\ k.pc = "failed" /\ k.outcome = call[c].outcome
        /\ k.router = call[c].router /\ k.status = status
    <3>1. call[c].delivery \in 0..Deliveries
      BY <1>1 DEF Delivery
    <3> QED BY <1>1, <3>1, RestingTyped DEF Resting
  <2>2. call' = [call EXCEPT ![c] = k]
    BY <1>2 DEF Answered
  <2> HIDE DEF k
  <2>3. Good(k, clock, recordedAt, stored')
    BY <1>1, <1>2, <2>1 DEF Good
  <2> QED BY <2>1, <2>2, <2>3, MovesOne
<1>3. CASE status \notin {"conflict_exhausted", "store_error"}
  <2>1. Concluded(c, status)
    BY <1>3 DEF Answered
  <2> QED BY <1>1, <2>1, ConcludedMoves
<1> QED BY <1>2, <1>3

(* A cancelled delivery. *)
LEMMA IdleMoves ==
    ASSUME Inv, NEW c \in Calls, call' = [call EXCEPT ![c] = Idle],
           UNCHANGED <<clock, recordedAt>>, stored' \in Snapshot,
           \/ stored' = stored
           \/ /\ stored'.revision = stored.revision + 1
              /\ \A p \in Outcomes : Sum(stored', p) >= Sum(stored, p)
    PROVE  /\ call' \in [Calls -> Delivery]
           /\ \A d \in Calls : Good(call'[d], clock', recordedAt', stored')
<1>1. Good(Idle, clock, recordedAt, stored')
  BY DEF Good, Idle, Resting
<1> QED BY <1>1, IdleTyped, MovesOne

(* The write that the script performs: it learns an outcome for the first time
   or when it is outdated, and keeps everything counted before. *)
LEMMA StoresCounts ==
    ASSUME Inv, NEW c \in Calls, call[c].pc = "writing", Stores(c),
           UNCHANGED <<clock, recordedAt>>
    PROVE  /\ stored' \in Snapshot
           /\ stored'.revision = stored.revision + 1
           /\ \A p \in Outcomes : Sum(stored', p) >= Sum(stored, p)
           /\ Sum(stored', call[c].outcome) >= 1
           /\ Counted' /\ marker' \in [Outcomes -> -1..MaxTime]
           /\ landed' \subseteq Outcomes
           /\ call[c].outcome \in Outcomes
           /\ stored' = Applied(stored, call[c].outcome, call[c].eligible)
           /\ call[c].eligible /\ stored.learned[call[c].outcome] >= 1
                => Outdated(call[c].outcome)
<1> DEFINE o == call[c].outcome  e == call[c].eligible
<1>1. /\ call[c] \in Delivery /\ stored \in Snapshot /\ clock \in 0..MaxTime
      /\ marker \in [Outcomes -> -1..MaxTime] /\ landed \subseteq Outcomes
      /\ recordedAt \in [Outcomes -> 0..Ahead]
  BY DEF Inv, TypeOK
<1>2. /\ o \in Outcomes /\ e \in BOOLEAN
      /\ e => recordedAt[o] - clock <= Skew
      /\ call[c].base.revision = stored.revision => call[c].base = stored
  BY <1>1 DEF Inv, Good, Delivery
<1>3. /\ ~Live(o) /\ stored' = Applied(stored, o, e)
      /\ marker' = [marker EXCEPT ![o] = clock]
      /\ landed' = IF e THEN landed \cup {o} ELSE landed
  BY <1>2 DEF Stores, WouldStore
<1> HIDE DEF o, e
<1>4. /\ stored' \in Snapshot
      /\ stored'.revision = stored.revision + 1
      /\ \A p \in Outcomes : stored'.learned[p] =
            IF p = o /\ e THEN stored.learned[p] + 1 ELSE stored.learned[p]
      /\ \A p \in Outcomes : stored'.noted[p] =
            IF p = o /\ ~e THEN stored.noted[p] + 1 ELSE stored.noted[p]
  BY <1>1, <1>2, <1>3, AppliedOnce
<1>5. ASSUME NEW p \in Outcomes
      PROVE stored.learned[p] \in Nat /\ stored.noted[p] \in Nat
  BY <1>1 DEF Snapshot
<1>6. e /\ stored.learned[o] >= 1 => Outdated(o)
  <2> SUFFICES ASSUME e, stored.learned[o] >= 1 PROVE Outdated(o)
    OBVIOUS
  <2>1. marker[o] >= 0 /\ recordedAt[o] - marker[o] <= Skew
    BY <1>2, <1>5 DEF Inv, Counted, Sum
  <2> QED BY <1>1, <1>2, <1>3, <2>1, AdaptiveAssumption DEF Live, Outdated
<1>7. \A p \in Outcomes : Sum(stored', p) >= Sum(stored, p)
  BY <1>4, <1>5, <1>2 DEF Sum
<1>8. Sum(stored', o) >= 1
  BY <1>4, <1>5, <1>2 DEF Sum
<1>9. ASSUME NEW p \in Outcomes
      PROVE /\ marker'[p] >= 0 <=> Sum(stored', p) >= 1
            /\ stored'.learned[p] >= 1 => recordedAt'[p] - marker'[p] <= Skew
            /\ p \in landed' => stored'.learned[p] >= 1
  <2>1. /\ marker[p] >= 0 <=> Sum(stored, p) >= 1
        /\ stored.learned[p] >= 1 => recordedAt[p] - marker[p] <= Skew
        /\ p \in landed => stored.learned[p] >= 1
    BY DEF Inv, Counted
  <2>2. CASE p = o
    <3>1. marker'[o] = clock /\ recordedAt'[o] = recordedAt[o]
      BY <1>1, <1>2, <1>3
    <3>2. stored'.learned[o] >= 1 => recordedAt[o] - clock <= Skew
      <4>1. CASE e
        BY <1>2, <4>1
      <4>2. CASE ~e
        <5>1. stored'.learned[o] = stored.learned[o]
          BY <4>2, <1>2, <1>4
        <5>2. stored.learned[o] >= 1 => marker[o] >= 0
          BY <2>1, <2>2, <1>2, <1>5 DEF Sum
        <5>3. marker[o] >= 0 => marker[o] <= clock
          BY <1>1, <1>2, <1>3, AdaptiveAssumption DEF Live
        <5> QED BY <2>1, <2>2, <5>1, <5>2, <5>3, <1>1, <1>2, AdaptiveAssumption
      <4> QED BY <4>1, <4>2
    <3> QED BY <2>1, <2>2, <3>1, <3>2, <1>1, <1>2, <1>3, <1>4, <1>5, <1>8
  <2>3. CASE p # o
    BY <2>1, <2>3, <1>1, <1>3, <1>4, <1>5 DEF Sum
  <2> QED BY <2>2, <2>3
<1>10. marker' \in [Outcomes -> -1..MaxTime] /\ landed' \subseteq Outcomes
  BY <1>1, <1>2, <1>3
<1> QED BY <1>2, <1>3, <1>4, <1>6, <1>7, <1>8, <1>9, <1>10 DEF Counted, o, e

(* A delivery that goes on in the router's hands. *)
LEMMA GoesOn ==
    ASSUME Inv, NEW c \in Calls, call[c].pc \in {"queued", "writing", "backoff"},
           UNCHANGED <<stored, clock, recordedAt>>,
           \/ call' = [call EXCEPT ![c] = [@ EXCEPT !.pc = "writing", !.base = stored]]
           \/ /\ RetriesLeft(c)
              /\ call' = [call EXCEPT ![c] =
                    [call[c] EXCEPT !.pc = "backoff", !.attempt = @ + 1, !.base = Empty]]
    PROVE  /\ call' \in [Calls -> Delivery]
           /\ \A d \in Calls : Good(call'[d], clock', recordedAt', stored')
<1>1. /\ call[c] \in Delivery /\ stored \in Snapshot /\ Good(call[c], clock, recordedAt, stored)
      /\ call \in [Calls -> Delivery]
  BY DEF Inv, TypeOK
<1>2. CASE call' = [call EXCEPT ![c] = [@ EXCEPT !.pc = "writing", !.base = stored]]
  <2> DEFINE k == [call[c] EXCEPT !.pc = "writing", !.base = stored]
  <2>1. k \in Delivery
    BY <1>1, ZenonT(30) DEF Delivery
  <2>2. Good(k, clock, recordedAt, stored')
    BY <1>1 DEF Good, Delivery, Snapshot
  <2>3. call' = [call EXCEPT ![c] = k]
    BY <1>2
  <2> HIDE DEF k
  <2> QED BY <1>1, <2>1, <2>2, <2>3, MovesOne
<1>3. CASE /\ RetriesLeft(c)
           /\ call' = [call EXCEPT ![c] =
                    [call[c] EXCEPT !.pc = "backoff", !.attempt = @ + 1, !.base = Empty]]
  <2> DEFINE k == [call[c] EXCEPT !.pc = "backoff", !.attempt = @ + 1, !.base = Empty]
  <2>1. k \in Delivery
    <3>1. call[c].attempt \in 0..Retries
      BY <1>1 DEF Delivery
    <3>2. call[c].attempt + 1 \in 0..Retries
      BY <1>3, <3>1, AdaptiveAssumption DEF RetriesLeft
    <3> QED BY <1>1, <3>2, EmptyTyped, ZenonT(30) DEF Delivery
  <2>2. Good(k, clock, recordedAt, stored')
    BY <1>1 DEF Good, Delivery
  <2>3. call' = [call EXCEPT ![c] = k]
    BY <1>3
  <2> HIDE DEF k
  <2> QED BY <1>1, <2>1, <2>2, <2>3, MovesOne
<1> QED BY <1>2, <1>3

(* A step that leaves the stored state alone leaves its counts alone. *)
LEMMA CountsStay ==
    Counted /\ UNCHANGED <<stored, marker, recordedAt, landed>> => Counted'
BY DEF Counted, Sum

LEMMA WritesKeeps == ASSUME Inv, NEW c \in Calls, Writes(c) PROVE Inv'
<1>1. /\ TypeOK /\ Counted /\ call[c].pc = "writing" /\ call[c].pc # "out"
      /\ call[c] \in Delivery /\ UNCHANGED <<clock, recordedAt>>
  BY DEF Writes, Inv, TypeOK
<1>2. faults' \in 0..MaxFaults
  BY <1>1, AdaptiveAssumption DEF Writes, Fault, TypeOK
<1>3. CASE Stores(c)
  <2>1. /\ stored' \in Snapshot
        /\ stored'.revision = stored.revision + 1
        /\ \A p \in Outcomes : Sum(stored', p) >= Sum(stored, p)
        /\ Sum(stored', call[c].outcome) >= 1
        /\ Counted' /\ marker' \in [Outcomes -> -1..MaxTime]
        /\ landed' \subseteq Outcomes
    BY <1>1, <1>3, StoresCounts
  <2>2. /\ call' \in [Calls -> Delivery]
        /\ \A d \in Calls : Good(call'[d], clock', recordedAt', stored')
    <3>1. CASE \E status \in {"applied", "store_error"} : Answered(c, status)
      BY <1>1, <2>1, <3>1, AnsweredMoves DEF Statuses
    <3>2. CASE call' = [call EXCEPT ![c] = Idle]
      BY <1>1, <2>1, <3>2, IdleMoves
    <3> QED BY <1>3, <3>1, <3>2 DEF Writes, Stores, StoresNothing
  <2> QED BY <1>1, <1>2, <2>1, <2>2 DEF Inv, TypeOK
<1>4. CASE ~Stores(c)
  <2>1. UNCHANGED <<stored, marker, landed>>
    BY <1>4 DEF Writes, StoresNothing
  <2>2. stored' \in Snapshot /\ Counted'
    BY <1>1, <2>1, CountsStay DEF TypeOK
  <2>3. /\ call' \in [Calls -> Delivery]
        /\ \A d \in Calls : Good(call'[d], clock', recordedAt', stored')
    <3>1. CASE Live(call[c].outcome) /\ Answered(c, "duplicate")
      <4>1. call[c].outcome \in Outcomes
        BY <1>1 DEF Inv, Good
      <4>2. Sum(stored', call[c].outcome) >= 1
        BY <1>1, <2>1, <3>1, <4>1 DEF Live, Counted
      <4> QED BY <1>1, <2>1, <2>2, <3>1, <4>2, AnsweredMoves DEF Statuses
    <3>2. CASE \E status \in {"conflict_exhausted", "store_error"} : Answered(c, status)
      BY <1>1, <2>1, <2>2, <3>2, AnsweredMoves DEF Statuses
    <3>3. CASE /\ RetriesLeft(c)
               /\ call' = [call EXCEPT ![c] =
                    [call[c] EXCEPT !.pc = "backoff", !.attempt = @ + 1, !.base = Empty]]
      BY <1>1, <2>1, <3>3, GoesOn
    <3>4. CASE call' = [call EXCEPT ![c] = Idle]
      BY <1>1, <2>1, <2>2, <3>4, IdleMoves
    <3> QED BY <1>4, <3>1, <3>2, <3>3, <3>4 DEF Writes
  <2> QED BY <1>1, <1>2, <2>1, <2>2, <2>3 DEF Inv, TypeOK
<1> QED BY <1>3, <1>4

LEMMA InvInit == Init => Inv
<1> SUFFICES ASSUME Init PROVE Inv
  OBVIOUS
<1>1. TypeOK
  BY EmptyTyped, IdleTyped, AdaptiveAssumption DEF Init, TypeOK
<1>2. Counted
  <2>1. ASSUME NEW o \in Outcomes
        PROVE  marker[o] = -1 /\ stored.learned[o] = 0 /\ stored.noted[o] = 0
    BY DEF Init, Empty, NoneApplied
  <2>2. landed = {}
    BY DEF Init
  <2>3. ASSUME NEW o \in Outcomes
        PROVE  ~(marker[o] >= 0) /\ ~(Sum(stored, o) >= 1) /\ ~(stored.learned[o] >= 1)
    BY <2>1 DEF Sum
  <2> QED BY <2>2, <2>3 DEF Counted
<1>3. ASSUME NEW c \in Calls PROVE Good(call[c], clock, recordedAt, stored)
  BY DEF Init, Good, Idle, Resting
<1> QED BY <1>1, <1>2, <1>3 DEF Inv

LEMMA InvStep == Inv /\ [Next]_vars => Inv'
<1> SUFFICES ASSUME Inv, [Next]_vars PROVE Inv'
  OBVIOUS
<1> DEFINE Moves == /\ call' \in [Calls -> Delivery]
                    /\ \A d \in Calls : Good(call'[d], clock', recordedAt', stored')
<1>t. TypeOK /\ Counted /\ stored \in Snapshot /\ call \in [Calls -> Delivery]
  BY DEF Inv, TypeOK
<1>k. ASSUME UNCHANGED <<stored, marker, recordedAt, landed, clock>>,
             faults' \in 0..MaxFaults, Moves
      PROVE  Inv'
  BY <1>t, <1>k, CountsStay DEF Inv, TypeOK
<1>f. ASSUME Fault PROVE faults' \in 0..MaxFaults
  BY <1>t, <1>f, AdaptiveAssumption DEF Fault, TypeOK
<1>1. ASSUME NEW c \in Calls, NEW o \in Outcomes, NEW r \in Routers, Record(c, o, r)
      PROVE  Inv'
  <2>1. 1 \in 1..Deliveries
    BY AdaptiveAssumption
  <2>2. Moves
    BY <1>1, <2>1, AssessedMoves DEF Record
  <2> QED BY <1>1, <1>k, <1>t, <2>2 DEF Record, TypeOK
<1>2. ASSUME NEW c \in Calls, Redeliver(c) PROVE Inv'
  <2>1. /\ call[c].delivery + 1 \in 1..Deliveries
        /\ call[c].outcome \in Outcomes /\ call[c].router \in Routers
    <3>1. call[c].delivery \in 0..Deliveries /\ call[c].delivery < Deliveries
      BY <1>2, <1>t DEF Redeliver, Delivery
    <3>2. call[c].delivery + 1 \in 1..Deliveries
      BY <3>1, AdaptiveAssumption
    <3> QED BY <1>2, <3>2 DEF Redeliver, Inv, Good
  <2>2. Moves
    BY <1>2, <2>1, AssessedMoves DEF Redeliver
  <2> QED BY <1>2, <1>k, <1>t, <2>2 DEF Redeliver, TypeOK
<1>3. ASSUME NEW c \in Calls, GivesUp(c) PROVE Inv'
  <2>1. /\ call[c].status \in Statuses
        /\ call[c].status \in {"applied", "duplicate"} =>
                call[c].outcome \in Outcomes /\ Sum(stored, call[c].outcome) >= 1
    BY <1>t DEF Inv, Good, Delivery
  <2>2. Moves
    BY <1>3, <1>t, <2>1, ConcludedMoves DEF GivesUp
  <2> QED BY <1>3, <1>k, <1>t, <2>2 DEF GivesUp, TypeOK
<1>4. ASSUME NEW c \in Calls, Loads(c) PROVE Inv'
  <2>1. call[c].pc \in {"queued", "writing", "backoff"} /\ call[c].pc # "out"
    BY <1>4 DEF Loads
  <2>2. CASE call' = [call EXCEPT ![c] = [@ EXCEPT !.pc = "writing", !.base = stored]]
             /\ UNCHANGED faults
    <3>1. Moves
      BY <1>4, <2>1, <2>2, GoesOn DEF Loads
    <3> QED BY <1>4, <1>k, <1>t, <2>2, <3>1 DEF Loads, TypeOK
  <2>3. CASE Fault /\ Answered(c, "store_error")
    <3>1. Moves
      BY <1>4, <1>t, <2>1, <2>3, AnsweredMoves DEF Loads, Statuses
    <3> QED BY <1>4, <1>k, <1>f, <2>3, <3>1 DEF Loads
  <2> QED BY <1>4, <2>2, <2>3 DEF Loads
<1>5. ASSUME NEW c \in Calls, Cancelled(c) PROVE Inv'
  <2>1. Moves
    BY <1>5, <1>t, IdleMoves DEF Cancelled
  <2> QED BY <1>5, <1>k, <1>f, <2>1 DEF Cancelled
<1>6. CASE Tick
  <2>1. clock \in 0..MaxTime /\ clock' = clock + 1 /\ clock < MaxTime /\ MaxTime \in Nat
    BY <1>6, AdaptiveAssumption DEF Tick, Inv, TypeOK
  <2>2. UNCHANGED <<stored, marker, recordedAt, call, landed, faults>>
    BY <1>6 DEF Tick
  <2>3. ASSUME NEW d \in Calls PROVE Good(call'[d], clock', recordedAt', stored')
    <3>1. Good(call[d], clock, recordedAt, stored) /\ recordedAt \in [Outcomes -> 0..Ahead]
      BY <1>t DEF Inv, TypeOK
    <3>2. call[d].pc # "out" => call[d].outcome \in Outcomes
      BY <3>1 DEF Good
    <3>3. \A o \in Outcomes : recordedAt[o] - clock <= Skew => recordedAt[o] - clock' <= Skew
      BY <2>1, <3>1, AdaptiveAssumption
    <3> QED BY <2>2, <3>1, <3>2, <3>3 DEF Good
  <2>4. clock' \in 0..MaxTime
    BY <2>1
  <2> QED BY <1>t, <2>2, <2>3, <2>4, CountsStay DEF Inv, TypeOK
<1>7. CASE UNCHANGED vars
  BY <1>7, <1>t, CountsStay DEF vars, Inv, TypeOK
<1> QED BY <1>1, <1>2, <1>3, <1>4, <1>5, <1>6, <1>7, WritesKeeps DEF Next

(* Invariance, from which the theorems follow. *)
LEMMA AlwaysInv == Spec => []Inv
BY InvInit, InvStep, PTL DEF Spec

(* Whatever is lost, repeated or late, every variable keeps its type: retries
   and deliveries in particular stay within their limits. *)
THEOREM AdaptiveIsTyped == Spec => []TypeOK
<1>1. Inv => TypeOK
  BY DEF Inv
<1> QED BY <1>1, AlwaysInv, PTL

(* However long a delivery waits between its judgement and its write, and
   however far ahead outcomes are dated, an outcome learned from is learned
   again only when it is too old to be judged eligible: the retention of the
   marker outlasts the eligibility of what it guards. *)
THEOREM RelearnedOnlyIfOutdated == Spec => RelearnsOnlyOutdated
<1> DEFINE A == \A o \in Outcomes :
        0 < stored.learned[o] /\ stored.learned[o] < stored'.learned[o] => Outdated(o)
<1>1. Inv /\ [Next]_vars => [A]_vars
  <2> SUFFICES ASSUME Inv, Next PROVE A
    OBVIOUS
  <2>0. stored \in Snapshot /\ \A o \in Outcomes : stored.learned[o] \in Nat
    BY DEF Inv, TypeOK, Snapshot
  <2>1. CASE UNCHANGED stored
    BY <2>0, <2>1
  <2>2. ASSUME NEW c \in Calls, Writes(c), Stores(c) PROVE A
    <3>1. /\ call[c].pc = "writing" /\ UNCHANGED <<clock, recordedAt>>
          /\ call[c].eligible \in BOOLEAN
      BY <2>2 DEF Writes, Inv, TypeOK, Delivery
    <3>2. /\ call[c].outcome \in Outcomes
          /\ stored' = Applied(stored, call[c].outcome, call[c].eligible)
          /\ call[c].eligible /\ stored.learned[call[c].outcome] >= 1
                => Outdated(call[c].outcome)
      BY <2>2, <3>1, StoresCounts
    <3>3. \A o \in Outcomes : stored'.learned[o] =
            IF o = call[c].outcome /\ call[c].eligible
            THEN stored.learned[o] + 1 ELSE stored.learned[o]
      BY <2>0, <3>1, <3>2, AppliedOnce
    <3> QED BY <2>0, <3>1, <3>2, <3>3
  <2> QED BY <2>1, <2>2
          DEF Next, Record, Redeliver, GivesUp, Loads, Writes, StoresNothing, Cancelled, Tick
<1> QED BY <1>1, AlwaysInv, PTL DEF Spec, RelearnsOnlyOutdated

(* What one router wrote, no other router's write removes. *)
THEOREM NothingIsOverwritten == Spec => []NoLostUpdate
<1>1. Inv => NoLostUpdate
  BY DEF Inv, Counted, NoLostUpdate, TypeOK
<1> QED BY <1>1, AlwaysInv, PTL

(* An answer that an outcome was applied, or was a duplicate, stays true. *)
THEOREM AnswersAreSo == Spec => []AnswersAreTrue
<1>1. Inv => AnswersAreTrue
  BY DEF Inv, Good, Sum, AnswersAreTrue
<1> QED BY <1>1, AlwaysInv, PTL

-----------------------------------------------------------------------------
(* A router works on one outcome at a time: the lock is held from the load to
   the end of the write, backoffs and retries included. *)
OneHolder ==
    \A c, d \in Calls :
        Holds(c) /\ Holds(d) /\ call[c].router = call[d].router => c = d

(* Only who holds the lock goes on holding it, or who finds it free. *)
LEMMA HolderStep == TypeOK /\ OneHolder /\ [Next]_vars => OneHolder'
<1> SUFFICES ASSUME TypeOK, OneHolder, [Next]_vars PROVE OneHolder'
  OBVIOUS
<1> USE DEF Holds
<1>0. call \in [Calls -> Delivery]
  BY DEF TypeOK
<1>1. ASSUME NEW c \in Calls, \A d \in Calls \ {c} : call'[d] = call[d],
             Holds(c)' => /\ call'[c].router = call[c].router
                          /\ Holds(c) \/ LockFree(call[c].router)
      PROVE  OneHolder'
  BY <1>1 DEF OneHolder, LockFree
<1>2. ASSUME NEW c \in Calls, NEW o \in Outcomes, NEW r \in Routers, Record(c, o, r)
      PROVE  OneHolder'
  <2>1. (\A d \in Calls \ {c} : call'[d] = call[d]) /\ call'[c].pc = "queued"
    BY <1>0, <1>2 DEF Record, Assessed
  <2> QED BY <1>1, <2>1
<1>3. ASSUME NEW c \in Calls, Redeliver(c) PROVE OneHolder'
  <2>1. (\A d \in Calls \ {c} : call'[d] = call[d]) /\ call'[c].pc = "queued"
    BY <1>0, <1>3 DEF Redeliver, Assessed
  <2> QED BY <1>1, <2>1
<1>4. ASSUME NEW c \in Calls, GivesUp(c) \/ Cancelled(c) PROVE OneHolder'
  <2>1. (\A d \in Calls \ {c} : call'[d] = call[d]) /\ call'[c].pc = "out"
    BY <1>0, <1>4 DEF GivesUp, Cancelled, Concluded, Resting, Idle
  <2> QED BY <1>1, <2>1
<1>5. ASSUME NEW c \in Calls, NEW status, Answered(c, status)
      PROVE  (\A d \in Calls \ {c} : call'[d] = call[d]) /\ call'[c].pc \in {"out", "failed"}
  BY <1>0, <1>5 DEF Answered, Concluded, Resting
<1>6. ASSUME NEW c \in Calls, Loads(c) PROVE OneHolder'
  <2>1. CASE call' = [call EXCEPT ![c] = [@ EXCEPT !.pc = "writing", !.base = stored]]
    <3>1. /\ \A d \in Calls \ {c} : call'[d] = call[d]
          /\ call'[c].router = call[c].router
      BY <1>0, <2>1 DEF Delivery
    <3>2. Holds(c) \/ LockFree(call[c].router)
      BY <1>6 DEF Loads
    <3> QED BY <1>1, <3>1, <3>2
  <2>2. CASE Answered(c, "store_error")
    BY <1>1, <1>5, <2>2
  <2> QED BY <1>6, <2>1, <2>2 DEF Loads
<1>7. ASSUME NEW c \in Calls, Writes(c) PROVE OneHolder'
  <2>1. CASE call' = [call EXCEPT ![c] =
                [call[c] EXCEPT !.pc = "backoff", !.attempt = @ + 1, !.base = Empty]]
    <3>1. /\ \A d \in Calls \ {c} : call'[d] = call[d]
          /\ call'[c].router = call[c].router
      BY <1>0, <2>1 DEF Delivery
    <3>2. Holds(c)
      BY <1>7 DEF Writes
    <3> QED BY <1>1, <3>1, <3>2
  <2>2. CASE \E status \in Statuses : Answered(c, status)
    BY <1>1, <1>5, <2>2
  <2>3. CASE call' = [call EXCEPT ![c] = Idle]
    <3>1. (\A d \in Calls \ {c} : call'[d] = call[d]) /\ call'[c].pc = "out"
      BY <1>0, <2>3 DEF Idle, Resting
    <3> QED BY <1>1, <3>1
  <2> QED BY <1>7, <2>1, <2>2, <2>3 DEF Writes, Statuses
<1>8. CASE Tick \/ UNCHANGED vars
  BY <1>8 DEF Tick, vars, OneHolder
<1> QED BY <1>2, <1>3, <1>4, <1>6, <1>7, <1>8 DEF Next

(* No two deliveries of one process refresh and write the learning state at
   once, whatever else overlaps or is cancelled. *)
THEOREM RouterLockExcludes == Spec => []OneHolder
<1>1. Init => OneHolder
  BY DEF Init, OneHolder, Holds, Idle, Resting
<1> QED BY <1>1, HolderStep, AdaptiveIsTyped, PTL DEF Spec

-----------------------------------------------------------------------------
(* The steps of the routers, as those of one serial learner. *)
learning == <<stored.revision, stored.learned, stored.noted, [c \in Calls |-> Told(c)],
              {o \in Outcomes : Outdated(o)}>>

(* What a delivery that moved is told is true of the state it leaves behind. *)
LEMMA Tells ==
    ASSUME Inv', NEW c \in Calls, \A d \in Calls \ {c} : call'[d] = call[d]
    PROVE  L!Tell(c)
<1> DEFINE what == Told(c)'
<1>1. what \in {"none"} \cup {o \in Outcomes : stored'.learned[o] + stored'.noted[o] > 0}
  <2>1. ASSUME call'[c].status \in {"applied", "duplicate"}
        PROVE  /\ call'[c].outcome \in Outcomes
               /\ stored'.learned[call'[c].outcome] + stored'.noted[call'[c].outcome] >= 1
    BY <2>1 DEF Inv, Good, Sum
  <2>2. \A o \in Outcomes : stored'.learned[o] \in Nat /\ stored'.noted[o] \in Nat
    BY DEF Inv, TypeOK, Snapshot
  <2> QED BY <2>1, <2>2 DEF Told
<1>2. \A d \in Calls \ {c} : Told(d)' = Told(d)
  BY DEF Told
<1>3. [d \in Calls |-> Told(d)]' = [[d \in Calls |-> Told(d)] EXCEPT ![c] = what]
  BY <1>2
<1> HIDE DEF what
<1> QED BY <1>1, <1>3 DEF L!Tell

(* An accepted write replaces the state it loaded, or none: it applies its
   outcome to what is stored, and learns it again only when it is outdated. *)
LEMMA Applies ==
    ASSUME Inv, NEW c \in Calls, call[c].pc = "writing", Stores(c),
           UNCHANGED <<clock, recordedAt>>
    PROVE  \E o \in Outcomes : L!Apply(o)
<1> DEFINE o == call[c].outcome
<1>1. /\ stored \in Snapshot /\ stored' \in Snapshot /\ o \in Outcomes
      /\ call[c].base = stored /\ call[c].eligible \in BOOLEAN
  BY StoresCounts DEF Inv, TypeOK, Good, Stores, WouldStore, Delivery
<1>2. stored' = Applied(stored, o, call[c].eligible)
  BY <1>1 DEF Stores
<1>3. stored.learned \in [Outcomes -> Nat] /\ stored.noted \in [Outcomes -> Nat]
  BY <1>1 DEF Snapshot
<1>7. call[c].eligible /\ stored.learned[o] >= 1 => Outdated(o)
  BY StoresCounts
<1> HIDE DEF o
<1>4. stored'.revision = stored.revision + 1
  BY <1>2 DEF Applied
<1>5. CASE call[c].eligible
  <2>1. /\ stored'.learned = [stored.learned EXCEPT ![o] = @ + 1]
        /\ stored'.noted = stored.noted
    BY <1>2, <1>5 DEF Applied
  <2>2. stored.learned[o] = 0 \/ Outdated(o)
    BY <1>1, <1>3, <1>5, <1>7
  <2> QED BY <1>1, <1>4, <2>1, <2>2 DEF L!Apply, L!Learn
<1>6. CASE ~call[c].eligible
  <2>1. /\ stored'.noted = [stored.noted EXCEPT ![o] = @ + 1]
        /\ stored'.learned = stored.learned
    BY <1>2, <1>6 DEF Applied
  <2> QED BY <1>1, <1>4, <2>1 DEF L!Apply, L!Note
<1> QED BY <1>1, <1>5, <1>6

LEMMA SerialStep == Inv /\ Inv' /\ [Next]_vars => [L!Next]_learning
<1> SUFFICES ASSUME Inv, Inv', [Next]_vars PROVE [L!Next]_learning
  OBVIOUS
<1>0. call \in [Calls -> Delivery]
  BY DEF Inv, TypeOK
<1>9. /\ {o \in Outcomes : Outdated(o)} \subseteq {o \in Outcomes : Outdated(o)}'
      /\ {o \in Outcomes : Outdated(o)}' \subseteq Outcomes
  <2>1. /\ UNCHANGED recordedAt /\ clock \in Nat /\ recordedAt \in [Outcomes -> 0..Ahead]
        /\ clock' \in {clock, clock + 1}
    <3>1. clock \in Nat /\ recordedAt \in [Outcomes -> 0..Ahead]
      BY AdaptiveAssumption DEF Inv, TypeOK
    <3>2. ASSUME NEW c \in Calls, NEW o \in Outcomes, NEW r \in Routers, Record(c, o, r)
          PROVE  UNCHANGED <<recordedAt, clock>>
      BY <3>2 DEF Record
    <3>3. ASSUME NEW c \in Calls, Redeliver(c) \/ GivesUp(c) \/ Loads(c) \/ Writes(c) \/ Cancelled(c)
          PROVE  UNCHANGED <<recordedAt, clock>>
      BY <3>3 DEF Redeliver, GivesUp, Loads, Writes, Cancelled
    <3>4. CASE Tick \/ UNCHANGED vars
      BY <3>1, <3>4 DEF Tick, vars
    <3> QED BY <3>1, <3>2, <3>3, <3>4 DEF Next
  <2> QED BY <2>1, AdaptiveAssumption DEF Outdated
<1>1. ASSUME NEW c \in Calls, \A d \in Calls \ {c} : call'[d] = call[d],
             UNCHANGED stored \/ \E o \in Outcomes : L!Apply(o)
      PROVE  L!Next
  BY <1>1, <1>9, Tells DEF L!Next
<1>2. ASSUME NEW c \in Calls, NEW status, Answered(c, status)
      PROVE  \A d \in Calls \ {c} : call'[d] = call[d]
  BY <1>0, <1>2 DEF Answered, Concluded
<1>3. ASSUME NEW c \in Calls, NEW o \in Outcomes, NEW r \in Routers, Record(c, o, r)
      PROVE  L!Next
  BY <1>0, <1>1, <1>3 DEF Record, Assessed
<1>4. ASSUME NEW c \in Calls, Redeliver(c) \/ GivesUp(c) \/ Cancelled(c) PROVE L!Next
  BY <1>0, <1>1, <1>4 DEF Redeliver, Assessed, GivesUp, Cancelled, Concluded
<1>5. ASSUME NEW c \in Calls, Loads(c) PROVE L!Next
  <2>1. \A d \in Calls \ {c} : call'[d] = call[d]
    BY <1>0, <1>2, <1>5 DEF Loads
  <2> QED BY <1>1, <1>5, <2>1 DEF Loads
<1>6. ASSUME NEW c \in Calls, Writes(c) PROVE L!Next
  <2>1. \A d \in Calls \ {c} : call'[d] = call[d]
    BY <1>0, <1>2, <1>6 DEF Writes
  <2>2. UNCHANGED stored \/ \E o \in Outcomes : L!Apply(o)
    BY <1>6, Applies DEF Writes, StoresNothing
  <2> QED BY <1>1, <2>1, <2>2
<1>7. CASE Tick
  <2>1. UNCHANGED <<stored, call>>
    BY <1>7 DEF Tick
  <2> QED BY <1>9, <2>1 DEF L!Next, Told
<1>8. CASE UNCHANGED vars
  BY <1>8 DEF vars, learning, Told, Outdated
<1> QED BY <1>3, <1>4, <1>5, <1>6, <1>7, <1>8 DEF Next

(* However deliveries overlap, conflict, repeat and go unanswered, the shared
   state evolves as under one writer: AdaptiveRouting implements
   SerialLearning. *)
THEOREM RoutersLearnSerially == Spec => LearnsSerially
<1>1. Init => L!Init
  <2>1. Init => {o \in Outcomes : Outdated(o)} = {}
    BY AdaptiveAssumption DEF Init, Outdated
  <2> QED BY <2>1 DEF Init, L!Init, Empty, NoneApplied, Told, Idle, Resting
<1>2. Inv /\ Inv' /\ [Next]_vars
        => [L!Next]_<<stored.revision, stored.learned, stored.noted,
                      [c \in Calls |-> Told(c)], {o \in Outcomes : Outdated(o)}>>
  BY SerialStep DEF learning
<1> QED BY <1>1, <1>2, AlwaysInv, PTL DEF Spec, LearnsSerially, L!Spec
==============================================================================

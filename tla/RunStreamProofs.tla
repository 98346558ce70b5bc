--------------------------- MODULE RunStreamProofs ---------------------------
(***************************************************************************)
(* Proofs about RunStream, for any writers and readers, any page size and  *)
(* any number of events.                                                   *)
(***************************************************************************)
EXTENDS RunStream, FiniteSetTheorems, TLAPS

(* How many events are committed: all that were numbered, but the one of the
   transaction that holds the run's row. *)
N == IF \E w \in Writers : txn[w] # NoTxn THEN last - 1 ELSE last

LogOK ==
    /\ last \in 0..MaxEvents /\ status \in {"live", "ended"}
    /\ txn \in [Writers -> [sequence : 0..MaxEvents, kind : Kinds]]
    /\ \A v, w \in Writers : txn[v] # NoTxn /\ txn[w] # NoTxn => v = w
    /\ \A w \in Writers : txn[w] # NoTxn => txn[w].sequence = last /\ last >= 1
    /\ events = 1..N
    /\ endedAt \in 0..N
    /\ status = "ended" => endedAt >= 1

ReaderRecord == [
    pc : {"away", "reading", "draining", "tailing", "checking", "final",
          "finishing", "waiting", "stopped"},
    position : 0..MaxEvents, page : SUBSET (1..MaxEvents),
    woken : BOOLEAN, seen : SUBSET (1..MaxEvents), goal : 0..MaxEvents]

Delivering == {"draining", "tailing", "finishing"}

(* A client k of a log of n events has a prefix of it, and what its generator
   has passed is received or still on the page. A generator that found nothing
   has no more than a burst ahead of it; one that has made its final read has
   passed the event that ended the run, if a burst fits in a page. *)
Served(k, n) ==
    /\ k.position <= n /\ k.seen \subseteq 1..n
    /\ k.page \subseteq 1..k.position
    /\ k.page # {} <=> k.pc \in Delivering
    /\ 1..k.position \subseteq k.seen \cup k.page
    /\ \A s \in k.seen : 1..s \subseteq k.seen
    /\ k.pc \in {"checking", "final"} => n - k.position <= Burst
    /\ k.pc \in {"final", "finishing", "stopped"} => k.goal \in 1..n
    /\ Burst <= Limit /\ k.pc \in {"finishing", "stopped"} => k.goal <= k.position

IInv ==
    /\ LogOK
    /\ reader \in [Readers -> ReaderRecord]
    /\ \A r \in Readers : Served(reader[r], N)

LEMMA Bounds ==
    /\ Limit \in Nat /\ Limit >= 1 /\ Burst \in Nat /\ Burst >= 1
    /\ MaxEvents \in Nat
BY StreamAssumption

LEMMA NIsNat == LogOK => N \in 0..MaxEvents /\ N <= last
BY Bounds DEF LogOK, N

-----------------------------------------------------------------------------
(* What a read returns from a gap-free log. *)
LEMMA AfterIs ==
    ASSUME NEW n \in Nat, NEW p \in 0..n, events = 1..n
    PROVE  /\ After(p) = (p + 1)..n
           /\ IsFiniteSet(After(p)) /\ Cardinality(After(p)) = n - p
<1>1. After(p) = (p + 1)..n
  BY DEF After
<1>2. IsFiniteSet((p + 1)..n) /\ Cardinality((p + 1)..n) = n - p
  <2>1. p + 1 \in Int /\ n \in Int
    OBVIOUS
  <2>2. /\ IsFiniteSet((p + 1)..n)
        /\ Cardinality((p + 1)..n) = IF p + 1 > n THEN 0 ELSE n - (p + 1) + 1
    BY <2>1, FS_Interval
  <2>3. (IF p + 1 > n THEN 0 ELSE n - (p + 1) + 1) = n - p
    OBVIOUS
  <2> QED BY <2>2, <2>3
<1> QED BY <1>1, <1>2

Top(p, n) == IF n <= p + Limit THEN n ELSE p + Limit

LEMMA PageIs ==
    ASSUME NEW n \in Nat, NEW p \in 0..n, events = 1..n
    PROVE  /\ Page(p) = (p + 1)..Top(p, n)
           /\ Beyond(p, Page(p)) = Top(p, n)
           /\ Top(p, n) \in p..n
           /\ Page(p) = {} => p = n
<1>1. ASSUME NEW e \in (p + 1)..n
      PROVE  Cardinality({f \in After(p) : f <= e}) = e - p
  <2>1. {f \in After(p) : f <= e} = (p + 1)..e
    BY AfterIs
  <2>2. Cardinality((p + 1)..e) = IF p + 1 > e THEN 0 ELSE e - (p + 1) + 1
    <3>1. p + 1 \in Int /\ e \in Int
      OBVIOUS
    <3> QED BY <3>1, FS_Interval
  <2>3. (IF p + 1 > e THEN 0 ELSE e - (p + 1) + 1) = e - p
    OBVIOUS
  <2> QED BY <2>1, <2>2, <2>3
<1>2. Top(p, n) \in p..n /\ \A e \in (p + 1)..n : e - p <= Limit <=> e <= Top(p, n)
  BY Bounds DEF Top
<1>3. Page(p) = (p + 1)..Top(p, n)
  <2>1. Page(p) = {e \in (p + 1)..n : e - p <= Limit}
    BY <1>1, AfterIs DEF Page, FirstOf
  <2>2. {e \in (p + 1)..n : e - p <= Limit} = {e \in (p + 1)..n : e <= Top(p, n)}
    BY <1>2
  <2>3. {e \in (p + 1)..n : e <= Top(p, n)} = (p + 1)..Top(p, n)
    BY <1>2
  <2> QED BY <2>1, <2>2, <2>3
<1>4. Beyond(p, Page(p)) = Top(p, n)
  <2>1. Top(p, n) \in Page(p) \cup {p} /\ \A e \in Page(p) \cup {p} : e <= Top(p, n)
    BY <1>2, <1>3
  <2>2. ASSUME NEW q \in Page(p) \cup {p}, \A e \in Page(p) \cup {p} : e <= q
        PROVE  q = Top(p, n)
    BY <1>2, <1>3, <2>1, <2>2
  <2> QED BY <2>1, <2>2 DEF Beyond
<1>5. Page(p) = {} => p = n
  <2> SUFFICES ASSUME p < n PROVE (p + 1) \in (p + 1)..Top(p, n)
    BY <1>3
  <2> QED BY Bounds DEF Top
<1> QED BY <1>2, <1>3, <1>4, <1>5

(* The log grows by one event, or not at all; everyone served stays served. *)
LEMMA StaysServed ==
    ASSUME NEW n \in Nat, NEW k \in ReaderRecord, Served(k, n),
           k.pc \in {"checking", "final"} => n - k.position < Burst
    PROVE  Served(k, n + 1)
<1>1. k.position \in Nat
  BY DEF ReaderRecord
<1> QED BY <1>1, Bounds DEF Served

-----------------------------------------------------------------------------
LEMMA InvInit == Init => IInv
<1> SUFFICES ASSUME Init PROVE IInv
  OBVIOUS
<1>1. N = 0
  BY DEF Init, N
<1>2. 0 \in 0..MaxEvents
  BY Bounds
<1>3. LogOK
  <2>1. NoTxn \in [sequence : 0..MaxEvents, kind : Kinds]
    BY <1>2 DEF NoTxn, Kinds
  <2> QED BY <1>1, <1>2, <2>1 DEF Init, LogOK
<1>4. Away \in ReaderRecord
  BY <1>2 DEF Away, ReaderRecord
<1>5. Served(Away, 0)
  BY DEF Served, Away, Delivering
<1> QED BY <1>1, <1>3, <1>4, <1>5 DEF Init, IInv

(* The writers. *)
LEMMA WriterSteps ==
    ASSUME IInv, NEW w \in Writers,
           (\E kind \in Kinds : Allocate(w, kind)) \/ Commit(w) \/ Rollback(w)
    PROVE  IInv'
<1>1. /\ last \in 0..MaxEvents /\ MaxEvents \in Nat /\ N \in 0..MaxEvents
      /\ txn \in [Writers -> [sequence : 0..MaxEvents, kind : Kinds]]
      /\ LogOK
  BY Bounds, NIsNat DEF IInv, LogOK
<1>2. ASSUME NEW kind \in Kinds, Allocate(w, kind) PROVE IInv'
  <2> DEFINE t == [sequence |-> last + 1, kind |-> kind]
  <2>1. /\ last < MaxEvents /\ last' = last + 1 /\ txn' = [txn EXCEPT ![w] = t]
        /\ UNCHANGED <<events, status, endedAt, reader>>
        /\ \A v \in Writers : txn[v] = NoTxn
    BY <1>2 DEF Allocate, Open
  <2>2. t # NoTxn /\ t \in [sequence : 0..MaxEvents, kind : Kinds]
    BY <1>1, <2>1 DEF NoTxn
  <2>3. N = last
    BY <2>1 DEF N
  <2>4. txn'[w] = t /\ \A v \in Writers \ {w} : txn'[v] = NoTxn
    BY <1>1, <2>1
  <2>5. N' = last' - 1
    BY <2>2, <2>4 DEF N
  <2>6. N' = N
    BY <1>1, <2>1, <2>3, <2>5
  <2>7. LogOK'
    BY <1>1, <2>1, <2>2, <2>4, <2>6 DEF LogOK
  <2> QED BY <2>1, <2>6, <2>7 DEF IInv
<1>3. ASSUME txn[w] # NoTxn, txn' = [txn EXCEPT ![w] = NoTxn]
      PROVE  /\ N = last - 1 /\ N' = last' /\ txn[w].sequence = last /\ last >= 1
             /\ \A v \in Writers : txn'[v] = NoTxn
             /\ txn' \in [Writers -> [sequence : 0..MaxEvents, kind : Kinds]]
  <2>1. \A v \in Writers \ {w} : txn[v] = NoTxn
    BY <1>1, <1>3 DEF LogOK
  <2>2. \A v \in Writers : txn'[v] = NoTxn
    BY <1>1, <1>3, <2>1
  <2>3. NoTxn \in [sequence : 0..MaxEvents, kind : Kinds]
    BY Bounds DEF NoTxn, Kinds
  <2> QED BY <1>1, <1>3, <2>2, <2>3 DEF LogOK, N
<1>4. CASE Rollback(w)
  <2>1. N' = N /\ last' = last - 1
    BY <1>1, <1>3, <1>4 DEF Rollback
  <2>2. LogOK'
    BY <1>1, <1>3, <1>4, <2>1 DEF Rollback, LogOK
  <2> QED BY <1>4, <2>1, <2>2 DEF Rollback, IInv
<1>5. CASE Commit(w)
  <2>1. /\ N' = N + 1 /\ last' = last /\ N + 1 = last /\ reader' = reader
        /\ events' = events \cup {last}
    BY <1>1, <1>3, <1>5 DEF Commit
  <2>2. events' = 1..N'
    BY <1>1, <2>1 DEF LogOK
  <2>3. endedAt' \in 0..N' /\ status' \in {"live", "ended"}
        /\ (status' = "ended" => endedAt' >= 1)
    BY <1>1, <1>3, <1>5, <2>1 DEF Commit, LogOK
  <2>4. LogOK'
    BY <1>1, <1>3, <1>5, <2>1, <2>2, <2>3 DEF Commit, LogOK
  <2>5. ASSUME NEW r \in Readers PROVE Served(reader'[r], N')
    <3>1. reader[r] \in ReaderRecord /\ Served(reader[r], N)
      BY DEF IInv
    <3>2. reader[r].position \in 0..N /\ N \in Nat /\ events = 1..N
      BY <1>1, <3>1 DEF ReaderRecord, Served, LogOK
    <3>3. reader[r].pc \in {"checking", "final"} => N - reader[r].position < Burst
      BY <1>5, <3>2, AfterIs DEF Commit, CaughtUp
    <3> QED BY <2>1, <3>1, <3>2, <3>3, StaysServed
  <2> QED BY <2>1, <2>4, <2>5 DEF IInv
<1> QED BY <1>2, <1>4, <1>5

(* The readers. *)
LEMMA LogStays == LogOK /\ UNCHANGED log => LogOK' /\ N' = N
BY DEF LogOK, log, N

LEMMA OneServed ==
    ASSUME IInv, NEW r \in Readers, NEW k \in ReaderRecord, Served(k, N),
           reader' = [reader EXCEPT ![r] = k], UNCHANGED log
    PROVE  IInv'
BY LogStays DEF IInv

LEMMA ReaderFacts ==
    ASSUME IInv, NEW r \in Readers
    PROVE  /\ reader \in [Readers -> ReaderRecord] /\ reader[r] \in ReaderRecord
           /\ Served(reader[r], N) /\ LogOK /\ events = 1..N
           /\ N \in 0..MaxEvents /\ N \in Nat /\ MaxEvents \in Nat
           /\ reader[r].position \in 0..N
<1>1. reader[r] \in ReaderRecord /\ Served(reader[r], N) /\ N \in 0..MaxEvents
  BY NIsNat DEF IInv
<1> QED BY <1>1, Bounds DEF IInv, LogOK, Served, ReaderRecord

LEMMA ConnectServed ==
    ASSUME IInv, NEW r \in Readers, NEW cursor \in 0..MaxEvents, Connect(r, cursor)
    PROVE  IInv'
<1> DEFINE k == [reader[r] EXCEPT !.pc = "reading", !.position = cursor, !.woken = FALSE]
<1>1. reader' = [reader EXCEPT ![r] = k] /\ UNCHANGED log
  BY DEF Connect
<1>2. k \in ReaderRecord
  BY ReaderFacts, ZenonT(30) DEF ReaderRecord
<1>3. /\ k.pc = "reading" /\ k.position = cursor /\ k.page = reader[r].page
      /\ k.seen = reader[r].seen
  BY ReaderFacts DEF ReaderRecord
<1>4. reader[r].pc = "away" /\ cursor \in reader[r].seen \cup {0}
  BY DEF Connect, At
<1>5. Served(k, N)
  <2> HIDE DEF k
  <2>1. k.page = {}
    BY <1>3, <1>4, ReaderFacts DEF Served, Delivering
  <2>2. cursor \in 0..N /\ 1..cursor \subseteq reader[r].seen
    BY <1>4, ReaderFacts DEF Served
  <2> QED BY <1>3, <2>1, <2>2, ReaderFacts DEF Served, Delivering
<1> HIDE DEF k
<1> QED BY <1>1, <1>2, <1>5, OneServed

LEMMA ReadServed ==
    ASSUME IInv, NEW r \in Readers, Read(r) \/ FinalRead(r)
    PROVE  IInv'
<1> DEFINE found == IF Read(r) THEN "tailing" ELSE "finishing"
           nothing == IF Read(r) THEN "checking" ELSE "stopped"
           page == Page(reader[r].position)
           top == Top(reader[r].position, N)
           pc == IF page = {} THEN nothing
                 ELSE IF found = "tailing" /\ Cardinality(page) >= Limit
                 THEN "draining" ELSE found
           k == [reader[r] EXCEPT !.page = page, !.position = top, !.pc = pc]
<1>1. reader[r].pc = IF Read(r) THEN "reading" ELSE "final"
  BY DEF Read, FinalRead, At
<1>2. /\ page = (reader[r].position + 1)..top /\ Beyond(reader[r].position, page) = top
      /\ top \in reader[r].position..N
      /\ page = {} => reader[r].position = N
  BY ReaderFacts, PageIs
<1>3. ReadBatch(r, found, nothing) /\ UNCHANGED log
  BY <1>1 DEF Read, FinalRead, At
<1>4. reader' = [reader EXCEPT ![r] = k]
  <2> HIDE DEF found, nothing, top
  <2>1. reader' = [reader EXCEPT ![r] = [reader[r] EXCEPT
            !.page = page, !.position = Beyond(reader[r].position, page), !.pc = pc]]
    BY <1>3, Zenon DEF ReadBatch
  <2> QED BY <1>2, <2>1
<1>5. k \in ReaderRecord
  <2>1. page \subseteq 1..MaxEvents /\ top \in 0..MaxEvents
    BY <1>2, ReaderFacts
  <2>2. pc \in {"draining", "tailing", "checking", "finishing", "stopped"}
    OBVIOUS
  <2> HIDE DEF page, top, pc
  <2> QED BY <2>1, <2>2, ReaderFacts, ZenonT(30) DEF ReaderRecord
<1>6. /\ k.pc = pc /\ k.position = top /\ k.page = page
      /\ k.seen = reader[r].seen /\ k.goal = reader[r].goal
  BY ReaderFacts DEF ReaderRecord
<1> HIDE DEF k
<1>7. reader[r].page = {} /\ 1..reader[r].position \subseteq reader[r].seen
  BY <1>1, ReaderFacts DEF Served, Delivering
<1>8. /\ page # {} <=> pc \in Delivering
      /\ pc \in {"finishing", "stopped"} => ~Read(r)
      /\ pc # "final" /\ (pc = "checking" => page = {})
  BY DEF Delivering
<1>9. ~Read(r) => reader[r].goal \in 1..N /\ (Burst <= Limit => top = N)
  BY <1>1, ReaderFacts, Bounds DEF Served, Top
<1> HIDE DEF page, pc
<1>10. Served(k, N)
  <2>1. 1..top \subseteq reader[r].seen \cup page /\ page \subseteq 1..top
    BY <1>2, <1>7, ReaderFacts
  <2>2. pc = "checking" => N - top <= Burst
    BY <1>2, <1>8, ReaderFacts, Bounds DEF Top
  <2>3. pc \in {"finishing", "stopped"} => 
            reader[r].goal \in 1..N /\ (Burst <= Limit => reader[r].goal <= top)
    BY <1>8, <1>9
  <2> QED BY <1>2, <1>6, <1>8, <2>1, <2>2, <2>3, ReaderFacts DEF Served
<1> QED BY <1>3, <1>4, <1>5, <1>10, OneServed

LEMMA DeliverServed ==
    ASSUME IInv, NEW r \in Readers, Deliver(r)
    PROVE  IInv'
<1>1. PICK e \in reader[r].page :
        /\ \A f \in reader[r].page : e <= f
        /\ reader' = [reader EXCEPT ![r] = [@ EXCEPT
                !.seen = reader[r].seen \cup {e}, !.page = reader[r].page \ {e},
                !.pc = IF reader[r].page = {e} THEN AfterPage(reader[r].pc) ELSE reader[r].pc,
                !.woken = ~(reader[r].page = {e}) /\ reader[r].woken]]
  BY DEF Deliver
<1> DEFINE pc == IF reader[r].page = {e} THEN AfterPage(reader[r].pc) ELSE reader[r].pc
           woken == ~(reader[r].page = {e}) /\ reader[r].woken
           k == [reader[r] EXCEPT !.seen = reader[r].seen \cup {e},
                                  !.page = reader[r].page \ {e}, !.pc = pc, !.woken = woken]
<1>2. reader' = [reader EXCEPT ![r] = k]
  BY <1>1
<1>3. reader[r].pc \in Delivering
  BY DEF Deliver, Delivering
<1>4. /\ pc \in {"reading", "waiting", "stopped"} \cup Delivering
      /\ pc \in Delivering <=> reader[r].page # {e}
      /\ pc \in {"finishing", "stopped"} => reader[r].pc = "finishing"
  BY <1>3 DEF AfterPage, Delivering
<1>5. k \in ReaderRecord
  <2>1. /\ reader[r].seen \cup {e} \in SUBSET (1..MaxEvents)
        /\ reader[r].page \ {e} \in SUBSET (1..MaxEvents) /\ woken \in BOOLEAN
    BY <1>1, ReaderFacts DEF ReaderRecord
  <2>2. pc \in {"away", "reading", "draining", "tailing", "checking", "final",
                 "finishing", "waiting", "stopped"}
    BY <1>4 DEF Delivering
  <2> HIDE DEF pc, woken
  <2> QED BY <2>1, <2>2, ReaderFacts, ZenonT(30) DEF ReaderRecord
<1>6. /\ k.pc = pc /\ k.position = reader[r].position /\ k.page = reader[r].page \ {e}
      /\ k.seen = reader[r].seen \cup {e} /\ k.goal = reader[r].goal
  BY ReaderFacts DEF ReaderRecord
<1> HIDE DEF k, pc, woken
<1>7. Served(k, N)
  <2>1. e \in 1..reader[r].position /\ e \in Nat /\ reader[r].page \subseteq Nat
    BY <1>1, ReaderFacts DEF Served
  <2>2. ASSUME NEW f \in 1..e, f # e PROVE f \in reader[r].seen
    <3>1. f \in 1..reader[r].position /\ f \notin reader[r].page
      BY <1>1, <2>1, <2>2, ReaderFacts
    <3> QED BY <3>1, ReaderFacts DEF Served
  <2>3. \A s \in reader[r].seen \cup {e} : 1..s \subseteq reader[r].seen \cup {e}
    BY <2>2, ReaderFacts DEF Served
  <2>4. /\ k.seen \subseteq 1..N /\ k.page \subseteq 1..k.position
        /\ 1..k.position \subseteq k.seen \cup k.page
    BY <1>6, <2>1, ReaderFacts DEF Served
  <2>5. k.page # {} <=> k.pc \in Delivering
    BY <1>1, <1>4, <1>6
  <2>6. /\ k.pc \notin {"checking", "final"}
        /\ k.pc \in {"finishing", "stopped"} =>
                /\ reader[r].goal \in 1..N
                /\ Burst <= Limit => reader[r].goal <= reader[r].position
    BY <1>4, <1>6, ReaderFacts DEF Served, Delivering
  <2> QED BY <1>6, <2>3, <2>4, <2>5, <2>6, ReaderFacts DEF Served
<1> QED BY <1>2, <1>5, <1>7, OneServed DEF Deliver

LEMMA CheckServed ==
    ASSUME IInv, NEW r \in Readers, Check(r) \/ Wakes(r) \/ Disconnect(r)
    PROVE  IInv'
<1>1. CASE Check(r)
  <2> DEFINE pc == IF status = "ended" THEN "final" ELSE "waiting"
             goal == IF status = "ended" THEN endedAt ELSE reader[r].goal
             woken == IF status = "ended" THEN reader[r].woken ELSE FALSE
             k == [reader[r] EXCEPT !.pc = pc, !.goal = goal, !.woken = woken]
  <2>1. reader' = [reader EXCEPT ![r] = k]
    BY <1>1, ReaderFacts DEF Check, ReaderRecord
  <2>2. goal \in 0..MaxEvents /\ woken \in BOOLEAN /\ (status = "ended" => goal \in 1..N)
    <3>1. reader[r].goal \in 0..MaxEvents /\ reader[r].woken \in BOOLEAN
      BY ReaderFacts DEF ReaderRecord
    <3>2. endedAt \in 0..N /\ (status = "ended" => endedAt >= 1)
      BY ReaderFacts DEF LogOK
    <3>3. endedAt \in 0..MaxEvents /\ (status = "ended" => endedAt \in 1..N)
      BY <3>2, ReaderFacts
    <3> QED BY <3>1, <3>3
  <2>3. k \in ReaderRecord
    <3> HIDE DEF goal, woken
    <3> QED BY <2>2, ReaderFacts, ZenonT(30) DEF ReaderRecord
  <2>4. /\ k.pc = pc /\ k.position = reader[r].position /\ k.page = reader[r].page
        /\ k.seen = reader[r].seen /\ k.goal = goal
    BY ReaderFacts DEF ReaderRecord
  <2> HIDE DEF k
  <2>5. Served(k, N)
    BY <1>1, <2>2, <2>4, ReaderFacts DEF Check, At, Served, Delivering
  <2> QED BY <1>1, <2>1, <2>3, <2>5, OneServed DEF Check
<1>2. CASE Wakes(r)
  <2> DEFINE k == [reader[r] EXCEPT !.pc = "reading"]
  <2>1. reader' = [reader EXCEPT ![r] = k] /\ UNCHANGED log
    BY <1>2, ReaderFacts DEF Wakes
  <2>2. k \in ReaderRecord
    BY ReaderFacts, ZenonT(30) DEF ReaderRecord
  <2>3. /\ k.pc = "reading" /\ k.position = reader[r].position /\ k.page = reader[r].page
        /\ k.seen = reader[r].seen
    BY ReaderFacts DEF ReaderRecord
  <2> HIDE DEF k
  <2>4. Served(k, N)
    BY <1>2, <2>3, ReaderFacts DEF Wakes, At, Served, Delivering
  <2> QED BY <2>1, <2>2, <2>4, OneServed
<1>3. CASE Disconnect(r)
  <2> DEFINE k == [reader[r] EXCEPT !.pc = "away", !.page = {}, !.position = 0,
                                    !.woken = FALSE, !.goal = 0]
  <2>1. reader' = [reader EXCEPT ![r] = k] /\ UNCHANGED log
    BY <1>3 DEF Disconnect
  <2>2. k \in ReaderRecord
    <3>1. 0 \in 0..MaxEvents
      BY Bounds
    <3> QED BY <3>1, ReaderFacts, ZenonT(30) DEF ReaderRecord
  <2>3. k.pc = "away" /\ k.position = 0 /\ k.page = {} /\ k.seen = reader[r].seen
    BY ReaderFacts DEF ReaderRecord
  <2> HIDE DEF k
  <2>4. Served(k, N)
    BY <2>3, ReaderFacts DEF Served, Delivering
  <2> QED BY <2>1, <2>2, <2>4, OneServed
<1> QED BY <1>1, <1>2, <1>3

(* A wake-up touches nothing but a flag. *)
LEMMA NotifyServed == ASSUME IInv, Notify PROVE IInv'
<1>1. PICK woken \in SUBSET Readers :
        reader' = [r \in Readers |->
            [reader[r] EXCEPT !.woken = @ \/ (r \in woken /\ ~At(r, "away"))]]
  BY DEF Notify
<1>2. UNCHANGED log
  BY DEF Notify
<1>3. ASSUME NEW r \in Readers
      PROVE  reader'[r] \in ReaderRecord /\ Served(reader'[r], N)
  <2> DEFINE b == reader[r].woken \/ (r \in woken /\ ~At(r, "away"))
             k == [reader[r] EXCEPT !.woken = b]
  <2>1. reader'[r] = k
    BY <1>1
  <2>2. b \in BOOLEAN
    OBVIOUS
  <2>3. k \in ReaderRecord
    <3> HIDE DEF b
    <3> QED BY <2>2, ReaderFacts, ZenonT(30) DEF ReaderRecord
  <2>4. /\ k.pc = reader[r].pc /\ k.position = reader[r].position
        /\ k.page = reader[r].page /\ k.seen = reader[r].seen /\ k.goal = reader[r].goal
    BY ReaderFacts DEF ReaderRecord
  <2> HIDE DEF k
  <2>5. Served(k, N)
    BY <2>4, ReaderFacts DEF Served
  <2> QED BY <2>1, <2>3, <2>5
<1>4. reader' \in [Readers -> ReaderRecord]
  BY <1>1, <1>3
<1> QED BY <1>2, <1>3, <1>4, LogStays DEF IInv

LEMMA InvStep == IInv /\ [Next]_vars => IInv'
<1> SUFFICES ASSUME IInv, [Next]_vars PROVE IInv'
  OBVIOUS
<1>1. CASE UNCHANGED vars
  <2>1. UNCHANGED log /\ reader' = reader
    BY <1>1 DEF vars, log
  <2> QED BY <2>1, LogStays DEF IInv
<1> QED BY <1>1, WriterSteps, ConnectServed, ReadServed, DeliverServed, CheckServed,
           NotifyServed DEF Next, Serves

LEMMA Invariance == Spec => []IInv
BY InvInit, InvStep, PTL DEF Spec

(* Under any appends, rollbacks and connections every variable keeps its type. *)
THEOREM StreamIsTyped == Spec => []TypeOK
<1>1. IInv => TypeOK
  <2> SUFFICES ASSUME IInv PROVE TypeOK
    OBVIOUS
  <2>1. LogOK /\ N \in 0..MaxEvents /\ N <= last /\ last \in 0..MaxEvents /\ MaxEvents \in Nat
    BY NIsNat, Bounds DEF IInv, LogOK
  <2>2. events \subseteq 1..last /\ endedAt \in 0..MaxEvents
    BY <2>1 DEF LogOK
  <2> QED BY <2>1, <2>2 DEF IInv, LogOK, TypeOK, ReaderRecord
<1> QED BY <1>1, Invariance, PTL

(* The numbers of a run's events have no gap, whoever appends and whatever is
   rolled back. *)
THEOREM GapFreeLog == Spec => []LogIsGapFree
<1>1. IInv => LogIsGapFree
  <2> SUFFICES ASSUME IInv PROVE LogIsGapFree
    OBVIOUS
  <2>1. events = 1..N /\ N \in Nat
    BY NIsNat, Bounds DEF IInv, LogOK
  <2> QED BY <2>1 DEF LogIsGapFree
<1> QED BY <1>1, Invariance, PTL

(* What a client has is a prefix of the log, whatever its pages, its cursors
   and its connections were. *)
THEOREM ClientsHaveNoGap == Spec => []NoGap
<1>1. IInv => NoGap
  <2> SUFFICES ASSUME IInv, NEW r \in Readers, NEW e \in events,
                      NEW s \in reader[r].seen, e < s
               PROVE  e \in reader[r].seen
    BY DEF NoGap
  <2>1. e \in 1..N /\ s \in 1..N /\ N \in Nat /\ 1..s \subseteq reader[r].seen
    BY ReaderFacts DEF Served
  <2> QED BY <2>1
<1> QED BY <1>1, Invariance, PTL

(* A stream that ends by itself has delivered the end of its run and everything
   before it, if no burst between its last reads exceeds a page. *)
THEOREM CompleteStreams == ASSUME Burst <= Limit PROVE Spec => []StopsComplete
<1>1. IInv => StopsComplete
  <2> SUFFICES ASSUME IInv, NEW r \in Readers, reader[r].pc = "stopped"
               PROVE  /\ reader[r].goal \in reader[r].seen
                      /\ 1..reader[r].goal \subseteq reader[r].seen
    BY DEF StopsComplete, At
  <2>1. /\ reader[r].goal \in 1..N /\ reader[r].goal <= reader[r].position
        /\ reader[r].page = {} /\ 1..reader[r].position \subseteq reader[r].seen
    BY ReaderFacts DEF Served, Delivering
  <2>2. reader[r].goal \in 1..reader[r].position
        /\ 1..reader[r].goal \subseteq 1..reader[r].position
    BY <2>1, ReaderFacts
  <2> QED BY <2>1, <2>2
<1> QED BY <1>1, Invariance, PTL

-----------------------------------------------------------------------------
(* What a client sees: the steps of RunStream as steps of ResumableStream. *)
received == [r \in Readers |-> reader[r].seen]
aims == [r \in Readers |-> reader[r].goal]
stopped == {r \in Readers : reader[r].pc = "stopped"}
promised == <<events, endedAt, received, aims, stopped>>

LEMMA SameCount == \A S : P!Cardinality(S) = Cardinality(S)
BY Zenon DEF P!Cardinality, P!IsFiniteSet, Cardinality, IsFiniteSet

(* Only a commit is seen of the writers, and it adds the next event. *)
LEMMA WriterPromise ==
    ASSUME IInv, NEW w \in Writers,
           (\E kind \in Kinds : Allocate(w, kind)) \/ Commit(w) \/ Rollback(w)
    PROVE  [P!Next]_promised
<1> USE DEF promised, received, aims, stopped
<1>1. CASE Commit(w)
  <2>1. /\ events' = events \cup {txn[w].sequence} /\ reader' = reader
        /\ endedAt' \in {endedAt, txn[w].sequence}
    BY <1>1 DEF Commit
  <2>2. txn[w].sequence = N + 1 /\ N \in Nat /\ events = 1..N
    <3>1. N = last - 1 /\ txn[w].sequence = last /\ last \in Nat /\ last >= 1
      BY <1>1, Bounds DEF IInv, LogOK, N, Commit
    <3> QED BY <3>1 DEF IInv, LogOK
  <2>3. P!Cardinality(events) = N
    BY <2>2, SameCount, FS_Interval
  <2>4. P!Record
    BY <2>1, <2>2, <2>3 DEF P!Record, At
  <2> QED BY <2>4 DEF P!Next
<1>2. CASE (\E kind \in Kinds : Allocate(w, kind)) \/ Rollback(w)
  BY <1>2 DEF Allocate, Open, Rollback
<1> QED BY <1>1, <1>2

(* A stream that stops has brought its client to its goal. *)
BroughtHome ==
    \A r \in Readers : reader[r].pc = "stopped" =>
        reader[r].goal # 0 /\ 1..reader[r].goal \subseteq reader[r].seen

LEMMA StoppedIsHome == ASSUME Burst <= Limit PROVE IInv => BroughtHome
<1> SUFFICES ASSUME IInv, NEW r \in Readers, reader[r].pc = "stopped"
             PROVE  reader[r].goal # 0 /\ 1..reader[r].goal \subseteq reader[r].seen
  BY DEF BroughtHome
<1>1. /\ reader[r].goal \in 1..N /\ reader[r].goal <= reader[r].position
      /\ reader[r].page = {} /\ 1..reader[r].position \subseteq reader[r].seen
  BY ReaderFacts DEF Served, Delivering
<1>2. 1..reader[r].goal \subseteq 1..reader[r].position /\ reader[r].goal # 0
  BY <1>1, ReaderFacts
<1> QED BY <1>1, <1>2

(* What a step of one generator is to its client. *)
LEMMA ReaderPromise ==
    ASSUME IInv, BroughtHome', NEW r \in Readers, reader[r].pc # "stopped",
           NEW k, reader' = [reader EXCEPT ![r] = k], UNCHANGED log,
           \/ /\ k.seen = reader[r].seen /\ k.goal \in {endedAt, 0} /\ k.pc # "stopped"
           \/ /\ k.goal = reader[r].goal
              /\ \/ k.seen = reader[r].seen
                 \/ \E e \in events : /\ 1..(e - 1) \subseteq reader[r].seen
                                      /\ k.seen = reader[r].seen \cup {e}
    PROVE  [P!Next]_promised
<1>1. /\ reader \in [Readers -> ReaderRecord] /\ reader'[r] = k
      /\ \A s \in Readers : s # r => reader'[s] = reader[s]
  BY DEF IInv
<1>2. /\ received' = [received EXCEPT ![r] = k.seen] /\ aims' = [aims EXCEPT ![r] = k.goal]
      /\ stopped' = IF k.pc = "stopped" THEN stopped \cup {r} ELSE stopped
      /\ r \notin stopped /\ UNCHANGED <<events, endedAt>>
      /\ received[r] = reader[r].seen /\ aims[r] = reader[r].goal
      /\ received'[r] = k.seen
  BY <1>1 DEF received, aims, stopped, log
<1>3. k.pc = "stopped" => k.goal # 0 /\ 1..k.goal \subseteq k.seen
  BY <1>1 DEF BroughtHome
<1>4. CASE k.seen = reader[r].seen /\ k.goal \in {endedAt, 0} /\ k.pc # "stopped"
  <2>1. received' = received /\ stopped' = stopped
    BY <1>2, <1>4 DEF received
  <2>2. P!Aim(r)
    BY <1>2, <1>4, <2>1 DEF P!Aim, received, aims, stopped, At
  <2>3. P!Serve(r)
    BY <1>2, <2>2 DEF P!Serve, stopped, At
  <2> QED BY <2>3 DEF P!Next
<1>5. CASE /\ k.goal = reader[r].goal
           /\ \/ k.seen = reader[r].seen
              \/ \E e \in events : /\ 1..(e - 1) \subseteq reader[r].seen
                                   /\ k.seen = reader[r].seen \cup {e}
  <2>1. aims' = aims
    BY <1>2, <1>5 DEF aims
  <2>2. received' = received \/ P!Receive(r)
    <3>1. CASE k.seen = reader[r].seen
      BY <1>2, <3>1 DEF received
    <3>2. ASSUME NEW e \in events, 1..(e - 1) \subseteq reader[r].seen,
                 k.seen = reader[r].seen \cup {e}
          PROVE  P!Receive(r)
      BY <1>2, <3>2 DEF P!Receive, received
    <3> QED BY <1>5, <3>1, <3>2
  <2>3. stopped' = stopped \/ P!Complete(r)
    <3>1. CASE k.pc = "stopped"
      <4>1. aims[r] # 0 /\ 1..aims[r] \subseteq received'[r] /\ stopped' = stopped \cup {r}
        BY <1>2, <1>3, <1>5, <3>1
      <4> QED BY <4>1 DEF P!Complete, received, aims, stopped, At
    <3> QED BY <1>2, <3>1
  <2>4. P!Serve(r)
    BY <1>2, <2>1, <2>2, <2>3 DEF P!Serve, received, aims, stopped, At
  <2> QED BY <2>4 DEF P!Next
<1> QED BY <1>4, <1>5

LEMMA PromiseStep == IInv /\ BroughtHome' /\ [Next]_vars => [P!Next]_promised
<1> SUFFICES ASSUME IInv, BroughtHome', [Next]_vars PROVE [P!Next]_promised
  OBVIOUS
<1>1. ASSUME NEW r \in Readers, NEW cursor \in 0..MaxEvents, Connect(r, cursor)
      PROVE  [P!Next]_promised
  <2> DEFINE k == [reader[r] EXCEPT !.pc = "reading", !.position = cursor, !.woken = FALSE]
  <2>1. reader' = [reader EXCEPT ![r] = k] /\ UNCHANGED log /\ reader[r].pc = "away"
    BY <1>1 DEF Connect, At
  <2>2. k.seen = reader[r].seen /\ k.goal = reader[r].goal
    BY ReaderFacts DEF ReaderRecord
  <2> HIDE DEF k
  <2> QED BY <2>1, <2>2, ReaderPromise
<1>2. ASSUME NEW r \in Readers, Read(r) \/ FinalRead(r) PROVE [P!Next]_promised
  <2>1. PICK page, position, pc :
          reader' = [reader EXCEPT ![r] =
                        [reader[r] EXCEPT !.page = page, !.position = position, !.pc = pc]]
    BY <1>2, Zenon DEF Read, FinalRead, ReadBatch
  <2> DEFINE k == [reader[r] EXCEPT !.page = page, !.position = position, !.pc = pc]
  <2>2. UNCHANGED log /\ reader[r].pc # "stopped"
    BY <1>2 DEF Read, FinalRead, At
  <2>3. k.seen = reader[r].seen /\ k.goal = reader[r].goal
    BY ReaderFacts DEF ReaderRecord
  <2>4. reader' = [reader EXCEPT ![r] = k]
    BY <2>1
  <2> HIDE DEF k
  <2> QED BY <2>2, <2>3, <2>4, ReaderPromise
<1>3. ASSUME NEW r \in Readers, Deliver(r) PROVE [P!Next]_promised
  <2>1. PICK e \in reader[r].page :
          /\ \A f \in reader[r].page : e <= f
          /\ reader' = [reader EXCEPT ![r] = [@ EXCEPT
                !.seen = reader[r].seen \cup {e}, !.page = reader[r].page \ {e},
                !.pc = IF reader[r].page = {e} THEN AfterPage(reader[r].pc) ELSE reader[r].pc,
                !.woken = ~(reader[r].page = {e}) /\ reader[r].woken]]
    BY <1>3 DEF Deliver
  <2> DEFINE pc == IF reader[r].page = {e} THEN AfterPage(reader[r].pc) ELSE reader[r].pc
             woken == ~(reader[r].page = {e}) /\ reader[r].woken
             k == [reader[r] EXCEPT !.seen = reader[r].seen \cup {e},
                        !.page = reader[r].page \ {e}, !.pc = pc, !.woken = woken]
  <2>2. reader' = [reader EXCEPT ![r] = k]
    BY <2>1
  <2>3. UNCHANGED log /\ reader[r].pc # "stopped"
    BY <1>3 DEF Deliver
  <2>4. k.seen = reader[r].seen \cup {e} /\ k.goal = reader[r].goal
    BY ReaderFacts DEF ReaderRecord
  <2>5. e \in events /\ 1..(e - 1) \subseteq reader[r].seen
    <3>1. e \in 1..reader[r].position /\ reader[r].page \subseteq 1..reader[r].position
          /\ 1..reader[r].position \subseteq reader[r].seen \cup reader[r].page
      BY ReaderFacts DEF Served
    <3>2. ASSUME NEW f \in 1..(e - 1) PROVE f \in reader[r].seen
      <4>1. f \in 1..reader[r].position /\ ~(e <= f)
        BY <3>1, <3>2, ReaderFacts
      <4> QED BY <2>1, <3>1, <4>1
    <3>3. e \in events
      BY <3>1, ReaderFacts
    <3> QED BY <3>2, <3>3
  <2> HIDE DEF k
  <2> QED BY <2>2, <2>3, <2>4, <2>5, ReaderPromise
<1>4. ASSUME NEW r \in Readers, Check(r) PROVE [P!Next]_promised
  <2> DEFINE ends == status = "ended"
             k == IF ends THEN [reader[r] EXCEPT !.pc = "final", !.goal = endedAt]
                  ELSE [reader[r] EXCEPT !.pc = "waiting", !.woken = FALSE]
  <2>1. reader' = [reader EXCEPT ![r] = k] /\ UNCHANGED log /\ reader[r].pc = "checking"
    BY <1>4 DEF Check, At
  <2>2. /\ k.seen = reader[r].seen /\ k.pc # "stopped"
        /\ k.goal \in {endedAt, reader[r].goal}
    BY ReaderFacts DEF ReaderRecord
  <2> HIDE DEF k
  <2> QED BY <2>1, <2>2, ReaderPromise
<1>5. ASSUME NEW r \in Readers, Wakes(r) PROVE [P!Next]_promised
  <2> DEFINE k == [reader[r] EXCEPT !.pc = "reading"]
  <2>1. reader' = [reader EXCEPT ![r] = k] /\ UNCHANGED log /\ reader[r].pc = "waiting"
    BY <1>5, ReaderFacts DEF Wakes, At
  <2>2. k.seen = reader[r].seen /\ k.goal = reader[r].goal
    BY ReaderFacts DEF ReaderRecord
  <2> HIDE DEF k
  <2> QED BY <2>1, <2>2, ReaderPromise
<1>6. ASSUME NEW r \in Readers, Disconnect(r) PROVE [P!Next]_promised
  <2> DEFINE k == [reader[r] EXCEPT !.pc = "away", !.page = {}, !.position = 0,
                                    !.woken = FALSE, !.goal = 0]
  <2>1. reader' = [reader EXCEPT ![r] = k] /\ UNCHANGED log /\ reader[r].pc # "stopped"
    BY <1>6 DEF Disconnect, At
  <2>2. k.seen = reader[r].seen /\ k.goal = 0 /\ k.pc # "stopped"
    BY ReaderFacts DEF ReaderRecord
  <2> HIDE DEF k
  <2> QED BY <2>1, <2>2, ReaderPromise
<1>7. ASSUME Notify PROVE UNCHANGED promised
  <2>1. UNCHANGED <<events, endedAt>>
    BY <1>7 DEF Notify, log
  <2>2. \A r \in Readers : /\ reader'[r].pc = reader[r].pc /\ reader'[r].seen = reader[r].seen
                           /\ reader'[r].goal = reader[r].goal
    <3>1. PICK woken : reader' = [r \in Readers |->
            [reader[r] EXCEPT !.woken = @ \/ (r \in woken /\ ~At(r, "away"))]]
      BY <1>7 DEF Notify
    <3> QED BY <3>1, ReaderFacts DEF ReaderRecord
  <2> QED BY <2>1, <2>2 DEF promised, received, aims, stopped
<1>8. CASE UNCHANGED vars
  BY <1>8 DEF vars, promised, received, aims, stopped
<1> QED BY <1>1, <1>2, <1>3, <1>4, <1>5, <1>6, <1>7, <1>8, WriterPromise DEF Next, Serves

(* Cursors, pages, rollbacks, wake-ups and broken connections are invisible to
   a client: it sees what ResumableStream promises, if no burst between its
   last reads exceeds a page. *)
THEOREM StreamIsResumable == ASSUME Burst <= Limit PROVE Spec => IsResumable
<1>1. Init => P!Init
  BY DEF Init, Away, At, P!Init
<1>2. IInv /\ BroughtHome' /\ [Next]_vars
        => [P!Next]_<<events, endedAt, [r \in Readers |-> reader[r].seen],
                      [r \in Readers |-> reader[r].goal], {r \in Readers : At(r, "stopped")}>>
  BY PromiseStep DEF promised, received, aims, stopped, At
<1> QED BY <1>1, <1>2, Invariance, StoppedIsHome, PTL DEF Spec, IsResumable, P!Spec
==============================================================================

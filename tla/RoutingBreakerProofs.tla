------------------------- MODULE RoutingBreakerProofs ------------------------
(***************************************************************************)
(* Proofs about RoutingBreaker, for any number of routings and any         *)
(* thresholds and timeout.                                                 *)
(***************************************************************************)
EXTENDS RoutingBreaker, FiniteSetTheorems, TLAPS

LEMMA Bounds ==
    /\ FailureThreshold \in Nat /\ FailureThreshold > 0
    /\ SuccessThreshold \in Nat /\ SuccessThreshold > 0
    /\ HalfOpenRequests \in Nat /\ HalfOpenRequests > 0
    /\ Timeout \in Nat /\ Timeout > 0
BY RoutingAssumption

(* A counter kept by UpTo never passes its limit. *)
LEMMA Saturates ==
    ASSUME NEW limit \in Nat, NEW n \in 0..limit
    PROVE  UpTo(limit, n + 1) \in 0..limit
BY DEF UpTo

(* What a report leaves behind, in whatever state it finds the breaker. *)
LEMMA Reports ==
    ASSUME TypeOK, NEW s \in {"closed", "open", "half_open"}, OnSuccess(s) \/ OnFailure(s)
    PROVE  /\ state' \in {"closed", "open", "half_open"}
           /\ failures' \in 0..FailureThreshold
           /\ successes' \in 0..SuccessThreshold
           /\ s = "open" => state' = "open"
<1>1. /\ UpTo(FailureThreshold, failures + 1) \in 0..FailureThreshold
      /\ UpTo(SuccessThreshold, successes + 1) \in 0..SuccessThreshold
      /\ 0 \in 0..FailureThreshold /\ 0 \in 0..SuccessThreshold
  BY Bounds, Saturates DEF TypeOK
<1>2. CASE OnSuccess(s)
  BY <1>1, <1>2 DEF OnSuccess
<1>3. CASE OnFailure(s)
  BY <1>1, <1>3 DEF OnFailure
<1> QED BY <1>2, <1>3

LEMMA Rearmed == TypeOK /\ Rearm => wait' \in 0..Timeout
BY Bounds DEF TypeOK, Rearm

LEMMA Tried ==
    ASSUME TypeOK
    PROVE  /\ Entered \in {"closed", "open", "half_open"}
           /\ Used \in 0..HalfOpenRequests
           /\ state = "open" /\ wait > 0 => Entered = "open"
BY Bounds DEF TypeOK, Entered, Used, Reset

LEMMA TypeInit == Init => TypeOK
BY Bounds DEF Init, TypeOK

LEMMA TypeStep == TypeOK /\ [Next]_vars => TypeOK'
<1> SUFFICES ASSUME TypeOK, [Next]_vars PROVE TypeOK'
  OBVIOUS
<1>1. ASSUME NEW c \in Routings, Route(c) PROVE TypeOK'
  <2>1. trials' \in 0..HalfOpenRequests
    <3>1. CASE Entered = "half_open"
      <4>1. Used < HalfOpenRequests
        BY <1>1, <3>1 DEF Route, LetIn
      <4> QED BY <1>1, <3>1, <4>1, Tried, Bounds DEF Route
    <3>2. CASE Entered # "half_open"
      BY <1>1, <3>2 DEF Route, TypeOK
    <3> QED BY <3>1, <3>2
  <2> QED BY <1>1, <2>1, Tried, Reports, Rearmed DEF Route, TypeOK
<1>2. ASSUME NEW c \in Routings, TurnedAway(c) PROVE TypeOK'
  BY <1>2, Tried, Reports, Rearmed DEF TurnedAway, TypeOK
<1>3. ASSUME NEW c \in Routings, Decided(c) PROVE TypeOK'
  <2>1. streak' \in 0..FailureThreshold
    BY <1>3, Bounds DEF Decided
  <2> QED BY <1>3, <2>1, Reports, Rearmed DEF Decided, Leave, TypeOK
<1>4. ASSUME NEW c \in Routings, RoutingFails(c) PROVE TypeOK'
  <2>1. streak' \in 0..FailureThreshold
    BY <1>4, Bounds, Saturates DEF RoutingFails, TypeOK
  <2> QED BY <1>4, <2>1, Reports, Rearmed DEF RoutingFails, Leave, TypeOK
<1>5. ASSUME NEW c \in Routings, Cancelled(c) PROVE TypeOK'
  BY <1>5 DEF Cancelled, Leave, TypeOK
<1>6. CASE Tick
  BY <1>6, Bounds DEF Tick, TypeOK
<1>7. CASE UNCHANGED vars
  BY <1>7 DEF vars, TypeOK
<1> QED BY <1>1, <1>2, <1>3, <1>4, <1>5, <1>6, <1>7 DEF Next, Ends

(* Whatever routings report and when, the breaker's counters stay within their
   limits: a half-open breaker never lets more trials in than it may. *)
THEOREM RoutingIsTyped == Spec => []TypeOK
BY TypeInit, TypeStep, PTL DEF Spec

(* No late report of a routing that was let in earlier closes an open breaker
   before its timeout. *)
THEOREM OpenIsHeld == Spec => OpenHolds
<1>1. TypeOK /\ [Next]_vars => [state = "open" /\ wait > 0 => state' = "open"]_vars
  <2> SUFFICES ASSUME TypeOK, Next, state = "open", wait > 0 PROVE state' = "open"
    OBVIOUS
  <2>1. ASSUME NEW c \in Routings, TurnedAway(c) PROVE state' = "open"
    BY <2>1, Tried, Reports DEF TurnedAway
  <2>2. ASSUME NEW c \in Routings, Ends(c) PROVE state' = "open"
    BY <2>2, Reports DEF Ends, Decided, RoutingFails, Cancelled
  <2>3. ASSUME NEW c \in Routings, Route(c) PROVE FALSE
    BY <2>3, Tried DEF Route, LetIn
  <2> QED BY <2>1, <2>2, <2>3 DEF Next, Tick
<1> QED BY <1>1, TypeInit, TypeStep, PTL DEF Spec, OpenHolds

(* In a closed breaker the count of consecutive failures never exceeds the
   failures routings really had since one last succeeded: the reports of
   queries turned away are counted in other states, and leaving those clears
   the count. *)
Earned == state = "closed" => failures <= streak

EarnedInv == TypeOK /\ Earned

LEMMA EarnedInit == Init => EarnedInv
BY TypeInit DEF Init, EarnedInv, Earned

(* A success leaves a count of zero; a failure reported to a closed breaker is
   one that a routing had. *)
LEMMA EarnedStep == EarnedInv /\ [Next]_vars => EarnedInv'
<1> SUFFICES ASSUME EarnedInv, [Next]_vars PROVE Earned'
  BY TypeStep DEF EarnedInv
<1> USE DEF EarnedInv, Earned
<1>1. streak' \in Nat
  BY TypeStep, Bounds DEF TypeOK
<1>2. ASSUME NEW c \in Routings, Route(c) \/ Decided(c) PROVE Earned'
  BY <1>1, <1>2 DEF Route, Decided, OnSuccess
<1>3. ASSUME NEW c \in Routings, TurnedAway(c) PROVE Earned'
  <2>1. Entered # "closed"
    BY <1>3 DEF TurnedAway, LetIn
  <2>2. state' # "closed"
    BY <1>3, <2>1, Tried DEF TurnedAway, OnFailure
  <2> QED BY <2>2
<1>4. ASSUME NEW c \in Routings, RoutingFails(c) PROVE Earned'
  <2>1. CASE state = "closed"
    BY <1>4, <2>1, Bounds DEF RoutingFails, OnFailure, UpTo, TypeOK
  <2>2. CASE state # "closed"
    BY <1>4, <2>2 DEF RoutingFails, OnFailure
  <2> QED BY <2>1, <2>2
<1>5. ASSUME NEW c \in Routings, Cancelled(c) PROVE Earned'
  BY <1>5 DEF Cancelled
<1>6. CASE Tick \/ UNCHANGED vars
  BY <1>6 DEF Tick, vars
<1> QED BY <1>2, <1>3, <1>4, <1>5, <1>6 DEF Next, Ends

(* A breaker that opens has seen a threshold of routings fail with none
   deciding in between, however many other routings overlap them, are turned
   away or are cancelled. *)
THEOREM OpensByEvidence == Spec => OpensOnEvidence
<1>1. EarnedInv /\ EarnedInv' /\ [Next]_vars
      => [state = "closed" /\ state' = "open" => streak' = FailureThreshold]_vars
  <2> SUFFICES ASSUME EarnedInv, EarnedInv', Next, state = "closed", state' = "open"
               PROVE  streak' = FailureThreshold
    OBVIOUS
  <2>1. Entered = "closed"
    BY DEF Entered, Reset
  <2>2. ASSUME NEW c \in Routings, RoutingFails(c) PROVE streak' = FailureThreshold
    BY <2>2, Bounds
       DEF RoutingFails, OnFailure, UpTo, EarnedInv, Earned, TypeOK
  <2>3. ASSUME NEW c \in Routings, Route(c) \/ TurnedAway(c) PROVE FALSE
    BY <2>1, <2>3 DEF Route, TurnedAway, OnSuccess, LetIn
  <2>4. ASSUME NEW c \in Routings, Decided(c) \/ Cancelled(c) PROVE FALSE
    BY <2>4 DEF Decided, Cancelled, OnSuccess
  <2> QED BY <2>2, <2>3, <2>4 DEF Next, Ends, Tick
<1> QED BY <1>1, EarnedInit, EarnedStep, PTL DEF Spec, OpensOnEvidence

-----------------------------------------------------------------------------
(* Being let in clears the count of failures, so the failures a closed breaker
   counts are those of routings that were all under way at once. *)
Overlapping ==
    state = "closed" => failures + Cardinality(routing) <= Cardinality(Routings)

LEMMA OverlapStep ==
    ASSUME IsFiniteSet(Routings)
    PROVE  TypeOK /\ Overlapping /\ [Next]_vars => Overlapping'
<1> SUFFICES ASSUME IsFiniteSet(Routings), TypeOK, Overlapping, [Next]_vars,
                    state' = "closed"
             PROVE  failures' + Cardinality(routing') <= Cardinality(Routings)
  BY DEF Overlapping
<1>1. /\ routing \subseteq Routings /\ routing' \subseteq Routings
      /\ failures \in 0..FailureThreshold /\ failures' \in 0..FailureThreshold
  BY TypeStep DEF TypeOK
<1>2. /\ IsFiniteSet(routing) /\ Cardinality(routing) \in Nat
      /\ Cardinality(routing') \in Nat /\ Cardinality(routing') <= Cardinality(Routings)
  BY <1>1, FS_Subset, FS_CardinalityType
<1>3. ASSUME NEW c \in Routings, Leave(c)
      PROVE  Cardinality(routing') = Cardinality(routing) - 1
  BY <1>2, <1>3, FS_RemoveElement DEF Leave
<1>4. ASSUME NEW c \in Routings, Route(c) \/ Decided(c)
      PROVE  failures' + Cardinality(routing') <= Cardinality(Routings)
  <2>1. failures' = 0
    BY <1>4 DEF Route, Decided, OnSuccess
  <2> QED BY <1>2, <2>1
<1>5. ASSUME NEW c \in Routings, TurnedAway(c) PROVE FALSE
  <2>1. Entered # "closed"
    BY <1>5 DEF TurnedAway, LetIn
  <2> QED BY <1>5, <2>1 DEF TurnedAway, OnFailure
<1>6. ASSUME NEW c \in Routings, RoutingFails(c)
      PROVE  failures' + Cardinality(routing') <= Cardinality(Routings)
  <2>1. state = "closed" /\ failures' = UpTo(FailureThreshold, failures + 1)
    BY <1>6 DEF RoutingFails, OnFailure
  <2>2. failures' <= failures + 1
    BY <1>1, <2>1, Bounds DEF UpTo
  <2>3. Cardinality(routing') = Cardinality(routing) - 1
    BY <1>3, <1>6 DEF RoutingFails
  <2>4. failures + Cardinality(routing) <= Cardinality(Routings)
    BY <2>1 DEF Overlapping
  <2>5. Cardinality(Routings) \in Nat
    BY FS_CardinalityType
  <2> QED BY <1>1, <1>2, <2>2, <2>3, <2>4, <2>5
<1>7. ASSUME NEW c \in Routings, Cancelled(c)
      PROVE  failures' + Cardinality(routing') <= Cardinality(Routings)
  <2>1. UNCHANGED <<state, failures>> /\ Cardinality(routing') = Cardinality(routing) - 1
    BY <1>3, <1>7 DEF Cancelled
  <2>2. failures + Cardinality(routing) <= Cardinality(Routings)
    BY <2>1 DEF Overlapping
  <2>3. Cardinality(Routings) \in Nat
    BY FS_CardinalityType
  <2> QED BY <1>1, <1>2, <2>1, <2>2, <2>3
<1>8. CASE Tick \/ UNCHANGED vars
  BY <1>8 DEF Overlapping, Tick, vars
<1> QED BY <1>4, <1>5, <1>6, <1>7, <1>8 DEF Next, Ends

(* Queries routed one after another, or fewer than the threshold at once, never
   open the breaker, however many of them fail: it takes a full threshold of
   routings that overlap. *)
THEOREM OpensOnlyOnOverlap ==
    ASSUME IsFiniteSet(Routings), Cardinality(Routings) < FailureThreshold
    PROVE  Spec => [](state = "closed")
<1>1. Init => Overlapping /\ state = "closed"
  BY FS_EmptySet, FS_CardinalityType DEF Init, Overlapping
<1>2. TypeOK /\ TypeOK' /\ Overlapping /\ state = "closed" /\ [Next]_vars => (state = "closed")'
  <2> SUFFICES ASSUME TypeOK, Overlapping, state = "closed", [Next]_vars
               PROVE  state' = "closed"
    OBVIOUS
  <2>1. Entered = "closed"
    BY DEF Entered, Reset
  <2>2. ASSUME NEW c \in Routings, Route(c) \/ TurnedAway(c) PROVE state' = "closed"
    BY <2>1, <2>2 DEF Route, TurnedAway, OnSuccess, LetIn
  <2>3. ASSUME NEW c \in Routings, Decided(c) \/ Cancelled(c) PROVE state' = "closed"
    BY <2>3 DEF Decided, Cancelled, OnSuccess
  <2>4. ASSUME NEW c \in Routings, RoutingFails(c) PROVE state' = "closed"
    <3>1. /\ IsFiniteSet(routing) /\ Cardinality(routing) \in Nat
          /\ Cardinality(Routings) \in Nat /\ failures \in Nat
      BY FS_Subset, FS_CardinalityType DEF TypeOK
    <3>2. c \in routing /\ Cardinality(routing) # 0
      BY <2>4, <3>1, FS_EmptySet DEF RoutingFails, Leave
    <3>3. failures + 1 < FailureThreshold
      BY <3>1, <3>2, Bounds DEF Overlapping
    <3> QED BY <2>4, <3>1, <3>3, Bounds DEF RoutingFails, OnFailure, UpTo
  <2> QED BY <2>2, <2>3, <2>4 DEF Next, Ends, Tick, vars
<1>3. TypeOK /\ Overlapping /\ [Next]_vars => Overlapping'
  BY OverlapStep
<1> QED BY <1>1, <1>2, <1>3, TypeInit, TypeStep, PTL DEF Spec
==============================================================================

------------------------ MODULE ToolInvocationProofs -------------------------
(***************************************************************************)
(* Proofs about ToolInvocation, for any number of calls, any lease and any *)
(* number of faults: the properties of the durable row, and that one key   *)
(* implements IdempotentCall.                                              *)
(***************************************************************************)
EXTENDS ToolInvocation, TLAPS

Worked == {"succeeded", "timed_out"}

RowRecord == [owner : Calls \cup {NoOne}, lease : 0..(MaxTime + Lease),
              outcome : {"absent", "requested"} \cup Terminal]
CallRecord == [
    pc : {"idle", "looking", "clear", "admitted", "running", "settling", "done"},
    at : 0..MaxTime, ran : BOOLEAN, beat : -1..MaxTime,
    heart : {"still", "beating", "lost"},
    result : Results \cup {"none", "refused"},
    answer : Terminal \cup {"none", "in_progress", "raised"}]

RowOK(r) ==
    /\ r \in RowRecord
    /\ IF r.outcome = "absent" THEN r = NoRow ELSE r.owner \in Calls

(* What a call k of c says about row r. A call that ran owns the row, and while
   it has not ended only an expired lease can have settled it. *)
Fits(k, c, r) ==
    /\ k.pc \in {"idle", "looking", "clear", "admitted"} => ~k.ran
    /\ k.pc = "running" => k.ran
    /\ k.pc \in {"admitted", "running"} =>
            r.owner = c /\ r.outcome \in {"requested", "unknown"}
    /\ k.ran => r.owner = c /\ r.outcome # "absent"
    /\ k.pc = "settling" =>
            /\ k.result # "none"
            /\ k.result \in Worked => k.ran
            /\ k.result = "refused" => ~k.ran
    /\ k.pc # "done" => k.answer = "none"
    /\ k.answer \in Terminal => r.outcome = k.answer

IInv ==
    /\ RowOK(row) /\ completions \in Nat
    /\ call \in [Calls -> CallRecord]
    /\ clock \in 0..MaxTime /\ faults \in 0..MaxFaults
    /\ \A c \in Calls : Fits(call[c], c, row)
    /\ OneCompletion /\ RowIsTruthful

(* What a step of c may do to the row: nothing but a new lease, take the key,
   take it with its outcome, or settle it. *)
RowStep(c) ==
    /\ RowOK(row')
    /\ \/ row'.owner = row.owner /\ row'.outcome = row.outcome /\ completions' = completions
       \/ /\ row.outcome = "absent" /\ row'.owner = c /\ row'.outcome = "requested"
          /\ completions' = completions
       \/ /\ row.outcome = "absent" /\ row'.owner = c /\ row'.outcome \in Terminal \ Worked
          /\ completions' = completions + 1
       \/ /\ row.outcome = "requested" /\ row'.owner = row.owner
          /\ row'.outcome \in Terminal /\ completions' = completions + 1
          /\ \/ row'.outcome = "unknown"
             \/ /\ row.owner = c /\ call[c].pc = "settling"
                /\ row'.outcome = call[c].result

(* What a call may be told of a row r. *)
Told(r) == IF r.outcome \in Terminal THEN {r.outcome} ELSE {"in_progress"}

(* A step of c that does not start its handler, and what it does to the call. *)
CallStep(c) ==
    /\ call' \in [Calls -> CallRecord]
    /\ \A d \in Calls \ {c} : call'[d] = call[d]
    /\ call'[c].ran = call[c].ran
    /\ \/ call'[c].answer = call[c].answer
       \/ call[c].answer = "none" /\ call'[c].answer \in {"raised"} \cup Told(row')
    /\ Fits(call'[c], c, row')

Moves(c) ==
    /\ RowStep(c) /\ CallStep(c)
    /\ clock' = clock /\ faults' \in 0..MaxFaults

-----------------------------------------------------------------------------
(* Such a step keeps the invariant. *)
LEMMA MovesKeep == ASSUME IInv, NEW c \in Calls, Moves(c) PROVE IInv'
<1>1. /\ RowOK(row) /\ RowOK(row') /\ completions \in Nat
      /\ call \in [Calls -> CallRecord] /\ call' \in [Calls -> CallRecord]
      /\ \A d \in Calls : Fits(call[d], d, row)
      /\ \A d \in Calls \ {c} : call'[d] = call[d]
      /\ call'[c].ran = call[c].ran /\ Fits(call'[c], c, row')
      /\ OneCompletion /\ RowIsTruthful
  BY DEF IInv, Moves, RowStep, CallStep
<1>2. ASSUME NEW d \in Calls \ {c} PROVE Fits(call'[d], d, row')
  <2>1. Fits(call[d], d, row) /\ call'[d] = call[d] /\ call[d] \in CallRecord
    BY <1>1
  <2>2. /\ call[d].pc \in {"admitted", "running"} =>
              row'.owner = d /\ row'.outcome \in {"requested", "unknown"}
        /\ call[d].ran => row'.owner = d /\ row'.outcome # "absent"
        /\ call[d].answer \in Terminal => row'.outcome = call[d].answer
    BY <2>1 DEF Fits, Moves, RowStep, Terminal, Results
  <2> QED BY <2>1, <2>2 DEF Fits
<1>3. completions' \in Nat /\ OneCompletion'
  BY <1>1 DEF Moves, RowStep, OneCompletion, Terminal, Results
<1>4. RowIsTruthful'
  <2>1. \A d \in Calls : call'[d].ran = call[d].ran
    BY <1>1
  <2>2. ASSUME row'.outcome \in Worked PROVE call'[row'.owner].ran
    <3>1. CASE row'.owner = row.owner /\ row'.outcome = row.outcome
      <4>1. call[row.owner].ran
        BY <1>1, <2>2, <3>1 DEF RowIsTruthful, Worked
      <4>2. row.owner \in Calls
        BY <2>2, <3>1, <1>1 DEF RowOK, Worked
      <4> QED BY <2>1, <3>1, <4>1, <4>2
    <3>2. CASE row.owner = c /\ call[c].pc = "settling" /\ row'.outcome = call[c].result
               /\ row'.owner = row.owner
      BY <1>1, <2>2, <3>2 DEF Fits
    <3> QED BY <2>2, <3>1, <3>2 DEF Moves, RowStep, Worked
  <2>3. ASSUME row'.outcome = "refused", NEW d \in Calls PROVE ~call'[d].ran
    <3>1. CASE row'.outcome = row.outcome
      BY <1>1, <2>1, <2>3, <3>1 DEF RowIsTruthful
    <3>2. CASE row.outcome = "absent"
      BY <1>1, <2>1, <2>3, <3>2 DEF Fits
    <3>3. CASE row.owner = c /\ call[c].pc = "settling" /\ row'.outcome = call[c].result
      BY <1>1, <2>1, <2>3, <3>3 DEF Fits
    <3> QED BY <2>3, <3>1, <3>2, <3>3 DEF Moves, RowStep
  <2> QED BY <2>2, <2>3 DEF RowIsTruthful, Worked
<1> QED BY <1>1, <1>2, <1>3, <1>4 DEF IInv, Moves

-----------------------------------------------------------------------------
(* What the transactions do to the row, and what they tell. *)
LEMMA Facts ==
    ASSUME IInv, NEW c \in Calls
    PROVE  /\ row \in RowRecord /\ completions \in Nat /\ RowOK(row)
           /\ call \in [Calls -> CallRecord] /\ call[c] \in CallRecord
           /\ clock \in 0..MaxTime /\ faults \in 0..MaxFaults
           /\ Fits(call[c], c, row)
           /\ (row = NoRow) <=> (row.outcome = "absent")
           /\ Lease \in Nat /\ MaxTime \in Nat
BY InvocationAssumption DEF IInv, RowOK, NoRow

LEMMA Leases ==
    ASSUME NEW time \in 0..MaxTime PROVE time + Lease \in 0..(MaxTime + Lease)
BY InvocationAssumption

LEMMA Settles ==
    ASSUME IInv, NEW c \in Calls, NEW o \in Terminal, Pending, SettleRow(o),
           o = "unknown" \/ (row.owner = c /\ call[c].pc = "settling" /\ o = call[c].result)
    PROVE  RowStep(c) /\ row'.outcome = o /\ row'.owner = row.owner
<1>1. row \in RowRecord /\ row.outcome = "requested" /\ row.owner \in Calls
      /\ 0 \in 0..(MaxTime + Lease)
  BY Facts, InvocationAssumption DEF Pending, RowOK, IInv
<1>2. row' \in RowRecord /\ row'.outcome = o /\ row'.owner = row.owner
  BY <1>1 DEF SettleRow, RowRecord
<1>3. o # "absent"
  BY DEF Terminal, Results
<1> QED BY <1>1, <1>2, <1>3 DEF RowStep, RowOK, SettleRow

LEMMA StaysPut == ASSUME IInv, NEW c \in Calls, Unwritten PROVE RowStep(c) /\ row' = row
BY Facts DEF Unwritten, RowStep, RowOK

LEMMA Reserves ==
    ASSUME IInv, NEW c \in Calls, Reserve(c)
    PROVE  RowStep(c) /\ row'.owner = c /\ row'.outcome = "requested" /\ row = NoRow
<1>1. row.outcome = "absent" /\ call[c].at + Lease \in 0..(MaxTime + Lease)
  BY Facts, Leases DEF Reserve, CallRecord
<1>2. row' \in RowRecord
  BY <1>1 DEF Reserve, RowRecord
<1> QED BY <1>1, <1>2 DEF Reserve, RowStep, RowOK

LEMMA Searches ==
    ASSUME IInv, NEW c \in Calls, NEW told, Search(c, told)
    PROVE  /\ RowStep(c)
           /\ told # "clear" => told \in Told(row')
<1>1. CASE /\ row.outcome \in Terminal \/ LiveAt(call[c].at)
           /\ told = Replayed /\ Unwritten
  BY <1>1, StaysPut DEF Told, Replayed, Pending, LiveAt, Terminal, Results
<1>3. CASE row = NoRow /\ told = "clear" /\ Unwritten
  BY <1>3, StaysPut
<1>2. CASE Pending /\ told = "unknown" /\ SettleRow("unknown")
  BY <1>2, Settles DEF Told, Terminal
<1> QED BY <1>1, <1>2, <1>3 DEF Search

LEMMA Concludes ==
    ASSUME IInv, NEW c \in Calls, call[c].pc = "settling", NEW told, Conclude(c, told)
    PROVE  RowStep(c) /\ told \in Told(row')
<1>1. call[c].result \in Terminal
  BY Facts DEF Fits, CallRecord, Terminal
<1>2. CASE /\ row = NoRow /\ told = call[c].result
           /\ row' = [owner |-> c, outcome |-> told, lease |-> 0]
           /\ completions' = completions + 1
  <2>1. row.outcome = "absent" /\ 0 \in 0..(MaxTime + Lease)
    BY <1>2, Facts
  <2>2. told \notin Worked
    BY <1>2, <2>1, Facts DEF Fits
  <2>3. row' \in RowRecord /\ row'.outcome = told /\ row'.owner = c /\ told # "absent"
    BY <1>1, <1>2, <2>1 DEF RowRecord, Terminal, Results
  <2> QED BY <1>1, <1>2, <2>1, <2>2, <2>3 DEF RowStep, RowOK, Told
<1>3. CASE row.owner = c /\ LiveAt(clock) /\ told = call[c].result /\ SettleRow(told)
  BY <1>1, <1>3, Settles DEF LiveAt, Told
<1>4. CASE Pending /\ told = "unknown" /\ SettleRow("unknown")
  BY <1>4, Settles DEF Told, Terminal
<1>5. CASE row # NoRow /\ told = Replayed /\ Unwritten
  <2>1. RowStep(c) /\ row' = row /\ row.outcome # "absent"
    BY <1>5, Facts, StaysPut
  <2>2. row.outcome \in {"requested"} \cup Terminal /\ "requested" \notin Terminal
    BY <2>1, Facts DEF RowRecord, Terminal, Results
  <2> QED BY <1>5, <2>1, <2>2 DEF Told, Replayed, Pending
<1> QED BY <1>2, <1>3, <1>4, <1>5 DEF Conclude

-----------------------------------------------------------------------------
(* What the steps do to a call. *)
LEMMA Answers ==
    ASSUME IInv, NEW c \in Calls, call[c].pc # "done", NEW what,
           what \in {"raised"} \cup Told(row'), Answer(c, what), RowStep(c)
    PROVE  CallStep(c)
<1>1. what \in Terminal \cup {"none", "in_progress", "raised"}
  BY DEF Told
<1>2. call' \in [Calls -> CallRecord]
  BY <1>1, Facts DEF Answer, CallRecord
<1>3. /\ call'[c].pc = "done" /\ call'[c].answer = what /\ call'[c].ran = call[c].ran
      /\ \A d \in Calls \ {c} : call'[d] = call[d]
  BY Facts DEF Answer, CallRecord
<1>4. /\ call[c].answer = "none"
      /\ call[c].ran => row'.owner = c /\ row'.outcome # "absent"
  BY Facts DEF Fits, RowStep, Terminal, Results
<1>5. what \in Terminal => row'.outcome = what
  BY DEF Told, Terminal, Results
<1> QED BY <1>2, <1>3, <1>4, <1>5 DEF CallStep, Fits

(* A call that goes to be settled. *)
LEMMA Settlings ==
    ASSUME IInv, NEW c \in Calls, call[c].pc # "done", RowStep(c),
           NEW k \in CallRecord, call' = [call EXCEPT ![c] = k],
           k.pc = "settling", k.ran = call[c].ran, k.answer = call[c].answer,
           k.result # "none", k.result \in Worked => call[c].ran,
           k.result = "refused" => ~call[c].ran
    PROVE  CallStep(c)
<1>1. /\ call'[c] = k /\ call' \in [Calls -> CallRecord]
      /\ \A d \in Calls \ {c} : call'[d] = call[d]
  BY Facts
<1>2. /\ call[c].answer = "none"
      /\ call[c].ran => row'.owner = c /\ row'.outcome # "absent"
  BY Facts DEF Fits, RowStep, Terminal, Results
<1>3. "none" \notin Terminal
  BY DEF Terminal, Results
<1> QED BY <1>1, <1>2, <1>3 DEF CallStep, Fits

LEMMA SettlingMoves ==
    ASSUME IInv, NEW c \in Calls, call[c].pc # "done", RowStep(c),
           NEW result \in Results \cup {"refused"}, Settling(c, result),
           result \in Worked => call[c].ran, result = "refused" => ~call[c].ran
    PROVE  CallStep(c)
<1> DEFINE k == [call[c] EXCEPT !.pc = "settling", !.result = result]
<1>1. k \in CallRecord
  BY Facts DEF CallRecord
<1>2. /\ k.pc = "settling" /\ k.ran = call[c].ran /\ k.answer = call[c].answer
      /\ k.result = result /\ result # "none"
  BY Facts DEF CallRecord, Results
<1>3. call' = [call EXCEPT ![c] = k]
  BY Facts DEF Settling
<1> HIDE DEF k
<1> QED BY <1>1, <1>2, <1>3, Settlings

(* A call in whose record only the heart changes. *)
LEMMA HeartBeats ==
    ASSUME IInv, NEW c \in Calls, call[c].pc # "done",
           NEW k \in CallRecord, call' = [call EXCEPT ![c] = k],
           k.pc = call[c].pc, k.ran = call[c].ran, k.answer = call[c].answer,
           k.result = call[c].result,
           RowOK(row'), UNCHANGED <<row.owner, row.outcome, completions>>
    PROVE  RowStep(c) /\ CallStep(c)
<1>1. /\ call'[c] = k /\ call' \in [Calls -> CallRecord]
      /\ \A d \in Calls \ {c} : call'[d] = call[d]
  BY Facts
<1> QED BY <1>1, Facts DEF RowStep, CallStep, Fits

-----------------------------------------------------------------------------
(* Each action but the start of a handler and the clock makes such a step. *)
LEMMA LookUpMoves ==
    ASSUME IInv, NEW c \in Calls, Begin(c) \/ LookUp(c) PROVE Moves(c)
<1>1. CASE Begin(c)
  <2>1. RowStep(c)
    BY <1>1, StaysPut DEF Begin, Unwritten
  <2>2. /\ call' \in [Calls -> CallRecord] /\ call'[c].pc = "looking"
        /\ call'[c].ran = call[c].ran /\ call'[c].answer = call[c].answer
        /\ \A d \in Calls \ {c} : call'[d] = call[d]
    BY <1>1, Facts DEF Begin, CallRecord
  <2>3. call[c].pc = "idle" /\ row' = row
    BY <1>1 DEF Begin, At
  <2>4. CallStep(c)
    BY <2>2, <2>3, Facts DEF CallStep, Fits
  <2> QED BY <1>1, <2>1, <2>4, Facts DEF Begin, Moves
<1>2. CASE LookUp(c)
  <2>1. call[c].pc = "looking"
    BY <1>2 DEF LookUp, At
  <2>2. CASE Search(c, "clear") /\ Go(c, "clear")
    <3>1. /\ call' \in [Calls -> CallRecord] /\ call'[c].pc = "clear"
          /\ call'[c].ran = call[c].ran /\ call'[c].answer = call[c].answer
          /\ \A d \in Calls \ {c} : call'[d] = call[d]
      BY <2>2, Facts DEF Go, CallRecord
    <3>2. call[c].answer \notin Terminal
      BY <2>1, Facts DEF Fits, Terminal, Results
    <3>3. CallStep(c)
      BY <2>1, <3>1, <3>2, Facts DEF CallStep, Fits
    <3> QED BY <1>2, <2>2, <3>3, Searches, Facts DEF LookUp, Moves
  <2>3. ASSUME NEW told \in Terminal \cup {"in_progress"}, Search(c, told), Answer(c, told)
        PROVE  Moves(c)
    <3>1. told # "clear"
      BY DEF Terminal, Results
    <3>2. RowStep(c) /\ CallStep(c)
      BY <2>1, <2>3, <3>1, Searches, Answers
    <3> QED BY <1>2, <3>2, Facts DEF LookUp, Moves
  <2> QED BY <1>2, <2>2, <2>3 DEF LookUp
<1> QED BY <1>1, <1>2

LEMMA RequestMoves ==
    ASSUME IInv, NEW c \in Calls, Request(c) PROVE Moves(c)
<1>1. call[c].pc = "clear" /\ call[c].answer = "none" /\ ~call[c].ran
  BY Facts DEF Request, At, Fits
<1>2. CASE /\ Reserve(c)
           /\ call' = [call EXCEPT ![c].pc = "admitted", ![c].heart = "beating"]
  <2>1. RowStep(c) /\ row'.owner = c /\ row'.outcome = "requested"
    BY <1>2, Reserves
  <2>2. /\ call' \in [Calls -> CallRecord] /\ call'[c].pc = "admitted"
        /\ call'[c].ran = call[c].ran /\ call'[c].answer = call[c].answer
        /\ \A d \in Calls \ {c} : call'[d] = call[d]
    BY <1>2, Facts DEF CallRecord
  <2>3. "none" \notin Terminal
    BY DEF Terminal, Results
  <2>4. CallStep(c)
    BY <1>1, <2>1, <2>2, <2>3 DEF CallStep, Fits
  <2> QED BY <2>1, <2>4, Facts DEF Request, Moves
<1>3. CASE row # NoRow /\ Answer(c, Replayed) /\ Unwritten
  <2>1. RowStep(c) /\ row' = row /\ row.outcome \in {"requested"} \cup Terminal
    BY <1>3, Facts, StaysPut DEF RowRecord
  <2>2. Replayed \in Told(row')
    BY <2>1 DEF Replayed, Told, Pending, Terminal, Results
  <2>3. CallStep(c)
    BY <1>1, <1>3, <2>1, <2>2, Answers
  <2> QED BY <2>1, <2>3, Facts DEF Request, Moves
<1> QED BY <1>2, <1>3 DEF Request

LEMMA CancelledMoves ==
    ASSUME IInv, NEW c \in Calls, CancelledRequesting(c) PROVE Moves(c)
<1>1. call[c].pc = "clear" /\ call[c].pc # "done"
  BY DEF CancelledRequesting, At
<1>2. faults' \in 0..MaxFaults /\ clock' = clock
  BY Facts, InvocationAssumption DEF CancelledRequesting
<1>3. RowStep(c)
  BY Reserves, StaysPut DEF CancelledRequesting
<1>4. CASE Settling(c, "cancelled")
  <2>1. CallStep(c)
    BY <1>1, <1>3, <1>4, SettlingMoves DEF Results, Worked
  <2> QED BY <1>2, <1>3, <2>1 DEF Moves
<1>5. CASE call' = [call EXCEPT ![c].pc = "settling", ![c].result = "cancelled",
                                ![c].heart = "beating"]
  <2> DEFINE k == [call[c] EXCEPT !.pc = "settling", !.result = "cancelled",
                                  !.heart = "beating"]
  <2>1. k \in CallRecord
    BY Facts DEF CallRecord, Results
  <2>2. /\ k.pc = "settling" /\ k.ran = call[c].ran /\ k.answer = call[c].answer
        /\ k.result = "cancelled"
    BY Facts DEF CallRecord
  <2>3. call' = [call EXCEPT ![c] = k]
    BY <1>5, Facts
  <2> HIDE DEF k
  <2>4. CallStep(c)
    BY <1>1, <1>3, <2>1, <2>2, <2>3, Settlings DEF Worked
  <2> QED BY <1>2, <1>3, <2>4 DEF Moves
<1> QED BY <1>4, <1>5 DEF CancelledRequesting

LEMMA SettlingsMove ==
    ASSUME IInv, NEW c \in Calls, Refuse(c) \/ LeaveAdmission(c) \/ HandlerEnds(c)
    PROVE  Moves(c)
<1>1. /\ RowStep(c) /\ call[c].pc \in {"clear", "admitted", "running"}
      /\ clock' = clock /\ faults' \in 0..MaxFaults
  BY StaysPut, Facts DEF Refuse, LeaveAdmission, HandlerEnds, At, Unwritten
<1>2. CallStep(c)
  <2>1. CASE Refuse(c)
    BY <1>1, <2>1, Facts, SettlingMoves DEF Refuse, At, Fits, Worked
  <2>2. CASE Settling(c, "failed") \/ Settling(c, "cancelled")
    BY <1>1, <2>2, SettlingMoves DEF Results, Worked
  <2>3. CASE At(c, "running") /\ \E result \in Results : Settling(c, result)
    BY <1>1, <2>3, Facts, SettlingMoves DEF At, Fits, Results
  <2> QED BY <2>1, <2>2, <2>3 DEF LeaveAdmission, HandlerEnds
<1> QED BY <1>1, <1>2 DEF Moves

LEMMA SettleMoves ==
    ASSUME IInv, NEW c \in Calls, Settle(c) PROVE Moves(c)
<1>1. PICK told \in Terminal \cup {"in_progress"} : Conclude(c, told) /\ Answer(c, told)
  BY DEF Settle
<1>2. call[c].pc = "settling"
  BY DEF Settle, At
<1>3. RowStep(c) /\ CallStep(c)
  BY <1>1, <1>2, Concludes, Answers
<1> QED BY <1>3, Facts DEF Settle, Moves

LEMMA FaultsMove ==
    ASSUME IInv, NEW c \in Calls, Raises(c) \/ Dies(c) PROVE Moves(c)
<1>1. /\ call[c].pc # "done" /\ Answer(c, "raised") /\ clock' = clock
      /\ faults' \in 0..MaxFaults
  BY Facts, InvocationAssumption DEF Raises, Dies, At
<1>2. RowStep(c)
  BY StaysPut, Searches, Reserves, Concludes DEF Raises, Dies, At, Unwritten
<1>3. CallStep(c)
  BY <1>1, <1>2, Answers
<1> QED BY <1>1, <1>2, <1>3 DEF Moves

LEMMA HeartMoves ==
    ASSUME IInv, NEW c \in Calls, Beat(c) \/ Renew(c) \/ RenewFails(c) PROVE Moves(c)
<1>1. call[c].pc # "done" /\ clock' = clock /\ completions' = completions
  BY DEF Beat, Renew, RenewFails, Beating, At
<1>2. faults' \in 0..MaxFaults
  BY Facts, InvocationAssumption DEF Beat, Renew, RenewFails
<1>3. RowOK(row') /\ UNCHANGED <<row.owner, row.outcome>>
  <2>1. CASE row' = row
    BY <2>1, Facts DEF RowOK
  <2>2. CASE /\ call[c].beat # -1 /\ LiveAt(call[c].beat)
             /\ row' = [row EXCEPT !.lease = call[c].beat + Lease]
    <3>1. call[c].beat + Lease \in 0..(MaxTime + Lease)
      <4>1. call[c].beat \in 0..MaxTime
        BY <2>2, Facts DEF CallRecord
      <4> QED BY <4>1, Leases
    <3>2. row' \in RowRecord /\ row'.owner = row.owner /\ row'.outcome = row.outcome
      BY <2>2, <3>1, Facts DEF RowRecord
    <3> QED BY <2>2, <3>2, Facts DEF RowOK, LiveAt, Pending
  <2> QED BY <2>1, <2>2 DEF Beat, Renew, RenewFails
<1>4. CASE Beat(c)
  <2> DEFINE k == [call[c] EXCEPT !.beat = clock]
  <2>1. k \in CallRecord
    BY Facts DEF CallRecord
  <2>2. /\ k.pc = call[c].pc /\ k.ran = call[c].ran /\ k.answer = call[c].answer
        /\ k.result = call[c].result
    BY Facts DEF CallRecord
  <2>3. call' = [call EXCEPT ![c] = k]
    BY <1>4, Facts DEF Beat
  <2> HIDE DEF k
  <2> QED BY <1>1, <1>2, <1>3, <2>1, <2>2, <2>3, HeartBeats DEF Moves
<1>5. CASE Renew(c) \/ RenewFails(c)
  <2>1. PICK heart \in {"still", "beating", "lost"} :
            call' = [call EXCEPT ![c] = [call[c] EXCEPT !.beat = -1, !.heart = heart]]
    <3>1. call[c] = [call[c] EXCEPT !.heart = call[c].heart]
      BY Facts DEF CallRecord
    <3>2. call[c].heart \in {"still", "beating", "lost"}
      BY Facts DEF CallRecord
    <3>3. CASE call' = [call EXCEPT ![c].beat = -1]
      <4>1. [call[c] EXCEPT !.beat = -1] = [call[c] EXCEPT !.beat = -1, !.heart = call[c].heart]
        BY Facts DEF CallRecord
      <4> QED BY <3>2, <3>3, <4>1
    <3>4. CASE call' = [call EXCEPT ![c].beat = -1, ![c].heart = "lost"]
      BY <3>4, Facts
    <3> QED BY <1>5, <3>3, <3>4 DEF Renew, RenewFails
  <2> DEFINE k == [call[c] EXCEPT !.beat = -1, !.heart = heart]
  <2>2. k \in CallRecord
    <3>1. -1 \in -1..MaxTime
      BY InvocationAssumption
    <3> QED BY <3>1, Facts DEF CallRecord
  <2>3. /\ k.pc = call[c].pc /\ k.ran = call[c].ran /\ k.answer = call[c].answer
        /\ k.result = call[c].result
    BY Facts DEF CallRecord
  <2>4. call' = [call EXCEPT ![c] = k]
    BY <2>1
  <2> HIDE DEF k
  <2> QED BY <1>1, <1>2, <1>3, <2>2, <2>3, <2>4, HeartBeats DEF Moves
<1> QED BY <1>4, <1>5

(* The start of a handler: its call owns the row and nothing ran before. *)
LEMMA Starts ==
    ASSUME IInv, NEW c \in Calls, Dispatch(c)
    PROVE  /\ IInv'
           /\ row.owner = c /\ row.outcome \in {"requested", "unknown"}
           /\ \A d \in Calls : ~call[d].ran
           /\ \A d \in Calls : call'[d].ran <=> d = c
           /\ \A d \in Calls : call'[d].answer = call[d].answer
           /\ UNCHANGED row
<1>1. call[c].pc = "admitted" /\ UNCHANGED <<row, completions, clock, faults>>
  BY DEF Dispatch, At
<1>2. row.owner = c /\ row.outcome \in {"requested", "unknown"} /\ ~call[c].ran
  BY <1>1, Facts DEF Fits
<1>3. \A d \in Calls : ~call[d].ran
  BY <1>2 DEF IInv, Fits
<1>4. /\ call' \in [Calls -> CallRecord] /\ call'[c].pc = "running" /\ call'[c].ran = TRUE
      /\ call'[c].answer = call[c].answer
      /\ \A d \in Calls \ {c} : call'[d] = call[d]
  <2>1. call' = [call EXCEPT ![c].pc = "running", ![c].ran = TRUE]
    BY DEF Dispatch
  <2>2. call \in [Calls -> CallRecord]
    BY Facts
  <2> DEFINE k == [call[c] EXCEPT !.pc = "running", !.ran = TRUE]
  <2>3. call' = [call EXCEPT ![c] = k]
    BY <2>1, <2>2
  <2>4. call[c] \in CallRecord
    BY Facts
  <2>5. k \in CallRecord
    BY <2>4, ZenonT(30) DEF CallRecord
  <2>6. k.pc = "running" /\ k.ran = TRUE /\ k.answer = call[c].answer
    BY <2>4 DEF CallRecord
  <2> HIDE DEF k
  <2> QED BY <2>2, <2>3, <2>5, <2>6
<1>5. ASSUME NEW d \in Calls PROVE Fits(call'[d], d, row')
  <2>1. Fits(call[d], d, row) /\ Fits(call[c], c, row)
    BY DEF IInv
  <2>2. CASE d = c
    BY <1>1, <1>2, <1>4, <2>1, <2>2 DEF Fits
  <2>3. CASE d # c
    BY <1>1, <1>4, <2>1, <2>3
  <2> QED BY <2>2, <2>3
<1>6. OneCompletion' /\ RowIsTruthful'
  BY <1>1, <1>2 DEF IInv, OneCompletion, RowIsTruthful
<1>7. IInv'
  BY <1>1, <1>4, <1>5, <1>6 DEF IInv, RowOK
<1> QED BY <1>1, <1>2, <1>3, <1>4, <1>7

LEMMA Steps ==
    ASSUME IInv, Next
    PROVE  \/ \E c \in Calls : Moves(c) \/ Dispatch(c)
           \/ Tick
BY LookUpMoves, RequestMoves, CancelledMoves, SettlingsMove, SettleMoves, FaultsMove,
   HeartMoves DEF Next, Proceed

-----------------------------------------------------------------------------
LEMMA InvInit == Init => IInv
<1> SUFFICES ASSUME Init PROVE IInv
  OBVIOUS
<1>1. /\ 0 \in 0..(MaxTime + Lease) /\ 0 \in 0..MaxTime /\ 0 \in 0..MaxFaults
      /\ -1 \in -1..MaxTime
  BY InvocationAssumption
<1>2. RowOK(row) /\ row.outcome = "absent"
  BY <1>1 DEF Init, NoRow, RowOK, RowRecord
<1>3. NewCall \in CallRecord
  BY <1>1 DEF NewCall, CallRecord
<1>4. \A c \in Calls : Fits(call[c], c, row)
  BY DEF Init, NewCall, Fits, Terminal, Results
<1>5. OneCompletion /\ RowIsTruthful
  BY <1>2 DEF Init, OneCompletion, RowIsTruthful, Terminal, Results
<1> QED BY <1>1, <1>2, <1>3, <1>4, <1>5 DEF Init, IInv

LEMMA InvStep == IInv /\ [Next]_vars => IInv'
<1> SUFFICES ASSUME IInv, [Next]_vars PROVE IInv'
  OBVIOUS
<1>1. CASE Tick \/ UNCHANGED vars
  <2>1. UNCHANGED <<row, completions, call, faults>> /\ clock' \in 0..MaxTime
    BY <1>1, InvocationAssumption DEF Tick, vars, IInv
  <2> QED BY <2>1 DEF IInv, RowOK, Fits, OneCompletion, RowIsTruthful
<1> QED BY <1>1, Steps, MovesKeep, Starts

LEMMA Invariance == Spec => []IInv
BY InvInit, InvStep, PTL DEF Spec

(* However calls race, fail, die or outlive their lease, every variable holds
   what the code could store in it. *)
THEOREM InvocationIsTyped == Spec => []TypeOK
<1>1. IInv => TypeOK
  BY DEF IInv, RowOK, RowRecord, CallRecord, TypeOK
<1> QED BY <1>1, Invariance, PTL

(* One key runs its tool at most once. *)
THEOREM RanOnce == Spec => []RunsOnce
<1>1. IInv => RunsOnce
  BY DEF IInv, Fits, RunsOnce
<1> QED BY <1>1, Invariance, PTL

(* Every conclusive answer is the one the durable row holds. *)
THEOREM AnswersRecorded == Spec => []AnswersAreRecorded
<1>1. IInv => AnswersAreRecorded
  BY DEF IInv, Fits, AnswersAreRecorded
<1> QED BY <1>1, Invariance, PTL

(* What the row says of the tool's work is so. *)
THEOREM RowsAreTruthful == Spec => []RowIsTruthful
<1>1. IInv => RowIsTruthful
  BY DEF IInv
<1> QED BY <1>1, Invariance, PTL

(* One completion event for one conclusive row. *)
THEOREM CompletedOnce == Spec => []OneCompletion
<1>1. IInv => OneCompletion
  BY DEF IInv
<1> QED BY <1>1, Invariance, PTL

(* Nothing reopens or rewrites a conclusive row. *)
THEOREM OutcomesAreFinal == Spec => OutcomeIsFinal
<1>1. IInv /\ [Next]_vars => [row.outcome \in Terminal => UNCHANGED row]_vars
  <2> SUFFICES ASSUME IInv, Next, row.outcome \in Terminal PROVE UNCHANGED row
    OBVIOUS
  <2>1. row # NoRow /\ ~Pending /\ \A time : ~LiveAt(time)
    BY DEF NoRow, Pending, LiveAt, Terminal, Results
  <2>2. ASSUME NEW c \in Calls, Proceed(c) PROVE UNCHANGED row
    BY <2>1, <2>2
    DEF Proceed, LookUp, Search, Refuse, Request, Reserve, CancelledRequesting,
        LeaveAdmission, Dispatch, HandlerEnds, Settle, Conclude, Unwritten
  <2>3. ASSUME NEW c \in Calls, Raises(c) PROVE UNCHANGED row
    BY <2>1, <2>3
    DEF Raises, Search, Reserve, Conclude, Unwritten
  <2>4. ASSUME NEW c \in Calls, Begin(c) \/ Dies(c) \/ Beat(c) \/ Renew(c) \/ RenewFails(c)
        PROVE  UNCHANGED row
    BY <2>1, <2>4 DEF Begin, Dies, Beat, Renew, RenewFails
  <2> QED BY <2>2, <2>3, <2>4 DEF Next, Tick
<1> QED BY <1>1, Invariance, PTL DEF Spec, OutcomeIsFinal

-----------------------------------------------------------------------------
(* One key implements IdempotentCall. *)
LEMMA KeyInit == Init => Key!Init
BY DEF Init, NoRow, NewCall, Key!Init

LEMMA KeyStep ==
    IInv /\ [Next]_vars
        => [Key!Next]_<<row.owner, row.outcome, {c \in Calls : call[c].ran},
                        [c \in Calls |-> call[c].answer]>>
<1> SUFFICES ASSUME IInv, Next \/ UNCHANGED vars
             PROVE  \/ Key!Next
                    \/ /\ UNCHANGED <<row.owner, row.outcome>>
                       /\ UNCHANGED {c \in Calls : call[c].ran}
                       /\ UNCHANGED [c \in Calls |-> call[c].answer]
  OBVIOUS
<1>1. CASE Tick \/ UNCHANGED vars
  BY <1>1 DEF Tick, vars
<1>2. ASSUME NEW c \in Calls, Dispatch(c) PROVE Key!Work(c)
  <2>1. {d \in Calls : call[d].ran} = {} /\ {d \in Calls : call'[d].ran} = {c}
    BY <1>2, Starts
  <2>2. [d \in Calls |-> call'[d].answer] = [d \in Calls |-> call[d].answer]
    BY <1>2, Starts
  <2> QED BY <1>2, <2>1, <2>2, Starts DEF Key!Work
<1>3. ASSUME NEW c \in Calls, Moves(c) PROVE Key!Next
  <2>1. RowStep(c) /\ CallStep(c)
    BY <1>3 DEF Moves
  <2>2. {d \in Calls : call'[d].ran} = {d \in Calls : call[d].ran}
    BY <2>1 DEF CallStep
  <2>3. \/ Key!Take(c) \/ Key!Conclude
        \/ row'.owner = row.owner /\ row'.outcome = row.outcome
    <3>1. ASSUME row.outcome = "requested", row'.owner = row.owner,
                 row'.outcome \in Terminal,
                 \/ row'.outcome = "unknown"
                 \/ /\ row.owner = c /\ call[c].pc = "settling"
                    /\ row'.outcome = call[c].result
          PROVE  Key!Conclude
      <4>1. ASSUME row'.outcome \in Worked PROVE {d \in Calls : call[d].ran} = {row.owner}
        <5>1. row.owner = c /\ call[c].ran
          BY <3>1, <4>1, Facts DEF Fits, Worked
        <5>2. \A d \in Calls : call[d].ran => d = c
          BY <5>1 DEF IInv, Fits
        <5> QED BY <5>1, <5>2
      <4> QED BY <3>1, <4>1 DEF Key!Conclude, Worked
    <3>2. ASSUME row.outcome = "absent", row'.owner = c,
                 row'.outcome \in {"requested"} \cup (Terminal \ Worked)
          PROVE  Key!Take(c)
      BY <3>2 DEF Key!Take, Worked
    <3> QED BY <2>1, <3>1, <3>2 DEF RowStep
  <2>4. Key!Hear(c) \/ [d \in Calls |-> call'[d].answer] = [d \in Calls |-> call[d].answer]
    <3>1. \A d \in Calls \ {c} : call'[d].answer = call[d].answer
      BY <2>1 DEF CallStep
    <3>2. CASE call'[c].answer = call[c].answer
      BY <3>1, <3>2
    <3>3. CASE call[c].answer = "none" /\ call'[c].answer \in {"raised"} \cup Told(row')
      <4>1. [d \in Calls |-> call'[d].answer]
              = [[d \in Calls |-> call[d].answer] EXCEPT ![c] = call'[c].answer]
        BY <3>1
      <4> QED BY <3>3, <4>1 DEF Key!Hear, Told
    <3> QED BY <2>1, <3>2, <3>3 DEF CallStep
  <2> QED BY <2>2, <2>3, <2>4 DEF Key!Next
<1> QED BY <1>1, <1>2, <1>3, Steps DEF Key!Next

(* Whatever goes wrong, one key keeps the promise of IdempotentCall. *)
THEOREM KeyIsIdempotent == Spec => IsIdempotent
BY KeyInit, KeyStep, Invariance, PTL DEF Spec, IsIdempotent, Key!Spec
==============================================================================

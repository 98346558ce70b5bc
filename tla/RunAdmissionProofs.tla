------------------------- MODULE RunAdmissionProofs --------------------------
(***************************************************************************)
(* Proofs about RunAdmission, for any replicas, runs and requests, any     *)
(* capacity, and any number of failures and crashes.                       *)
(***************************************************************************)
EXTENDS RunAdmission, TLAPS

(* Writing one cell of a replica's table leaves a table of the same type,
   whatever the cell is. *)
LEMMA Table ==
    ASSUME NEW S, NEW T, NEW V, NEW f \in [S -> [T -> V]], NEW a, NEW b, NEW v \in V
    PROVE  [f EXCEPT ![a][b] = v] \in [S -> [T -> V]]
OBVIOUS

(* A request under way knows its replica and its run, and one that waits, what
   it waits for: a request of the same run that is under way too. Only one
   that is done has an answer. *)
Placed ==
    \A q \in Requests :
        /\ req[q].pc # "done" => req[q].answer = "none"
        /\ req[q].pc = "idle" => req[q].at = NoOne
        /\ req[q].pc # "idle" => req[q].at \in Replicas /\ req[q].run \in Runs
        /\ req[q].pc = "waiting" =>
            /\ req[q].on \in Requests /\ req[req[q].on].pc # "idle"
            /\ req[req[q].on].run = req[q].run

(* The claim of a replica, and the rest of what the proof knows of a row, an
   index entry and a workflow. *)
Rows == \A n \in Runs : row[n] # NoOne =>
            req[row[n]].run = n /\ req[row[n]].pc = "done"
Indexed == \A r \in Replicas, n \in Runs : index[r][n] # NoOne => row[n] = index[r][n]
Begun == \A e \in started : req[e].pc = "done" /\ row[req[e].run] = e

Running ==
    /\ ended \subseteq started
    /\ \A r \in Replicas : \A e \in working[r] :
        /\ e \in started /\ e \notin ended
        /\ req[e].at = r /\ claim[r][req[e].run] = NoOne

(* The ways in which a step changes the request that takes it. *)
LEMMA Advance ==
    ASSUME TypeOK, NEW q \in Requests, NEW pc \in Steps
    PROVE  [req EXCEPT ![q].pc = pc] \in [Requests -> Request]
BY DEF TypeOK, Request

LEMMA Conclude ==
    ASSUME TypeOK, NEW q \in Requests, NEW what \in Answers
    PROVE  [req EXCEPT ![q].pc = "done", ![q].answer = what] \in [Requests -> Request]
<1>1. req[q] \in Request /\ "done" \in Steps
  BY DEF TypeOK, Steps
<1>2. [req[q] EXCEPT !.pc = "done", !.answer = what] \in Request
  BY <1>1 DEF Request
<1> QED BY <1>2 DEF TypeOK

LEMMA Arrive ==
    ASSUME TypeOK, NEW q \in Requests, NEW pc \in Steps, NEW what \in Answers,
           NEW r \in Replicas, NEW n \in Runs, NEW on \in Requests \cup {NoOne}
    PROVE  [req EXCEPT ![q] = [pc |-> pc, at |-> r, run |-> n, on |-> on,
                               answer |-> what]] \in [Requests -> Request]
BY DEF TypeOK, Request

(* The service starts with nothing admitted and nothing remembered. *)
LEMMA TypeInit == Init => TypeOK
BY AdmissionAssumption DEF Init, TypeOK, Idle, Request, Steps, Answers, Kinds

(* Every step of a request, a workflow or a replica keeps every variable
   within its type. *)
LEMMA TypeStep == TypeOK /\ Placed /\ [Next]_vars => TypeOK'
<1> SUFFICES ASSUME TypeOK, Placed, [Next]_vars PROVE TypeOK'
  OBVIOUS
<1> USE AdmissionAssumption DEF memory, budget
<1>a. /\ "done" \in Steps /\ "waiting" \in Steps /\ "looking" \in Steps
      /\ "routing" \in Steps /\ "inserting" \in Steps /\ "conflicted" \in Steps
      /\ {"none", "failed", "full", "lost"} \subseteq Answers /\ Requests \subseteq Answers
      /\ {"absent", "own", "copy", "finished"} \subseteq Kinds
  BY DEF Steps, Answers, Kinds
<1>b. ASSUME NEW q \in Requests, NEW what \in Answers, Answer(q, what)
      PROVE  /\ claim' \in [Replicas -> [Runs -> Requests \cup {NoOne}]]
             /\ req' \in [Requests -> Request]
  <2>1. req' \in [Requests -> Request]
    BY <1>b, Conclude DEF Answer
  <2> QED BY <2>1, <1>b, Table DEF Answer, Release, TypeOK
<1>c. ASSUME NEW q \in Requests, NEW e \in Requests, NEW kind \in Kinds, Enter(q, e, kind)
      PROVE  /\ entry' \in [Replicas -> [Requests -> Kinds]]
             /\ index' \in [Replicas -> [Runs -> Requests \cup {NoOne}]]
  BY <1>a, <1>c, Table DEF Enter, TypeOK
<1>1. ASSUME NEW q \in Requests, NEW r \in Replicas, NEW n \in Runs,
             JoinsClaim(q, r, n) \/ FindsReplay(q, r, n) \/ Claims(q, r, n)
      PROVE TypeOK'
  <2>1. claim[r][n] \in Requests \cup {NoOne} /\ index[r][n] \in Requests \cup {NoOne}
    BY DEF TypeOK
  <2>2. req' \in [Requests -> Request]
    <3>1. CASE JoinsClaim(q, r, n)
      BY <3>1, <2>1, <1>a, Arrive DEF JoinsClaim, Asked
    <3>2. CASE FindsReplay(q, r, n)
      BY <3>2, <2>1, <1>a, Arrive DEF FindsReplay, Replayed, Asked
    <3>3. CASE Claims(q, r, n)
      BY <3>3, <2>1, <1>a, Arrive DEF Claims, Asked
    <3> QED BY <1>1, <3>1, <3>2, <3>3
  <2>3. /\ claim' \in [Replicas -> [Runs -> Requests \cup {NoOne}]]
        /\ index' \in [Replicas -> [Runs -> Requests \cup {NoOne}]]
    <3>1. /\ claim' = claim \/ claim' = [claim EXCEPT ![r][n] = q]
          /\ index' = index \/ index' = [index EXCEPT ![r][n] = NoOne]
      BY <1>1 DEF JoinsClaim, FindsReplay, Claims
    <3>2. /\ claim \in [Replicas -> [Runs -> Requests \cup {NoOne}]]
          /\ index \in [Replicas -> [Runs -> Requests \cup {NoOne}]]
      BY DEF TypeOK
    <3>3. claim' \in [Replicas -> [Runs -> Requests \cup {NoOne}]]
      <4>1. [claim EXCEPT ![r][n] = q] \in [Replicas -> [Runs -> Requests \cup {NoOne}]]
        BY <3>2, Table
      <4> QED BY <3>1, <3>2, <4>1
    <3> QED BY <3>1, <3>2, <3>3
  <2> QED BY <1>1, <2>2, <2>3 DEF JoinsClaim, FindsReplay, Claims, Asked, TypeOK
<1>2. ASSUME NEW q \in Requests, ~At(q, "idle"), FindsRow(q),
             UNCHANGED <<row, ended, working, started, budget>>
      PROVE TypeOK'
  <2> DEFINE e == row[req[q].run]
  <2>1. e \in Requests /\ Enter(q, e, "copy") /\ Answer(q, e)
    BY <1>2 DEF FindsRow, TypeOK, Placed, At
  <2> QED BY <1>2, <2>1, <1>a, <1>b, <1>c DEF TypeOK
<1>3. ASSUME NEW q \in Requests, LookUp(q) PROVE TypeOK'
  <2>1. CASE FindsRow(q)
    BY <1>2, <1>3, <2>1 DEF LookUp, At
  <2>2. CASE Go(q, "routing") /\ UNCHANGED memory
    BY <1>3, <2>2, <1>a, Advance DEF LookUp, Go, TypeOK
  <2> QED BY <1>3, <2>1, <2>2 DEF LookUp
<1>4. ASSUME NEW q \in Requests, Propose(q) PROVE TypeOK'
  <2>1. CASE Answer(q, "full")
    BY <1>4, <2>1, <1>a, <1>b DEF Propose, TypeOK
  <2>2. CASE Go(q, "inserting") /\ UNCHANGED claim
    BY <1>4, <2>2, <1>a, Advance DEF Propose, Go, TypeOK
  <2> QED BY <1>4, <2>1, <2>2 DEF Propose
<1>5. ASSUME NEW q \in Requests, Insert(q) PROVE TypeOK'
  <2>1. CASE Admit(q)
    <3>1. row' \in [Runs -> Requests \cup {NoOne}]
      BY <2>1 DEF Admit, TypeOK
    <3>2. working' \in [Replicas -> SUBSET Requests] /\ started' \subseteq Requests
      BY <2>1 DEF Admit, TypeOK
    <3> QED BY <1>5, <2>1, <3>1, <3>2, <1>a, <1>b, <1>c DEF Insert, Admit, TypeOK
  <2>2. CASE Go(q, "conflicted") /\ UNCHANGED <<row, memory, working, started>>
    BY <1>5, <2>2, <1>a, Advance DEF Insert, Go, TypeOK
  <2> QED BY <1>5, <2>1, <2>2 DEF Insert
<1>6. ASSUME NEW q \in Requests, Coalesce(q) PROVE TypeOK'
  BY <1>2, <1>6 DEF Coalesce, At
<1>7. ASSUME NEW q \in Requests, Fails(q) PROVE TypeOK'
  <2>1. row' \in [Runs -> Requests \cup {NoOne}] /\ faults' \in 0..MaxFaults
    BY <1>7 DEF Fails, Fault, TypeOK
  <2> QED BY <1>7, <2>1, <1>a, <1>b DEF Fails, Fault, TypeOK
<1>8. ASSUME NEW q \in Requests, Wakes(q) \/ StopsWaiting(q) PROVE TypeOK'
  <2>1. req' \in [Requests -> Request]
    <3>1. CASE Wakes(q)
      <4>1. req[req[q].on].answer \in Answers
        BY <3>1 DEF Wakes, At, Placed, TypeOK, Request
      <4> QED BY <3>1, <4>1, <1>a, Conclude DEF Wakes
    <3>2. CASE StopsWaiting(q)
      BY <3>2, <1>a, Conclude DEF StopsWaiting
    <3> QED BY <1>8, <3>1, <3>2
  <2>2. faults' \in 0..MaxFaults
    BY <1>8 DEF Wakes, StopsWaiting, Fault, TypeOK
  <2> QED BY <1>8, <2>1, <2>2 DEF Wakes, StopsWaiting, Fault, TypeOK
<1>9. ASSUME NEW r \in Replicas, NEW e \in Requests, Ends(r, e) PROVE TypeOK'
  <2>1. entry' \in [Replicas -> [Requests -> Kinds]]
    BY <1>9, <1>a, Table DEF Ends, TypeOK
  <2> QED BY <1>9, <2>1 DEF Ends, TypeOK
<1>10. ASSUME NEW r \in Replicas, Cleanup(r) PROVE TypeOK'
  BY <1>10, <1>a DEF Cleanup, TypeOK
<1>11. ASSUME NEW r \in Replicas, Crash(r) PROVE TypeOK'
  <2>1. req' \in [Requests -> Request]
    <3>1. \A q \in Requests :
            [req[q] EXCEPT !.pc = "done", !.answer = "lost"] \in Request
      <4>1. "done" \in Steps /\ "lost" \in Answers /\ \A q \in Requests : req[q] \in Request
        BY <1>a DEF TypeOK
      <4> QED BY <4>1 DEF Request
    <3> QED BY <1>11, <3>1 DEF Crash, TypeOK
  <2>2. crashes' \in 0..MaxCrashes
    <3>1. crashes \in 0..MaxCrashes /\ MaxCrashes \in Nat
      BY DEF TypeOK, AdmissionAssumption
    <3>2. crashes < MaxCrashes /\ crashes' = crashes + 1
      BY <1>11 DEF Crash
    <3> QED BY <3>1, <3>2
  <2> QED BY <1>11, <2>1, <2>2, <1>a DEF Crash, TypeOK
<1>12. ASSUME NEW r \in Replicas, Restart(r) PROVE TypeOK'
  BY <1>12, <1>a DEF Restart, Unfinished, TypeOK
<1>13. CASE UNCHANGED vars
  BY <1>13 DEF vars, TypeOK
<1> QED BY <1>1, <1>3, <1>4, <1>5, <1>6, <1>7, <1>8, <1>9, <1>10, <1>11,
           <1>12, <1>13 DEF Next, Proceeds

-----------------------------------------------------------------------------
Safe == /\ TypeOK /\ Placed /\ Rows /\ Indexed /\ Begun
        /\ HandleIsRecorded /\ ClaimIsOwned

(* Before the first request every part holds for want of anything to say. *)
LEMMA SafeInit == Init => Safe
<1> SUFFICES ASSUME Init PROVE Safe
  OBVIOUS
<1>1. \A q \in Requests : /\ req[q].pc = "idle" /\ req[q].answer = "none"
                        /\ req[q].at = NoOne
  BY DEF Init, Idle
<1>2. \A q \in Requests : q # NoOne /\ "none" \notin Requests
  BY AdmissionAssumption
<1>3. /\ \A n \in Runs : row[n] = NoOne
      /\ \A r \in Replicas, n \in Runs : claim[r][n] = NoOne /\ index[r][n] = NoOne
  BY DEF Init
<1>4. started = {}
  BY DEF Init
<1>5. Placed /\ Rows /\ Indexed /\ Begun
  <2>1. Placed /\ Begun
    BY <1>1, <1>4 DEF Placed, Begun
  <2> QED BY <2>1, <1>3 DEF Rows, Indexed
<1>6. HandleIsRecorded /\ ClaimIsOwned
  BY <1>1, <1>2, <1>3 DEF HandleIsRecorded, ClaimIsOwned, Admitting
<1> QED BY <1>5, <1>6, TypeInit DEF Safe

(* What the cells of the tables hold after one of them was written. *)
LEMMA Cell ==
    ASSUME NEW S, NEW T, NEW V, NEW f \in [S -> [T -> V]],
           NEW a \in S, NEW b \in T, NEW v,
           NEW g, g = [f EXCEPT ![a][b] = v]
    PROVE  \A s \in S, t \in T : g[s][t] = IF s = a /\ t = b THEN v ELSE f[s][t]
OBVIOUS

(* A request that arrives finds its run claimed, known, or free to claim. *)
LEMMA SafeArrival ==
    ASSUME Safe, TypeOK', NEW q \in Requests, NEW r \in Replicas, NEW n \in Runs,
           JoinsClaim(q, r, n) \/ FindsReplay(q, r, n) \/ Claims(q, r, n)
    PROVE  Safe'
<1> USE DEF Safe
<1>a. q # NoOne /\ \A p \in Requests : p \notin {NoOne, "none", "failed", "full", "lost"}
  BY AdmissionAssumption
<1>b. PICK pc \in Steps, on \in Requests \cup {NoOne}, what \in Answers :
        /\ req' = [req EXCEPT ![q] = [pc |-> pc, at |-> r, run |-> n, on |-> on, answer |-> what]]
        /\ \/ /\ pc = "waiting" /\ on = claim[r][n] /\ on # NoOne /\ what = "none"
              /\ UNCHANGED <<claim, index>>
           \/ /\ pc = "done" /\ on = NoOne /\ what = index[r][n] /\ what # NoOne
              /\ UNCHANGED <<claim, index>>
           \/ /\ pc = "looking" /\ on = NoOne /\ what = "none"
              /\ claim[r][n] = NoOne
              /\ claim' = [claim EXCEPT ![r][n] = q]
              /\ index' = [index EXCEPT ![r][n] = NoOne]
  BY DEF JoinsClaim, FindsReplay, Claims, Asked, Replayed, TypeOK, Steps, Answers
<1>c. UNCHANGED <<row, started>> /\ req[q].pc = "idle"
  BY DEF JoinsClaim, FindsReplay, Claims, Asked, At
<1>d. /\ \A p \in Requests : p # q => req'[p] = req[p]
      /\ req'[q] = [pc |-> pc, at |-> r, run |-> n, on |-> on, answer |-> what]
  BY <1>b DEF TypeOK
<1>e. claim[r][n] \in Requests =>
        /\ req[claim[r][n]].run = n /\ req[claim[r][n]].pc # "idle"
        /\ claim[r][n] # q
  BY <1>c DEF ClaimIsOwned, Admitting
<1>f. \A m \in Runs : row[m] \in Requests \cup {NoOne}
  BY DEF TypeOK
<1>1. Placed'
  BY <1>b, <1>c, <1>d, <1>e, <1>a DEF Placed
<1>2. Rows'
  BY <1>c, <1>d, <1>f DEF Rows
<1>3. \A s \in Replicas, m \in Runs : index'[s][m] \in {index[s][m], NoOne}
  <2>1. CASE UNCHANGED index
    BY <2>1
  <2>2. CASE index' = [index EXCEPT ![r][n] = NoOne]
    BY <2>2 DEF TypeOK
  <2> QED BY <2>1, <2>2, <1>b
<1>4. Indexed'
  BY <1>3, <1>c DEF Indexed
<1>5. Begun'
  BY <1>c, <1>d DEF Begun, TypeOK
<1>6. HandleIsRecorded'
  BY <1>a, <1>b, <1>c, <1>d DEF HandleIsRecorded, Indexed
<1>7. ClaimIsOwned'
  <2>1. CASE pc \in {"waiting", "done"} /\ UNCHANGED claim
    BY <2>1, <1>a, <1>c, <1>d DEF ClaimIsOwned, Admitting
  <2>2. CASE pc = "looking" /\ claim[r][n] = NoOne /\ claim' = [claim EXCEPT ![r][n] = q]
    <3>1. \A s \in Replicas, m \in Runs :
            claim'[s][m] = IF s = r /\ m = n THEN q ELSE claim[s][m]
      BY <2>2 DEF TypeOK
    <3> QED BY <2>2, <3>1, <1>a, <1>c, <1>d DEF ClaimIsOwned, Admitting
  <2> QED BY <2>1, <2>2, <1>b
<1> QED BY <1>1, <1>2, <1>4, <1>5, <1>6, <1>7

(* The owner of a claim answers, with a handle only if the row records it. *)
LEMMA SafeAnswer ==
    ASSUME Safe, TypeOK', NEW q \in Requests, req[q].pc \in Admitting,
           NEW what \in Answers, Answer(q, what),
           what \in Requests => row'[req[q].run] = what,
           \/ UNCHANGED row
           \/ row[req[q].run] = NoOne /\ row' = [row EXCEPT ![req[q].run] = q],
           \A s \in Replicas, m \in Runs :
                index'[s][m] = index[s][m] \/ index'[s][m] = row'[m],
           \/ UNCHANGED started
           \/ started' = started \cup {q} /\ row'[req[q].run] = q
    PROVE  Safe'
<1> USE DEF Safe
<1> DEFINE r == req[q].at
           n == req[q].run
<1>a. q # NoOne /\ \A p \in Requests : p \notin {NoOne, "none", "failed", "full", "lost"}
  BY AdmissionAssumption
<1>b. r \in Replicas /\ n \in Runs /\ req[q].pc \notin {"idle", "waiting", "done"}
  BY DEF Placed, Admitting
<1>c. /\ \A p \in Requests : p # q => req'[p] = req[p]
      /\ req'[q] = [req[q] EXCEPT !.pc = "done", !.answer = what]
  BY DEF Answer, TypeOK
<1>d. /\ req'[q].pc = "done" /\ req'[q].answer = what
      /\ req'[q].at = r /\ req'[q].run = n
  BY <1>c DEF TypeOK, Request
<1>e. /\ \A m \in Runs : row[m] # NoOne => row'[m] = row[m]
      /\ \A m \in Runs : row'[m] = row[m] \/ (m = n /\ row'[m] = q)
      /\ \A m \in Runs : row[m] \in Requests \cup {NoOne}
  <2>1. row \in [Runs -> Requests \cup {NoOne}]
    BY DEF TypeOK
  <2>2. CASE UNCHANGED row
    BY <2>1, <2>2
  <2>3. CASE row[n] = NoOne /\ row' = [row EXCEPT ![n] = q]
    BY <2>1, <2>3, <1>b
  <2> QED BY <2>2, <2>3
<1>f. \A s \in Replicas, m \in Runs :
        claim'[s][m] = IF s = r /\ m = n THEN NoOne ELSE claim[s][m]
  BY <1>b, Cell DEF Answer, Release, TypeOK
<1>g. \A p \in Requests : req'[p].pc = "idle" <=> req[p].pc = "idle"
  BY <1>b, <1>c, <1>d
<1>h. \A p \in Requests : req'[p].at = req[p].at /\ req'[p].run = req[p].run
  BY <1>c, <1>d
<1>1. Placed'
  <2> SUFFICES ASSUME NEW p \in Requests
               PROVE  /\ req'[p].pc # "done" => req'[p].answer = "none"
                      /\ req'[p].pc = "idle" => req'[p].at = NoOne
                      /\ req'[p].pc # "idle" =>
                            req'[p].at \in Replicas /\ req'[p].run \in Runs
                      /\ req'[p].pc = "waiting" =>
                            /\ req'[p].on \in Requests /\ req'[req'[p].on].pc # "idle"
                            /\ req'[req'[p].on].run = req'[p].run
    BY DEF Placed
  <2>1. CASE p = q
    BY <2>1, <1>b, <1>d
  <2>2. CASE p # q
    BY <2>2, <1>c, <1>g, <1>h DEF Placed
  <2> QED BY <2>1, <2>2
<1>2. Rows'
  <2> SUFFICES ASSUME NEW m \in Runs, row'[m] # NoOne
               PROVE  req'[row'[m]].run = m /\ req'[row'[m]].pc = "done"
    BY DEF Rows
  <2>1. CASE m = n /\ row'[m] = q
    BY <2>1, <1>d
  <2>2. CASE row'[m] = row[m]
    <3>1. row[m] \in Requests /\ req[row[m]].pc = "done" /\ req[row[m]].run = m
      BY <2>2, <1>e DEF Rows
    <3> QED BY <2>2, <3>1, <1>b, <1>c
  <2> QED BY <2>1, <2>2, <1>e
<1>3. Indexed'
  BY <1>e DEF Indexed
<1>4. Begun'
  <2> SUFFICES ASSUME NEW e \in started'
               PROVE  req'[e].pc = "done" /\ row'[req'[e].run] = e
    BY DEF Begun
  <2>1. CASE e = q
    <3>1. row'[n] = q
      BY <2>1, <1>b DEF Begun
    <3> QED BY <2>1, <3>1, <1>d
  <2>2. CASE e # q
    <3>1. e \in started /\ e \in Requests /\ req[e].run \in Runs
      BY <2>2 DEF Begun, Placed, TypeOK
    <3> QED BY <2>2, <3>1, <1>a, <1>c, <1>e DEF Begun
  <2> QED BY <2>1, <2>2
<1>5. HandleIsRecorded'
  <2> SUFFICES ASSUME NEW p \in Requests, req'[p].answer \in Requests
               PROVE  row'[req'[p].run] = req'[p].answer
    BY DEF HandleIsRecorded
  <2>1. CASE p = q
    BY <2>1, <1>d
  <2>2. CASE p # q
    <3>1. row[req[p].run] = req[p].answer /\ req[p].answer \in Requests
      BY <2>2, <1>c DEF HandleIsRecorded
    <3>2. req[p].pc = "done" /\ req[p].run \in Runs
      BY <3>1, <1>a DEF Placed
    <3> QED BY <2>2, <3>1, <3>2, <1>a, <1>b, <1>c, <1>e
  <2> QED BY <2>1, <2>2
<1>6. ClaimIsOwned'
  <2> SUFFICES ASSUME NEW s \in Replicas, NEW m \in Runs, NEW p \in Requests
               PROVE  claim'[s][m] = p <=>
                        req'[p].pc \in Admitting /\ req'[p].at = s /\ req'[p].run = m
    BY DEF ClaimIsOwned
  <2>1. CASE p = q
    <3>1. claim[r][n] = q /\ (claim[s][m] = q => s = r /\ m = n)
      BY <1>b DEF ClaimIsOwned
    <3> QED BY <2>1, <3>1, <1>a, <1>d, <1>f DEF Admitting
  <2>2. CASE p # q
    <3>1. claim[s][m] = p <=> req[p].pc \in Admitting /\ req[p].at = s /\ req[p].run = m
      BY DEF ClaimIsOwned
    <3>2. claim[r][n] = q
      BY <1>b DEF ClaimIsOwned
    <3> QED BY <2>2, <3>1, <3>2, <1>a, <1>c, <1>f
  <2> QED BY <2>1, <2>2
<1> QED BY <1>1, <1>2, <1>3, <1>4, <1>5, <1>6

(* A request that goes on to its next await, or stops waiting for an owner
   that is done, leaves everything else as it was. *)
LEMMA SafeMove ==
    ASSUME Safe, TypeOK', NEW q \in Requests, UNCHANGED <<row, started, claim, index>>,
           NEW pc \in Steps, NEW what \in Answers,
           \A p \in Requests : p # q => req'[p] = req[p],
           req'[q].pc = pc, req'[q].answer = what, req'[q].on = req[q].on,
           req'[q].at = req[q].at, req'[q].run = req[q].run,
           \/ /\ req[q].pc \in Admitting /\ pc \in Admitting /\ what = "none"
           \/ /\ req[q].pc = "waiting" /\ pc = "done"
              /\ what \in Requests => row[req[q].run] = what
    PROVE  Safe'
<1> USE DEF Safe
<1>a. q # NoOne /\ \A p \in Requests : p \notin {NoOne, "none", "failed", "full", "lost"}
  BY AdmissionAssumption
<1>b. /\ \A p \in Requests : p # q => req'[p] = req[p]
      /\ req'[q].pc = pc /\ req'[q].answer = what /\ req'[q].on = req[q].on
      /\ req'[q].at = req[q].at /\ req'[q].run = req[q].run
  OBVIOUS
<1>c. req[q].pc \notin {"idle", "done"} /\ pc \notin {"idle", "waiting"}
  BY DEF Admitting
<1>d. /\ \A m \in Runs : row[m] \in Requests \cup {NoOne}
      /\ \A p \in Requests : req'[p].at = req[p].at /\ req'[p].run = req[p].run
      /\ \A p \in Requests : req'[p].pc = "idle" <=> req[p].pc = "idle"
  BY <1>b, <1>c DEF TypeOK
<1>1. Placed'
  <2> SUFFICES ASSUME NEW p \in Requests
               PROVE  /\ req'[p].pc # "done" => req'[p].answer = "none"
                      /\ req'[p].pc = "idle" => req'[p].at = NoOne
                      /\ req'[p].pc # "idle" =>
                            req'[p].at \in Replicas /\ req'[p].run \in Runs
                      /\ req'[p].pc = "waiting" =>
                            /\ req'[p].on \in Requests /\ req'[req'[p].on].pc # "idle"
                            /\ req'[req'[p].on].run = req'[p].run
    BY DEF Placed
  <2>1. CASE p = q
    BY <2>1, <1>b, <1>c DEF Placed
  <2>2. CASE p # q
    <3>1. /\ req[p].pc # "done" => req[p].answer = "none"
          /\ req[p].pc = "idle" => req[p].at = NoOne
          /\ req[p].pc # "idle" => req[p].at \in Replicas /\ req[p].run \in Runs
          /\ req[p].pc = "waiting" =>
                /\ req[p].on \in Requests /\ req[req[p].on].pc # "idle"
                /\ req[req[p].on].run = req[p].run
      BY DEF Placed
    <3> QED BY <2>2, <3>1, <1>b, <1>d
  <2> QED BY <2>1, <2>2
<1>2. Rows'
  <2> SUFFICES ASSUME NEW m \in Runs, row[m] # NoOne
               PROVE  req'[row[m]].run = m /\ req'[row[m]].pc = "done"
    BY DEF Rows
  <2>1. row[m] \in Requests /\ req[row[m]].pc = "done" /\ req[row[m]].run = m
    BY <1>d DEF Rows
  <2> QED BY <2>1, <1>b, <1>c
<1>3. Indexed'
  BY DEF Indexed
<1>4. Begun'
  <2>1. started \subseteq Requests
    BY DEF TypeOK
  <2> QED BY <2>1, <1>b, <1>c DEF Begun
<1>5. HandleIsRecorded'
  BY <1>a, <1>b DEF HandleIsRecorded
<1>6. ClaimIsOwned'
  <2> SUFFICES ASSUME NEW s \in Replicas, NEW m \in Runs, NEW p \in Requests
               PROVE  claim'[s][m] = p <=>
                        req'[p].pc \in Admitting /\ req'[p].at = s /\ req'[p].run = m
    BY DEF ClaimIsOwned
  <2>1. req'[p].pc \in Admitting <=> req[p].pc \in Admitting
    BY <1>b DEF Admitting
  <2>2. claim[s][m] = p <=> req[p].pc \in Admitting /\ req[p].at = s /\ req[p].run = m
    BY DEF ClaimIsOwned
  <2> QED BY <2>1, <2>2, <1>d
<1> QED BY <1>1, <1>2, <1>3, <1>4, <1>5, <1>6

(* A process that dies takes its requests, claims and index with it. *)
LEMMA SafeCrash ==
    ASSUME Safe, TypeOK', NEW r \in Replicas, Crash(r)
    PROVE  Safe'
<1> USE DEF Safe
<1>a. \A p \in Requests : p \notin {NoOne, "none", "failed", "full", "lost"}
  BY AdmissionAssumption
<1>b. ASSUME NEW p \in Requests
      PROVE  /\ req[p].at # r \/ req[p].pc = "done" => req'[p] = req[p]
             /\ req[p].at = r /\ req[p].pc # "done" =>
                    req'[p] = [req[p] EXCEPT !.pc = "done", !.answer = "lost"]
  BY DEF Crash, At
<1>c. ASSUME NEW p \in Requests
      PROVE  /\ req'[p].at = req[p].at /\ req'[p].run = req[p].run
             /\ req'[p].on = req[p].on
             /\ \/ req'[p] = req[p]
                \/ req[p].at = r /\ req'[p].pc = "done" /\ req'[p].answer = "lost"
             /\ req[p].at = r => req'[p].pc = "done"
             /\ req[p].pc = "done" => req'[p] = req[p]
             /\ req[p].pc # "idle" => req'[p].pc # "idle"
             /\ req[p].pc = "idle" => req'[p] = req[p]
  <2>1. req[p] \in Request
    BY DEF TypeOK
  <2>2. req[p].pc = "idle" => req[p].at # r
    BY AdmissionAssumption DEF Placed
  <2>3. CASE req[p].at # r \/ req[p].pc = "done"
    BY <2>3, <1>b
  <2>4. CASE req[p].at = r /\ req[p].pc # "done"
    BY <2>1, <2>2, <2>4, <1>b DEF Request
  <2> QED BY <2>3, <2>4
<1>d. /\ UNCHANGED <<row, started>>
      /\ \A m \in Runs : row[m] \in Requests \cup {NoOne}
      /\ \A s \in Replicas, m \in Runs :
            /\ claim'[s][m] = IF s = r THEN NoOne ELSE claim[s][m]
            /\ index'[s][m] = IF s = r THEN NoOne ELSE index[s][m]
  BY DEF Crash, TypeOK
<1>1. Placed'
  <2> SUFFICES ASSUME NEW p \in Requests
               PROVE  /\ req'[p].pc # "done" => req'[p].answer = "none"
                      /\ req'[p].pc = "idle" => req'[p].at = NoOne
                      /\ req'[p].pc # "idle" =>
                            req'[p].at \in Replicas /\ req'[p].run \in Runs
                      /\ req'[p].pc = "waiting" =>
                            /\ req'[p].on \in Requests /\ req'[req'[p].on].pc # "idle"
                            /\ req'[req'[p].on].run = req'[p].run
    BY DEF Placed
  <2>1. CASE req'[p] = req[p]
    <3>1. /\ req[p].pc # "done" => req[p].answer = "none"
          /\ req[p].pc = "idle" => req[p].at = NoOne
          /\ req[p].pc # "idle" => req[p].at \in Replicas /\ req[p].run \in Runs
          /\ req[p].pc = "waiting" =>
                /\ req[p].on \in Requests /\ req[req[p].on].pc # "idle"
                /\ req[req[p].on].run = req[p].run
      BY DEF Placed
    <3> QED BY <2>1, <3>1, <1>c
  <2>2. CASE req[p].pc # "idle" /\ req'[p].pc = "done"
    BY <2>2, <1>c DEF Placed
  <2> QED BY <2>1, <2>2, <1>c
<1>2. Rows'
  BY <1>c, <1>d DEF Rows
<1>3. Indexed'
  BY <1>d DEF Indexed
<1>4. Begun'
  BY <1>c, <1>d DEF Begun, TypeOK
<1>5. HandleIsRecorded'
  BY <1>a, <1>c, <1>d DEF HandleIsRecorded
<1>6. ClaimIsOwned'
  <2> SUFFICES ASSUME NEW s \in Replicas, NEW m \in Runs, NEW p \in Requests
               PROVE  claim'[s][m] = p <=>
                        req'[p].pc \in Admitting /\ req'[p].at = s /\ req'[p].run = m
    BY DEF ClaimIsOwned
  <2>1. CASE s = r
    BY <2>1, <1>a, <1>c, <1>d DEF Admitting
  <2>2. CASE s # r
    BY <2>2, <1>c, <1>d DEF ClaimIsOwned
  <2> QED BY <2>1, <2>2
<1> QED BY <1>1, <1>2, <1>3, <1>4, <1>5, <1>6

(* A process that starts again knows of unfinished runs what the rows say. *)
LEMMA SafeRestart ==
    ASSUME Safe, TypeOK', NEW r \in Replicas, Restart(r)
    PROVE  Safe'
<1> USE DEF Safe
<1>a. UNCHANGED <<row, claim, started, req>>
  BY DEF Restart
<1>1. Placed' /\ Rows' /\ Begun' /\ HandleIsRecorded' /\ ClaimIsOwned'
  BY <1>a DEF Placed, Rows, Begun, HandleIsRecorded, ClaimIsOwned
<1>2. PICK found \in SUBSET Unfinished :
        index' = [index EXCEPT ![r] = [n \in Runs |->
                        IF n \in found THEN row[n] ELSE NoOne]]
  BY DEF Restart
<1>3. \A s \in Replicas, m \in Runs : index'[s][m] \in {index[s][m], row[m], NoOne}
  BY <1>2 DEF TypeOK
<1>4. Indexed'
  BY <1>3, <1>a DEF Indexed
<1> QED BY <1>1, <1>4

(* Every step keeps the facts that make duplicates meet. *)
LEMMA SafeStep == Safe /\ [Next]_vars => Safe'
<1> SUFFICES ASSUME Safe, [Next]_vars PROVE Safe'
  OBVIOUS
<1> USE DEF memory, budget
<1>0. TypeOK /\ Placed /\ TypeOK'
  BY TypeStep DEF Safe
<1>a. /\ "done" \in Steps /\ Admitting \subseteq Steps
      /\ {"none", "failed", "full", "lost"} \subseteq Answers /\ Requests \subseteq Answers
      /\ \A p \in Requests : p \notin {NoOne, "none", "failed", "full", "lost"}
  BY AdmissionAssumption DEF Steps, Answers, Admitting
<1>1. ASSUME NEW q \in Requests, NEW r \in Replicas, NEW n \in Runs,
             JoinsClaim(q, r, n) \/ FindsReplay(q, r, n) \/ Claims(q, r, n)
      PROVE Safe'
  BY <1>0, <1>1, SafeArrival
<1>2. ASSUME NEW q \in Requests, req[q].pc \in Admitting, FindsRow(q), UNCHANGED <<row, started>>
      PROVE Safe'
  <2> DEFINE e == row[req[q].run]
  <2>1. /\ req[q].at \in Replicas /\ req[q].run \in Runs
        /\ e \in Requests /\ Enter(q, e, "copy") /\ Answer(q, e)
    BY <1>0, <1>2 DEF FindsRow, TypeOK, Placed, Admitting
  <2>2. \A s \in Replicas, m \in Runs : index'[s][m] = index[s][m] \/ index'[s][m] = row'[m]
    BY <1>0, <1>2, <2>1, Cell DEF Enter, TypeOK
  <2> QED BY <1>0, <1>2, <1>a, <2>1, <2>2, SafeAnswer
<1>3. ASSUME NEW q \in Requests, req[q].pc \in Admitting, NEW pc \in Admitting, Go(q, pc),
             UNCHANGED <<row, started, claim, index>>
      PROVE Safe'
  <2>1. req[q].answer = "none"
    BY <1>0, <1>3 DEF Placed, Admitting
  <2>2. /\ \A p \in Requests : p # q => req'[p] = req[p]
        /\ req'[q].pc = pc /\ req'[q].answer = "none" /\ req'[q].on = req[q].on
        /\ req'[q].at = req[q].at /\ req'[q].run = req[q].run
    BY <1>0, <1>3, <2>1 DEF Go, TypeOK, Request
  <2> QED BY <1>0, <1>3, <1>a, <2>2, SafeMove
<1>4. ASSUME NEW q \in Requests, req[q].pc \in Admitting, NEW what \in {"failed", "full"},
             Answer(q, what), UNCHANGED <<index, started>>,
             \/ UNCHANGED row
             \/ row[req[q].run] = NoOne /\ row' = [row EXCEPT ![req[q].run] = q]
      PROVE Safe'
  BY <1>0, <1>4, <1>a, SafeAnswer
<1>5. ASSUME NEW q \in Requests, LookUp(q) PROVE Safe'
  BY <1>2, <1>3, <1>5 DEF LookUp, At, Admitting
<1>6. ASSUME NEW q \in Requests, Propose(q) PROVE Safe'
  BY <1>3, <1>4, <1>6 DEF Propose, At, Admitting
<1>7. ASSUME NEW q \in Requests, Insert(q) PROVE Safe'
  <2>1. CASE row[req[q].run] = NoOne /\ Admit(q)
    <3>1. /\ req[q].at \in Replicas /\ req[q].run \in Runs
          /\ req[q].pc \in Admitting
      BY <1>0, <1>7 DEF Insert, At, Placed, Admitting
    <3>2. row'[req[q].run] = q /\ Answer(q, q) /\ started' = started \cup {q}
      BY <1>0, <2>1, <3>1 DEF Admit, TypeOK
    <3>3. \A s \in Replicas, m \in Runs : index'[s][m] = index[s][m] \/ index'[s][m] = row'[m]
      BY <1>0, <2>1, <3>1, <3>2, Cell DEF Admit, Enter, TypeOK
    <3>4. row' = [row EXCEPT ![req[q].run] = q]
      BY <2>1 DEF Admit
    <3> QED BY <1>0, <1>a, <2>1, <3>1, <3>2, <3>3, <3>4, SafeAnswer
  <2>2. CASE Go(q, "conflicted") /\ UNCHANGED <<row, memory, working, started>>
    BY <1>3, <1>7, <2>2 DEF Insert, At, Admitting
  <2> QED BY <1>7, <2>1, <2>2 DEF Insert
<1>8. ASSUME NEW q \in Requests, Coalesce(q) PROVE Safe'
  BY <1>2, <1>8 DEF Coalesce, At, Admitting
<1>9. ASSUME NEW q \in Requests, Fails(q) PROVE Safe'
  BY <1>4, <1>9 DEF Fails, Admitting
<1>10. ASSUME NEW q \in Requests, Wakes(q) PROVE Safe'
  <2>1. /\ req[q].on \in Requests /\ req[req[q].on].run = req[q].run
        /\ req[req[q].on].answer \in Answers
    BY <1>0, <1>10 DEF Wakes, At, Placed, TypeOK, Request
  <2>2. req[req[q].on].answer \in Requests => row[req[q].run] = req[req[q].on].answer
    BY <2>1 DEF Safe, HandleIsRecorded
  <2>3. /\ \A p \in Requests : p # q => req'[p] = req[p]
        /\ req'[q].pc = "done" /\ req'[q].answer = req[req[q].on].answer
        /\ req'[q].on = req[q].on
        /\ req'[q].at = req[q].at /\ req'[q].run = req[q].run
    BY <1>0, <1>10 DEF Wakes, TypeOK, Request
  <2> QED BY <1>0, <1>10, <1>a, <2>1, <2>2, <2>3, SafeMove DEF Wakes, At
<1>11. ASSUME NEW q \in Requests, StopsWaiting(q) PROVE Safe'
  <2>1. /\ \A p \in Requests : p # q => req'[p] = req[p]
        /\ req'[q].pc = "done" /\ req'[q].answer = "failed" /\ req'[q].on = req[q].on
        /\ req'[q].at = req[q].at /\ req'[q].run = req[q].run
    BY <1>0, <1>11 DEF StopsWaiting, TypeOK, Request
  <2> QED BY <1>0, <1>11, <1>a, <2>1, SafeMove DEF StopsWaiting, At
<1>12. ASSUME UNCHANGED <<row, claim, index, started, req>> PROVE Safe'
  BY <1>0, <1>12 DEF Safe, Placed, Rows, Indexed, Begun, HandleIsRecorded, ClaimIsOwned
<1>13. ASSUME NEW r \in Replicas, NEW e \in Requests, Ends(r, e) PROVE Safe'
  BY <1>12, <1>13 DEF Ends
<1>14. ASSUME NEW r \in Replicas, Cleanup(r) PROVE Safe'
  BY <1>12, <1>14 DEF Cleanup
<1>15. ASSUME NEW r \in Replicas, Crash(r) \/ Restart(r) PROVE Safe'
  BY <1>0, <1>15, SafeCrash, SafeRestart
<1>16. CASE UNCHANGED vars
  BY <1>12, <1>16 DEF vars
<1> QED BY <1>1, <1>5, <1>6, <1>7, <1>8, <1>9, <1>10, <1>11, <1>13, <1>14,
           <1>15, <1>16 DEF Next, Proceeds

-----------------------------------------------------------------------------
Alive == Running /\ WorkflowIsVisible

(* Requests under way and running workflows are those of processes that are up. *)
Served ==
    /\ \A q \in Requests : req[q].pc \notin {"idle", "done"} => req[q].at \in up
    /\ \A r \in Replicas : working[r] # {} => r \in up

LEMMA ServedStep == Safe /\ Served /\ [Next]_vars => Served'
<1> SUFFICES ASSUME Safe, Served, [Next]_vars PROVE Served'
  OBVIOUS
<1> USE DEF memory, budget, At
<1>0. TypeOK /\ Placed
  BY DEF Safe
<1>a. ASSUME NEW q \in Requests, req[q].pc \in Admitting, NEW pc, Go(q, pc), UNCHANGED <<working, up>>
      PROVE  Served'
  BY <1>0, <1>a DEF Go, Served, TypeOK, Request, Admitting
<1>b. ASSUME NEW q \in Requests, NEW what, UNCHANGED up,
             req' = [req EXCEPT ![q].pc = "done", ![q].answer = what],
             \/ UNCHANGED working
             \/ /\ req[q].pc \in Admitting
                /\ working' = [working EXCEPT ![req[q].at] = @ \cup {q}]
      PROVE  Served'
  <2>1. \A p \in Requests : req'[p].pc # "done" => req'[p] = req[p]
    BY <1>0, <1>b DEF TypeOK, Request
  <2>2. \A s \in Replicas : working'[s] # {} =>
            working[s] # {} \/ (req[q].pc \in Admitting /\ s = req[q].at)
    BY <1>0, <1>b DEF TypeOK
  <2>3. req[q].pc \in Admitting => req[q].at \in up
    BY DEF Served, Admitting
  <2>4. \A s \in Replicas : working[s] # {} => s \in up
    BY DEF Served
  <2>5. \A p \in Requests : req'[p].pc \notin {"idle", "done"} => req'[p].at \in up
    BY <2>1 DEF Served
  <2> QED BY <1>b, <2>2, <2>3, <2>4, <2>5 DEF Served
<1>1. ASSUME NEW q \in Requests, NEW r \in Replicas, NEW n \in Runs,
             JoinsClaim(q, r, n) \/ FindsReplay(q, r, n) \/ Claims(q, r, n)
      PROVE Served'
  <2> DEFINE Placing(pc, on, what) ==
        [pc |-> pc, at |-> r, run |-> n, on |-> on, answer |-> what]
  <2>1. PICK pc, on, what : req' = [req EXCEPT ![q] = Placing(pc, on, what)]
    BY <1>1, Zenon DEF JoinsClaim, FindsReplay, Claims, Asked
  <2>2. r \in up /\ UNCHANGED <<working, up>>
    BY <1>1 DEF JoinsClaim, FindsReplay, Claims, Asked
  <2> QED BY <1>0, <2>1, <2>2 DEF Served, TypeOK
<1>2. ASSUME NEW q \in Requests, Proceeds(q) PROVE Served'
  <2>1. CASE LookUp(q)
    BY <1>a, <1>b, <2>1 DEF LookUp, FindsRow, Answer, Admitting
  <2>2. CASE Propose(q)
    BY <1>a, <1>b, <2>2 DEF Propose, Answer, Admitting
  <2>3. CASE Insert(q)
    BY <1>a, <1>b, <2>3 DEF Insert, Admit, Answer, Admitting
  <2>4. CASE Coalesce(q)
    BY <1>b, <2>4 DEF Coalesce, FindsRow, Answer
  <2>5. CASE Wakes(q)
    BY <1>b, <2>5 DEF Wakes
  <2> QED BY <1>2, <2>1, <2>2, <2>3, <2>4, <2>5 DEF Proceeds
<1>3. ASSUME NEW q \in Requests, Fails(q) \/ StopsWaiting(q) PROVE Served'
  BY <1>b, <1>3 DEF Fails, StopsWaiting, Fault, Answer
<1>4. ASSUME NEW r \in Replicas, NEW e \in Requests, Ends(r, e) PROVE Served'
  BY <1>0, <1>4 DEF Ends, Served, TypeOK
<1>5. ASSUME NEW r \in Replicas, Cleanup(r) PROVE Served'
  BY <1>5 DEF Cleanup, Served
<1>6. ASSUME NEW r \in Replicas, Crash(r) PROVE Served'
  <2>1. /\ up' = up \ {r} /\ working' = [working EXCEPT ![r] = {}]
        /\ \A p \in Requests : req'[p] =
                IF req[p].at = r /\ req[p].pc # "done"
                THEN [req[p] EXCEPT !.pc = "done", !.answer = "lost"] ELSE req[p]
    BY <1>6 DEF Crash
  <2>2. ASSUME NEW p \in Requests, req'[p].pc \notin {"idle", "done"}
        PROVE  req'[p] = req[p] /\ req[p].at # r
    <3>1. req[p] \in Request
      BY <1>0 DEF TypeOK
    <3>2. CASE req[p].at = r /\ req[p].pc # "done"
      BY <2>1, <2>2, <3>1, <3>2 DEF Request
    <3>3. CASE ~(req[p].at = r /\ req[p].pc # "done")
      BY <2>1, <2>2, <3>3
    <3> QED BY <3>2, <3>3
  <2>3. \A s \in Replicas : working'[s] # {} => s # r /\ working[s] # {}
    BY <1>0, <2>1 DEF TypeOK
  <2> QED BY <2>1, <2>2, <2>3 DEF Served
<1>7. ASSUME NEW r \in Replicas, Restart(r) PROVE Served'
  <2>1. up' = up \cup {r} /\ UNCHANGED <<req, working>>
    BY <1>7 DEF Restart
  <2> QED BY <2>1 DEF Served
<1>8. CASE UNCHANGED vars
  BY <1>8 DEF vars, Served
<1> QED BY <1>1, <1>2, <1>3, <1>4, <1>5, <1>6, <1>7, <1>8 DEF Next

(* A step that takes no workflow's entry, claim, index or request away keeps
   every workflow visible. *)
LEMMA AliveFrame ==
    ASSUME Safe, Alive, Safe',
           \A s \in Replicas : working'[s] \subseteq working[s],
           \A s \in Replicas : \A e \in working'[s] :
                /\ e \notin ended' /\ entry'[s][e] = entry[s][e]
                /\ claim'[s][req[e].run] = claim[s][req[e].run]
                /\ index'[s][req[e].run] = index[s][req[e].run],
           started' = started, ended' \subseteq started,
           \A e \in started : req'[e] = req[e]
    PROVE  Alive'
<1> SUFFICES ASSUME NEW s \in Replicas, NEW e \in working'[s]
             PROVE  /\ e \in started' /\ e \notin ended'
                    /\ req'[e].at = s /\ claim'[s][req'[e].run] = NoOne
                    /\ entry'[s][e] = "own" /\ index'[s][req'[e].run] = e
  BY DEF Alive, Running, WorkflowIsVisible
<1>1. /\ e \in working[s] /\ e \in started /\ req'[e] = req[e]
      /\ req[e].at = s /\ claim[s][req[e].run] = NoOne
      /\ entry[s][e] = "own" /\ index[s][req[e].run] = e
  BY DEF Alive, Running, WorkflowIsVisible
<1> QED BY <1>1

(* No step hides a running workflow from its readers: the only requests that
   could replace its entry would need the claim it was admitted under. *)
LEMMA AliveStep == Safe /\ Safe' /\ Served /\ Alive /\ [Next]_vars => Alive'
<1> SUFFICES ASSUME Safe, Safe', Served, Alive, [Next]_vars PROVE Alive'
  OBVIOUS
<1> USE DEF memory, budget
<1>0. TypeOK /\ Placed /\ ClaimIsOwned /\ Begun
  BY DEF Safe
<1>a. ASSUME NEW s \in Replicas, NEW e \in working[s]
      PROVE  /\ e \in Requests /\ e \in started /\ e \notin ended /\ req[e].pc = "done"
             /\ req[e].at = s /\ req[e].run \in Runs /\ row[req[e].run] = e
             /\ claim[s][req[e].run] = NoOne
             /\ entry[s][e] = "own" /\ index[s][req[e].run] = e /\ e # NoOne
  <2>1. e \in started /\ e \notin ended /\ req[e].at = s /\ claim[s][req[e].run] = NoOne
    BY DEF Alive, Running
  <2>2. entry[s][e] = "own" /\ index[s][req[e].run] = e
    BY DEF Alive, WorkflowIsVisible
  <2>3. e \in Requests /\ req[e].pc = "done" /\ row[req[e].run] = e
    BY <2>1, <1>0 DEF Begun, TypeOK
  <2>4. req[e].run \in Runs /\ e # NoOne
    BY <2>3, <1>0, AdmissionAssumption DEF Placed
  <2> QED BY <2>1, <2>2, <2>3, <2>4
<1>b. /\ \A e \in started : e \in Requests /\ req[e].pc = "done"
      /\ ended \subseteq started
  BY <1>0 DEF Begun, TypeOK, Alive, Running
<1>c. ASSUME NEW q \in Requests, req[q].pc \in Admitting
      PROVE  /\ req[q].at \in Replicas /\ req[q].run \in Runs
             /\ \A s \in Replicas : \A e \in working[s] :
                    ~(s = req[q].at /\ req[e].run = req[q].run)
  <2>1. req[q].at \in Replicas /\ req[q].run \in Runs
    BY <1>0, <1>c DEF Placed, Admitting
  <2>2. claim[req[q].at][req[q].run] = q /\ q # NoOne
    BY <1>0, <1>c, <2>1, AdmissionAssumption DEF ClaimIsOwned
  <2> QED BY <1>a, <2>1, <2>2
<1>d. ASSUME NEW q \in Requests, req[q].pc \in Admitting, NEW what, Answer(q, what)
      PROVE  /\ \A p \in Requests : p # q => req'[p] = req[p]
             /\ \A s \in Replicas : \A e \in working[s] :
                    claim'[s][req[e].run] = claim[s][req[e].run]
  <2>1. \A p \in Requests : p # q => req'[p] = req[p]
    BY <1>0, <1>d DEF Answer, TypeOK
  <2>2. \A s \in Replicas, m \in Runs :
          claim'[s][m] = IF s = req[q].at /\ m = req[q].run THEN NoOne ELSE claim[s][m]
    BY <1>0, <1>c, <1>d, Cell DEF Answer, Release, TypeOK
  <2> QED BY <1>a, <2>1, <2>2
<1>1. ASSUME NEW q \in Requests, NEW r \in Replicas, NEW n \in Runs,
             JoinsClaim(q, r, n) \/ FindsReplay(q, r, n) \/ Claims(q, r, n)
      PROVE Alive'
  <2>1. /\ UNCHANGED <<working, started, ended, entry>> /\ req[q].pc = "idle"
        /\ \A p \in Requests : p # q => req'[p] = req[p]
    BY <1>0, <1>1 DEF JoinsClaim, FindsReplay, Claims, Asked, At, TypeOK
  <2>2. \A s \in Replicas : \A e \in working[s] :
            /\ claim'[s][req[e].run] = claim[s][req[e].run]
            /\ index'[s][req[e].run] = index[s][req[e].run]
    <3>1. CASE UNCHANGED <<claim, index>>
      BY <3>1
    <3>2. CASE Claims(q, r, n)
      <4>1. \A e \in working[r] : req[e].run # n
        BY <1>a, <3>2 DEF Claims, Replayed
      <4>2. \A s \in Replicas, m \in Runs :
              ~(s = r /\ m = n) => claim'[s][m] = claim[s][m] /\ index'[s][m] = index[s][m]
        <5>1. /\ claim' = [claim EXCEPT ![r][n] = q]
              /\ index' = [index EXCEPT ![r][n] = NoOne]
          BY <3>2 DEF Claims
        <5> QED BY <1>0, <5>1, Cell DEF TypeOK
      <4> QED BY <1>a, <4>1, <4>2
    <3> QED BY <1>1, <3>1, <3>2 DEF JoinsClaim, FindsReplay
  <2> QED BY <1>a, <1>b, <2>1, <2>2, AliveFrame
<1>2. ASSUME NEW q \in Requests, req[q].pc \in Admitting, FindsRow(q),
             UNCHANGED <<ended, working, started>>
      PROVE Alive'
  <2> DEFINE e == row[req[q].run]
  <2>1. e # NoOne /\ Enter(q, e, "copy") /\ Answer(q, e)
    BY <1>2 DEF FindsRow
  <2>2. e \in Requests /\ req[e].run = req[q].run
    BY <1>c, <1>2, <2>1 DEF Safe, Rows, TypeOK
  <2>3. \A s \in Replicas : \A f \in working[s] :
            /\ entry'[s][f] = entry[s][f]
            /\ index'[s][req[f].run] = index[s][req[f].run]
    <3>1. /\ \A s \in Replicas, f \in Requests :
                ~(s = req[q].at /\ f = e) => entry'[s][f] = entry[s][f]
          /\ \A s \in Replicas, m \in Runs :
                ~(s = req[q].at /\ m = req[q].run) => index'[s][m] = index[s][m]
      BY <1>0, <1>c, <1>2, <2>1, <2>2, Cell DEF Enter, TypeOK
    <3> QED BY <1>a, <1>c, <1>2, <2>2, <3>1
  <2> QED BY <1>a, <1>b, <1>d, <1>2, <2>1, <2>3, AliveFrame DEF Admitting
<1>3. ASSUME NEW q \in Requests, LookUp(q) PROVE Alive'
  <2>1. CASE FindsRow(q)
    BY <1>2, <1>3, <2>1 DEF LookUp, At, Admitting
  <2>2. CASE Go(q, "routing") /\ UNCHANGED memory
    <3>1. \A p \in Requests : p # q => req'[p] = req[p]
      BY <1>0, <2>2 DEF Go, TypeOK
    <3> QED BY <1>a, <1>b, <1>3, <2>2, <3>1, AliveFrame DEF LookUp, At
  <2> QED BY <1>3, <2>1, <2>2 DEF LookUp
<1>4. ASSUME NEW q \in Requests, Propose(q) PROVE Alive'
  <2>1. req[q].pc \in Admitting /\ UNCHANGED <<ended, index, entry, working, started>>
    BY <1>4 DEF Propose, At, Admitting
  <2>2. CASE Answer(q, "full")
    BY <1>a, <1>b, <1>d, <2>1, <2>2, AliveFrame DEF Admitting
  <2>3. CASE Go(q, "inserting") /\ UNCHANGED claim
    <3>1. \A p \in Requests : p # q => req'[p] = req[p]
      BY <1>0, <2>3 DEF Go, TypeOK
    <3> QED BY <1>a, <1>b, <2>1, <2>3, <3>1, AliveFrame DEF Admitting
  <2> QED BY <1>4, <2>2, <2>3 DEF Propose
<1>5. ASSUME NEW q \in Requests, req[q].pc \in Admitting, Admit(q), UNCHANGED ended
      PROVE Alive'
  <2> DEFINE r == req[q].at
             n == req[q].run
  <2>1. r \in Replicas /\ n \in Runs /\ q \notin started /\ req[q].pc # "done"
    BY <1>b, <1>c, <1>5 DEF Admitting
  <2>2. /\ working' = [working EXCEPT ![r] = @ \cup {q}] /\ started' = started \cup {q}
        /\ Enter(q, q, "own") /\ Answer(q, q)
    BY <1>5 DEF Admit
  <2>3. /\ \A s \in Replicas : \A e \in working'[s] : e \in working[s] \/ (s = r /\ e = q)
        /\ q \in started' /\ q \notin ended'
    BY <1>0, <1>b, <1>5, <2>1, <2>2 DEF TypeOK
  <2>4. /\ \A s \in Replicas, f \in Requests :
              entry'[s][f] = IF s = r /\ f = q THEN "own" ELSE entry[s][f]
        /\ \A s \in Replicas, m \in Runs :
              index'[s][m] = IF s = r /\ m = n THEN q ELSE index[s][m]
        /\ \A s \in Replicas, m \in Runs :
              claim'[s][m] = IF s = r /\ m = n THEN NoOne ELSE claim[s][m]
    <3>1. q \notin ended
      BY <1>b, <2>1
    <3>2. entry' = [entry EXCEPT ![r][q] = "own"]
      BY <2>2, <3>1 DEF Enter
    <3>3. index' = [index EXCEPT ![r][n] = q] /\ claim' = [claim EXCEPT ![r][n] = NoOne]
      BY <2>2 DEF Enter, Answer, Release
    <3>4. /\ entry \in [Replicas -> [Requests -> Kinds]]
          /\ index \in [Replicas -> [Runs -> Requests \cup {NoOne}]]
          /\ claim \in [Replicas -> [Runs -> Requests \cup {NoOne}]]
      BY <1>0 DEF TypeOK
    <3> QED BY <2>1, <3>2, <3>3, <3>4, Cell
  <2>5. /\ \A p \in Requests : p # q => req'[p] = req[p]
        /\ req'[q].at = r /\ req'[q].run = n
    BY <1>0, <2>2 DEF Answer, TypeOK, Request
  <2> SUFFICES ASSUME NEW s \in Replicas, NEW e \in working'[s]
               PROVE  /\ e \in started' /\ e \notin ended'
                      /\ req'[e].at = s /\ claim'[s][req'[e].run] = NoOne
                      /\ entry'[s][e] = "own" /\ index'[s][req'[e].run] = e
    BY <1>b, <1>5, <2>2 DEF Alive, Running, WorkflowIsVisible
  <2>6. CASE s = r /\ e = q
    BY <2>1, <2>3, <2>4, <2>5, <2>6
  <2>7. CASE e \in working[s]
    <3>1. /\ e \in Requests /\ e # q /\ req'[e] = req[e] /\ req[e].run \in Runs
          /\ ~(s = r /\ req[e].run = n)
      BY <1>a, <1>c, <1>5, <2>1, <2>5, <2>7
    <3> QED BY <1>a, <1>5, <2>2, <2>4, <2>7, <3>1
  <2> QED BY <2>3, <2>6, <2>7
<1>6. ASSUME NEW q \in Requests, Insert(q) PROVE Alive'
  <2>1. req[q].pc \in Admitting /\ UNCHANGED ended
    BY <1>6 DEF Insert, At, Admitting
  <2>2. CASE Go(q, "conflicted") /\ UNCHANGED <<row, memory, working, started>>
    <3>1. \A p \in Requests : p # q => req'[p] = req[p]
      BY <1>0, <2>2 DEF Go, TypeOK
    <3> QED BY <1>a, <1>b, <2>1, <2>2, <3>1, AliveFrame DEF Admitting
  <2> QED BY <1>5, <1>6, <2>1, <2>2 DEF Insert
<1>7. ASSUME NEW q \in Requests, Coalesce(q) PROVE Alive'
  BY <1>2, <1>7 DEF Coalesce, At, Admitting
<1>8. ASSUME NEW q \in Requests, Fails(q) PROVE Alive'
  <2>1. /\ req[q].pc \in Admitting /\ Answer(q, "failed")
        /\ UNCHANGED <<ended, index, entry, working, started>>
    BY <1>8 DEF Fails, Admitting
  <2> QED BY <1>a, <1>b, <1>d, <2>1, AliveFrame DEF Admitting
<1>9. ASSUME NEW q \in Requests, Wakes(q) \/ StopsWaiting(q) PROVE Alive'
  <2>1. /\ req[q].pc = "waiting" /\ UNCHANGED <<ended, memory, working, started>>
        /\ \A p \in Requests : p # q => req'[p] = req[p]
    BY <1>0, <1>9 DEF Wakes, StopsWaiting, At, TypeOK
  <2> QED BY <1>a, <1>b, <2>1, AliveFrame
<1>10. ASSUME NEW r \in Replicas, NEW e \in Requests, Ends(r, e) PROVE Alive'
  <2>1. /\ e \in working[r] /\ UNCHANGED <<claim, index, started, req>>
        /\ working' = [working EXCEPT ![r] = @ \ {e}] /\ ended' = ended \cup {e}
        /\ entry' = [entry EXCEPT ![r][e] = "finished"]
    BY <1>10 DEF Ends
  <2>2. /\ \A s \in Replicas : working'[s] \subseteq working[s]
        /\ e \notin working'[r]
    BY <1>0, <2>1 DEF TypeOK
  <2>3. \A s \in Replicas : \A f \in working'[s] : f # e
    BY <1>a, <2>1, <2>2
  <2>4. \A s \in Replicas, f \in Requests : f # e => entry'[s][f] = entry[s][f]
    BY <1>0, <2>1, Cell DEF TypeOK
  <2> QED BY <1>a, <1>b, <2>1, <2>2, <2>3, <2>4, AliveFrame
<1>11. ASSUME NEW r \in Replicas, Cleanup(r) PROVE Alive'
  <2>1. /\ UNCHANGED <<ended, claim, index, working, started, req>>
        /\ entry' = [entry EXCEPT ![r] = [e \in Requests |->
                        IF @[e] = "finished" THEN "absent" ELSE @[e]]]
    BY <1>11 DEF Cleanup
  <2>2. \A s \in Replicas, f \in Requests :
            entry[s][f] # "finished" => entry'[s][f] = entry[s][f]
    BY <1>0, <2>1 DEF TypeOK
  <2> QED BY <1>a, <1>b, <2>1, <2>2, AliveFrame
<1>12. ASSUME NEW r \in Replicas, Crash(r) PROVE Alive'
  <2>1. /\ UNCHANGED <<ended, started>>
        /\ \A p \in Requests : req[p].pc = "done" => req'[p] = req[p]
    BY <1>12 DEF Crash, At
  <2>2. /\ working' = [working EXCEPT ![r] = {}]
        /\ claim' = [claim EXCEPT ![r] = [n \in Runs |-> NoOne]]
        /\ index' = [index EXCEPT ![r] = [n \in Runs |-> NoOne]]
        /\ entry' = [entry EXCEPT ![r] = [e \in Requests |-> "absent"]]
    BY <1>12 DEF Crash
  <2>3. \A s \in Replicas :
            /\ working'[s] = IF s = r THEN {} ELSE working[s]
            /\ s # r => claim'[s] = claim[s] /\ index'[s] = index[s] /\ entry'[s] = entry[s]
    BY <1>0, <2>2 DEF TypeOK
  <2> QED BY <1>a, <1>b, <2>1, <2>3, AliveFrame
<1>13. ASSUME NEW r \in Replicas, Restart(r) PROVE Alive'
  <2>1. UNCHANGED <<ended, working, started, req, claim>> /\ r \notin up
    BY <1>13 DEF Restart
  <2>2. working[r] = {}
    BY <2>1 DEF Served
  <2>3. \A s \in Replicas : s # r => entry'[s] = entry[s] /\ index'[s] = index[s]
    BY <1>0, <1>13 DEF Restart, TypeOK
  <2> QED BY <1>a, <1>b, <2>1, <2>2, <2>3, AliveFrame
<1>14. CASE UNCHANGED vars
  BY <1>a, <1>b, <1>14, AliveFrame DEF vars
<1> QED BY <1>1, <1>3, <1>4, <1>6, <1>7, <1>8, <1>9, <1>10, <1>11, <1>12,
           <1>13, <1>14 DEF Next, Proceeds

-----------------------------------------------------------------------------
Inv == Safe /\ Served /\ Alive

LEMMA Inductive == Spec => []Inv
<1>1. Init => Inv
  <2> SUFFICES ASSUME Init PROVE Served /\ Alive
    BY SafeInit DEF Inv
  <2>1. /\ \A q \in Requests : req[q].pc = "idle"
        /\ \A r \in Replicas : working[r] = {}
        /\ ended = {}
    BY DEF Init, Idle
  <2> QED BY <2>1 DEF Served, Alive, Running, WorkflowIsVisible
<1>2. Inv /\ [Next]_vars => Inv'
  BY SafeStep, ServedStep, AliveStep DEF Inv
<1> QED BY <1>1, <1>2, PTL DEF Spec

(* Whatever is admitted, retried, lost or restarted, every variable of the
   service holds a value of its type. *)
THEOREM AdmissionIsTyped == Spec => []TypeOK
<1>1. Inv => TypeOK
  BY DEF Inv, Safe
<1> QED BY <1>1, Inductive, PTL

(* "A run is admitted once": no two executions of a run ever have their
   workflow started, by any replicas, across any crashes and lost answers. *)
THEOREM AdmittedOnce == Spec => []OneWorkflow
<1>1. Inv => OneWorkflow
  BY DEF Inv, Safe, Begun, OneWorkflow
<1> QED BY <1>1, Inductive, PTL

(* A handle that start_research_execution returns is the one the run's row
   records, so every duplicate holds the same. *)
THEOREM HandlesAreRecorded == Spec => []HandleIsRecorded
<1>1. Inv => HandleIsRecorded
  BY DEF Inv, Safe
<1> QED BY <1>1, Inductive, PTL

(* A claim in _admissions_in_flight belongs to exactly one request that is
   still admitting its run. *)
THEOREM ClaimsAreOwned == Spec => []ClaimIsOwned
<1>1. Inv => ClaimIsOwned
  BY DEF Inv, Safe
<1> QED BY <1>1, Inductive, PTL

(* Readers and cancellation reach the object a running workflow writes to:
   no rehydrated copy ever takes its place. *)
THEOREM WorkflowsAreVisible == Spec => []WorkflowIsVisible
<1>1. Inv => WorkflowIsVisible
  BY DEF Inv, Alive
<1> QED BY <1>1, Inductive, PTL

-----------------------------------------------------------------------------
(* One execution: the steps of RunAdmission as steps of what it promises. *)
asked == [q \in Requests |-> req[q].run]
told == [q \in Requests |-> req[q].answer]
promised == <<row, started, asked, told>>
Refused == {"failed", "full", "lost"}

(* A request that has not been taken up asks for nothing yet. *)
Fresh == \A q \in Requests : req[q].pc = "idle" => req[q].run = NoOne

LEMMA FreshStep == TypeOK /\ Fresh /\ [Next]_vars => Fresh'
<1> SUFFICES ASSUME TypeOK, Fresh, [Next]_vars, NEW p \in Requests
             PROVE  req'[p] = req[p] \/ req'[p].pc # "idle"
  BY DEF Fresh
<1> USE DEF TypeOK, Request
<1>1. ASSUME NEW q \in Requests, NEW r \in Replicas, NEW n \in Runs,
             JoinsClaim(q, r, n) \/ FindsReplay(q, r, n) \/ Claims(q, r, n)
      PROVE  req'[p] = req[p] \/ req'[p].pc # "idle"
  BY <1>1 DEF JoinsClaim, FindsReplay, Claims, Asked
<1>2. ASSUME NEW q \in Requests, Proceeds(q) \/ Fails(q) \/ StopsWaiting(q)
      PROVE  req'[p] = req[p] \/ req'[p].pc # "idle"
  BY <1>2 DEF Proceeds, LookUp, Propose, Insert, Coalesce, Wakes, Fails, StopsWaiting,
              FindsRow, Admit, Answer, Go
<1>3. ASSUME NEW r \in Replicas, NEW e \in Requests, Ends(r, e) PROVE req' = req
  BY <1>3 DEF Ends
<1>4. ASSUME NEW r \in Replicas, Cleanup(r) \/ Crash(r) \/ Restart(r)
      PROVE  req'[p] = req[p] \/ req'[p].pc # "idle"
  <2>1. CASE Crash(r)
    <3>1. req'[p] = IF req[p].at = r /\ ~At(p, "done")
                    THEN [req[p] EXCEPT !.pc = "done", !.answer = "lost"] ELSE req[p]
      BY <2>1 DEF Crash
    <3>2. [req[p] EXCEPT !.pc = "done", !.answer = "lost"].pc = "done"
      OBVIOUS
    <3> QED BY <3>1, <3>2
  <2> QED BY <1>4, <2>1 DEF Cleanup, Restart
<1> QED BY <1>1, <1>2, <1>3, <1>4 DEF Next, vars

(* A request is told something. *)
LEMMA Tells ==
    ASSUME TypeOK, NEW q \in Requests, NEW what,
           req' = [req EXCEPT ![q].pc = "done", ![q].answer = what]
    PROVE  asked' = asked /\ told' = [told EXCEPT ![q] = what]
BY DEF TypeOK, Request, asked, told

LEMMA Hears ==
    ASSUME TypeOK, NEW q \in Requests, req[q].run # NoOne, req[q].answer = "none",
           NEW what \in Refused \cup ({row[req[q].run]} \ {NoOne}),
           req' = [req EXCEPT ![q].pc = "done", ![q].answer = what],
           UNCHANGED <<row, started>>
    PROVE  O!Next
<1>1. asked' = asked /\ told' = [told EXCEPT ![q] = what]
  BY Tells
<1>2. asked[q] = req[q].run /\ told[q] = "none"
  BY DEF asked, told
<1>3. O!Hear(q)
  BY <1>1, <1>2 DEF O!Hear, asked, told, Refused
<1> QED BY <1>1, <1>3 DEF O!Next, asked

LEMMA Records ==
    ASSUME TypeOK, NEW q \in Requests, req[q].run \in Runs, req[q].answer = "none",
           row[req[q].run] = NoOne, row' = [row EXCEPT ![req[q].run] = q],
           NEW what, req' = [req EXCEPT ![q].pc = "done", ![q].answer = what],
           \/ started' = started \cup {q} /\ what = q
           \/ started' = started /\ what \in Refused
    PROVE  O!Next
<1>1. asked' = asked /\ told' = [told EXCEPT ![q] = what]
  BY Tells
<1>2. asked[q] = req[q].run /\ told[q] = "none"
  BY DEF asked, told
<1>3. O!Record(q)
  <2>1. CASE started' = started \cup {q} /\ what = q
    BY <1>1, <1>2, <2>1 DEF O!Record, asked, told
  <2>2. CASE started' = started /\ what \in Refused
    BY <1>1, <1>2, <2>2 DEF O!Record, asked, told, Refused
  <2> QED BY <2>1, <2>2
<1> QED BY <1>3 DEF O!Next

LEMMA Asks ==
    ASSUME TypeOK, NEW q \in Requests, NEW n \in Runs, req[q].run = NoOne,
           req[q].answer = "none", NEW pc, NEW r, NEW on,
           NEW what \in {"none"} \cup ({row[n]} \ {NoOne}),
           req' = [req EXCEPT ![q] = [pc |-> pc, at |-> r, run |-> n, on |-> on,
                                      answer |-> what]],
           UNCHANGED <<row, started>>
    PROVE  O!Next
<1>1. /\ asked' = [asked EXCEPT ![q] = n] /\ told' = [told EXCEPT ![q] = what]
      /\ asked[q] = NoOne /\ told[q] = "none" /\ asked'[q] = n /\ n # NoOne
  BY AdmissionAssumption DEF TypeOK, asked, told
<1>2. told' = told \/ O!Hear(q)
  <2>1. CASE what = "none"
    BY <1>1, <2>1 DEF told
  <2>2. CASE what = row[n] /\ what # NoOne
    <3>1. what \in {"failed", "full", "lost"} \cup ({row[asked'[q]]} \ {NoOne})
      BY <1>1, <2>2
    <3> QED BY <1>1, <3>1 DEF O!Hear, asked, told
  <2> QED BY <2>1, <2>2
<1>3. O!Ask(q, n)
  BY <1>1, <1>2 DEF O!Ask, asked, told
<1> QED BY <1>3 DEF O!Next

(* Every step of RunAdmission is a step of the promise, or invisible to it. *)
LEMMA PromiseStep == Safe /\ Fresh /\ [Next]_vars => [O!Next]_promised
<1> SUFFICES ASSUME Safe, Fresh, [Next]_vars PROVE O!Next \/ UNCHANGED promised
  OBVIOUS
<1>0. TypeOK /\ Placed /\ Indexed /\ HandleIsRecorded
  BY DEF Safe
<1>a. ASSUME NEW q \in Requests, req[q].pc \in Admitting
      PROVE  req[q].run \in Runs /\ req[q].run # NoOne /\ req[q].answer = "none"
  BY <1>0, <1>a, AdmissionAssumption DEF Placed, Admitting
<1>b. ASSUME NEW q \in Requests, NEW pc, Go(q, pc)
      PROVE  asked' = asked /\ told' = told
  BY <1>0, <1>b DEF Go, TypeOK, Request, asked, told
<1>1. ASSUME NEW q \in Requests, NEW r \in Replicas, NEW n \in Runs,
             JoinsClaim(q, r, n) \/ FindsReplay(q, r, n) \/ Claims(q, r, n)
      PROVE  O!Next
  <2>1. req[q].run = NoOne /\ req[q].answer = "none"
    BY <1>0, <1>1 DEF Fresh, Placed, JoinsClaim, FindsReplay, Claims, Asked, At
  <2>2. CASE JoinsClaim(q, r, n)
    BY <1>0, <2>1, <2>2, Asks DEF JoinsClaim, Asked
  <2>3. CASE FindsReplay(q, r, n)
    <3>1. index[r][n] = row[n] /\ row[n] # NoOne
      BY <1>0, <2>3 DEF FindsReplay, Replayed, Indexed
    <3> QED BY <1>0, <2>1, <2>3, <3>1, Asks DEF FindsReplay, Asked
  <2>4. CASE Claims(q, r, n)
    BY <1>0, <2>1, <2>4, Asks DEF Claims, Asked
  <2> QED BY <1>1, <2>2, <2>3, <2>4
<1>2. ASSUME NEW q \in Requests, req[q].pc \in Admitting, FindsRow(q),
             UNCHANGED <<row, started>>
      PROVE  O!Next
  BY <1>0, <1>a, <1>2, Hears DEF FindsRow, Answer
<1>3. ASSUME NEW q \in Requests, LookUp(q) \/ Coalesce(q)
      PROVE  O!Next \/ UNCHANGED promised
  BY <1>2, <1>3, <1>b DEF LookUp, Coalesce, At, Admitting, promised
<1>4. ASSUME NEW q \in Requests, Propose(q) PROVE O!Next \/ UNCHANGED promised
  <2>1. req[q].pc \in Admitting /\ UNCHANGED <<row, started>>
    BY <1>4 DEF Propose, At, Admitting
  <2>2. CASE Answer(q, "full")
    BY <1>0, <1>a, <2>1, <2>2, Hears DEF Answer, Refused
  <2>3. CASE Go(q, "inserting")
    BY <1>b, <2>1, <2>3 DEF promised
  <2> QED BY <1>4, <2>2, <2>3 DEF Propose
<1>5. ASSUME NEW q \in Requests, Insert(q) PROVE O!Next \/ UNCHANGED promised
  <2>1. req[q].pc \in Admitting
    BY <1>5 DEF Insert, At, Admitting
  <2>2. CASE row[req[q].run] = NoOne /\ Admit(q)
    BY <1>0, <1>a, <2>1, <2>2, Records DEF Admit, Answer
  <2>3. CASE Go(q, "conflicted") /\ UNCHANGED <<row, started>>
    BY <1>b, <2>3 DEF promised
  <2> QED BY <1>5, <2>2, <2>3 DEF Insert
<1>6. ASSUME NEW q \in Requests, Fails(q) PROVE O!Next
  <2>1. req[q].pc \in Admitting /\ Answer(q, "failed") /\ UNCHANGED started
    BY <1>6 DEF Fails, Admitting
  <2>2. CASE UNCHANGED row
    BY <1>0, <1>a, <2>1, <2>2, Hears DEF Answer, Refused
  <2>3. CASE row[req[q].run] = NoOne /\ row' = [row EXCEPT ![req[q].run] = q]
    BY <1>0, <1>a, <2>1, <2>3, Records DEF Answer, Refused
  <2> QED BY <1>6, <2>2, <2>3 DEF Fails
<1>7. ASSUME NEW q \in Requests, Wakes(q) \/ StopsWaiting(q)
      PROVE  O!Next \/ UNCHANGED promised
  <2>1. /\ req[q].run \in Runs /\ req[q].run # NoOne /\ req[q].answer = "none"
        /\ req[q].on \in Requests /\ req[req[q].on].run = req[q].run
        /\ UNCHANGED <<row, started>>
    BY <1>0, <1>7, AdmissionAssumption DEF Wakes, StopsWaiting, At, Placed
  <2>2. CASE StopsWaiting(q)
    BY <1>0, <2>1, <2>2, Hears DEF StopsWaiting, Refused
  <2>3. CASE Wakes(q)
    <3> DEFINE what == req[req[q].on].answer
    <3>1. req' = [req EXCEPT ![q].pc = "done", ![q].answer = what]
      BY <2>3 DEF Wakes
    <3>2. what \in Requests \cup {"none"} \cup Refused
      BY <1>0, <2>1 DEF TypeOK, Request, Answers, Refused
    <3>3. CASE what = "none"
      <4>1. asked' = asked /\ told' = [told EXCEPT ![q] = "none"]
        BY <1>0, <3>1, <3>3, Tells
      <4>2. told' = told
        BY <2>1, <4>1 DEF told
      <4> QED BY <2>1, <4>1, <4>2 DEF promised
    <3>4. CASE what \in Requests
      <4>1. row[req[q].run] = what /\ what # NoOne
        BY <1>0, <2>1, <3>4, AdmissionAssumption DEF HandleIsRecorded
      <4> HIDE DEF what
      <4> QED BY <1>0, <2>1, <3>1, <4>1, Hears
    <3>5. CASE what \in Refused
      <4> HIDE DEF what
      <4> QED BY <1>0, <2>1, <3>1, <3>5, Hears
    <3> QED BY <3>2, <3>3, <3>4, <3>5
  <2> QED BY <1>7, <2>2, <2>3
<1>8. ASSUME NEW r \in Replicas, NEW e \in Requests, Ends(r, e) PROVE UNCHANGED promised
  BY <1>8 DEF Ends, promised, asked, told
<1>9. ASSUME NEW r \in Replicas, Cleanup(r) \/ Restart(r) PROVE UNCHANGED promised
  BY <1>9 DEF Cleanup, Restart, promised, asked, told
<1>10. ASSUME NEW r \in Replicas, Crash(r) PROVE O!Next
  <2> DEFINE lost == {q \in Requests : req[q].at = r /\ ~At(q, "done")}
  <2>1. /\ UNCHANGED <<row, started>>
        /\ req' = [q \in Requests |->
                IF q \in lost THEN [req[q] EXCEPT !.pc = "done", !.answer = "lost"]
                ELSE req[q]]
    BY <1>10 DEF Crash
  <2>2. \A q \in lost : req[q].answer = "none" /\ req[q].run \in Runs
    BY <1>0, AdmissionAssumption DEF Placed, At
  <2>3. lost \in SUBSET {q \in Requests : asked[q] # NoOne /\ told[q] = "none"}
    BY <2>2, AdmissionAssumption DEF asked, told
  <2>4. \A q \in Requests :
            /\ req'[q].run = req[q].run
            /\ req'[q].answer = IF q \in lost THEN "lost" ELSE req[q].answer
    <3>1. req \in [Requests -> Request]
      BY <1>0 DEF TypeOK
    <3> HIDE DEF lost
    <3> QED BY <2>1, <3>1 DEF Request
  <2> HIDE DEF lost
  <2>5. /\ asked' = asked
        /\ told' = [q \in Requests |-> IF q \in lost THEN "lost" ELSE told[q]]
    BY <2>4 DEF asked, told
  <2>6. O!Lose
    BY <2>1, <2>3, <2>5 DEF O!Lose, asked, told
  <2> QED BY <2>6 DEF O!Next
<1>11. CASE UNCHANGED vars
  BY <1>11 DEF vars, promised, asked, told
<1> QED BY <1>1, <1>3, <1>4, <1>5, <1>6, <1>7, <1>8, <1>9, <1>10, <1>11 DEF Next, Proceeds

(* What the replicas do, with any duplicates, lost answers and crashes, is what
   one execution per run promises: an implementation of OneExecution. *)
THEOREM AdmitsOneExecution == Spec => IsOneExecution
<1>1. Init => Fresh /\ O!Init
  BY DEF Init, Fresh, Idle, O!Init
<1>2. Inv /\ Fresh /\ [Next]_vars => Fresh'
  BY FreshStep DEF Inv, Safe
<1>3. Inv /\ Fresh /\ [Next]_vars
        => [O!Next]_<<row, started, [q \in Requests |-> req[q].run],
                      [q \in Requests |-> req[q].answer]>>
  BY PromiseStep DEF Inv, promised, asked, told
<1> QED BY <1>1, <1>2, <1>3, Inductive, PTL DEF Spec, IsOneExecution, O!Spec

-----------------------------------------------------------------------------
(* Nobody waits in vain: a request that waits does so on one of its process that
   is done or works itself, one that lost the insert will find the row, and none
   under way belongs to a process that is down. *)
WaitsOnWorker ==
    \A q \in Requests :
        /\ At(q, "waiting") =>
            /\ req[req[q].on].pc \in Admitting \cup {"done"}
            /\ req[req[q].on].at = req[q].at
        /\ At(q, "conflicted") => row[req[q].run] # NoOne
        /\ req[q].pc \notin {"idle", "done"} => req[q].at \in up

(* What a request keeps that stays where it is: its process, its run and what
   it waits on. *)
Keeps(p) == req'[p].at = req[p].at /\ req'[p].run = req[p].run /\ req'[p].on = req[p].on

LEMMA KeepsWaiting ==
    ASSUME Safe, WaitsOnWorker, NEW q \in Requests,
           \A p \in Requests : p # q => req'[p] = req[p],
           req[q].pc \in Admitting \cup {"waiting"}, Keeps(q),
           req'[q].pc \in Admitting \cup {"done"},
           req'[q].pc = "conflicted" => row'[req[q].run] # NoOne,
           \A n \in Runs : row[n] # NoOne => row'[n] # NoOne,
           up' = up
    PROVE  WaitsOnWorker'
<1> USE DEF At, Admitting
<1>1. \A p \in Requests : Keeps(p)
  BY DEF Keeps
<1>2. \A p \in Requests : req[p].pc \in Admitting \cup {"done"}
                            => req'[p].pc \in Admitting \cup {"done"}
  OBVIOUS
<1> SUFFICES ASSUME NEW p \in Requests
             PROVE  /\ req'[p].pc = "waiting" =>
                        /\ req'[req'[p].on].pc \in Admitting \cup {"done"}
                        /\ req'[req'[p].on].at = req'[p].at
                    /\ req'[p].pc = "conflicted" => row'[req'[p].run] # NoOne
                    /\ req'[p].pc \notin {"idle", "done"} => req'[p].at \in up'
  BY DEF WaitsOnWorker
<1>3. ASSUME req'[p].pc = "waiting"
      PROVE  /\ req'[req'[p].on].pc \in Admitting \cup {"done"}
             /\ req'[req'[p].on].at = req'[p].at
  <2>1. p # q /\ req[p].pc = "waiting" /\ req'[p] = req[p] /\ req[p].on \in Requests
    BY <1>3 DEF Safe, Placed
  <2> QED BY <1>1, <1>2, <2>1 DEF WaitsOnWorker, Keeps
<1>4. ASSUME req'[p].pc = "conflicted" PROVE row'[req'[p].run] # NoOne
  <2>1. CASE p = q
    BY <1>1, <1>4, <2>1 DEF Keeps
  <2>2. CASE p # q
    <3>1. req[p].pc = "conflicted" /\ req[p].run \in Runs /\ req'[p] = req[p]
      BY <1>4, <2>2 DEF Safe, Placed
    <3> QED BY <3>1 DEF WaitsOnWorker
  <2> QED BY <2>1, <2>2
<1>5. req'[p].pc \notin {"idle", "done"} => req'[p].at \in up'
  BY <1>1 DEF WaitsOnWorker, Keeps
<1> QED BY <1>3, <1>4, <1>5

LEMMA WaitsStep == Safe /\ WaitsOnWorker /\ [Next]_vars => WaitsOnWorker'
<1> SUFFICES ASSUME Safe, WaitsOnWorker, [Next]_vars PROVE WaitsOnWorker'
  OBVIOUS
<1> USE DEF budget
<1>0. TypeOK /\ Placed /\ ClaimIsOwned
  BY DEF Safe
<1>a. ASSUME NEW q \in Requests, NEW pc, Go(q, pc)
      PROVE  /\ \A p \in Requests : p # q => req'[p] = req[p]
             /\ req'[q].pc = pc /\ Keeps(q)
  BY <1>0, <1>a DEF Go, TypeOK, Request, Keeps
<1>b. ASSUME NEW q \in Requests, NEW what,
             req' = [req EXCEPT ![q].pc = "done", ![q].answer = what]
      PROVE  /\ \A p \in Requests : p # q => req'[p] = req[p]
             /\ req'[q].pc = "done" /\ Keeps(q)
  BY <1>0, <1>b DEF TypeOK, Request, Keeps
<1>c. ASSUME NEW q \in Requests, req[q].pc \in Admitting, row' = [row EXCEPT ![req[q].run] = q]
      PROVE  \A n \in Runs : row[n] # NoOne => row'[n] # NoOne
  BY <1>0, <1>c, AdmissionAssumption DEF TypeOK
<1>1. ASSUME NEW q \in Requests, NEW r \in Replicas, NEW n \in Runs,
             JoinsClaim(q, r, n) \/ FindsReplay(q, r, n) \/ Claims(q, r, n)
      PROVE  WaitsOnWorker'
  <2>1. /\ req[q].pc = "idle" /\ r \in up /\ UNCHANGED <<row, up>>
        /\ \A p \in Requests : p # q => req'[p] = req[p]
        /\ req'[q].at = r /\ req'[q].pc \in {"waiting", "done", "looking"}
    BY <1>0, <1>1 DEF JoinsClaim, FindsReplay, Claims, Asked, At, TypeOK
  <2>2. req'[q].pc = "waiting" =>
            /\ req'[q].on \in Requests /\ req'[q].on # q
            /\ req[req'[q].on].pc \in Admitting /\ req[req'[q].on].at = r
    <3>1. req'[q].pc = "waiting" => claim[r][n] # NoOne /\ req'[q].on = claim[r][n]
      BY <1>0, <1>1 DEF JoinsClaim, FindsReplay, Claims, Asked, TypeOK
    <3>2. claim[r][n] # NoOne => /\ claim[r][n] \in Requests
                                 /\ req[claim[r][n]].pc \in Admitting
                                 /\ req[claim[r][n]].at = r
      BY <1>0 DEF TypeOK, ClaimIsOwned
    <3> QED BY <2>1, <3>1, <3>2 DEF Admitting
  <2>3. ASSUME NEW p \in Requests, p # q, req[p].pc = "waiting"
        PROVE  req[p].on \in Requests /\ req[p].on # q
    BY <1>0, <2>1, <2>3 DEF Placed
  <2> QED BY <2>1, <2>2, <2>3 DEF WaitsOnWorker, At, Admitting
<1>2. ASSUME NEW q \in Requests, LookUp(q) \/ Coalesce(q) \/ Propose(q)
      PROVE  WaitsOnWorker'
  <2>1. req[q].pc \in Admitting /\ UNCHANGED <<row, up>>
    BY <1>2 DEF LookUp, Coalesce, Propose, At, Admitting
  <2>2. \/ \E what : req' = [req EXCEPT ![q].pc = "done", ![q].answer = what]
        \/ Go(q, "routing") \/ Go(q, "inserting")
    BY <1>2 DEF LookUp, Coalesce, Propose, FindsRow, Answer
  <2>3. /\ \A p \in Requests : p # q => req'[p] = req[p]
        /\ req'[q].pc \in {"done", "routing", "inserting"} /\ Keeps(q)
    BY <1>a, <1>b, <2>2
  <2> QED BY <2>1, <2>3, KeepsWaiting DEF Admitting
<1>3. ASSUME NEW q \in Requests, Insert(q) \/ Fails(q) PROVE WaitsOnWorker'
  <2>1. req[q].pc \in Admitting /\ up' = up
    BY <1>3 DEF Insert, Fails, Fault, At, Admitting
  <2>2. row' = row \/ row' = [row EXCEPT ![req[q].run] = q]
    BY <1>3 DEF Insert, Fails, Admit
  <2>3. \/ \E what : req' = [req EXCEPT ![q].pc = "done", ![q].answer = what]
        \/ Go(q, "conflicted") /\ row[req[q].run] # NoOne /\ row' = row
    BY <1>3 DEF Insert, Fails, Admit, Answer
  <2>4. /\ \A p \in Requests : p # q => req'[p] = req[p]
        /\ Keeps(q) /\ req'[q].pc \in {"done", "conflicted"}
        /\ req'[q].pc = "conflicted" => row'[req[q].run] # NoOne
    BY <1>a, <1>b, <2>3
  <2> QED BY <1>c, <2>1, <2>2, <2>4, KeepsWaiting DEF Admitting
<1>4. ASSUME NEW q \in Requests, Wakes(q) \/ StopsWaiting(q) PROVE WaitsOnWorker'
  <2>1. /\ req[q].pc = "waiting" /\ UNCHANGED <<row, up>>
        /\ \E what : req' = [req EXCEPT ![q].pc = "done", ![q].answer = what]
    BY <1>4 DEF Wakes, StopsWaiting, Fault, At
  <2> QED BY <1>b, <2>1, KeepsWaiting
<1>5. ASSUME UNCHANGED <<row, req>>, up \subseteq up' PROVE WaitsOnWorker'
  BY <1>5 DEF WaitsOnWorker, At
<1>6. ASSUME NEW r \in Replicas, Crash(r) PROVE WaitsOnWorker'
  <2>1. row' = row /\ up' = up \ {r}
    BY <1>6 DEF Crash
  <2>2. \A p \in Requests :
            IF req[p].at = r /\ req[p].pc # "done"
            THEN req'[p].pc = "done" /\ req'[p].at = r ELSE req'[p] = req[p]
    BY <1>0, <1>6 DEF Crash, At, TypeOK, Request
  <2>3. ASSUME NEW p \in Requests, req'[p].pc = "waiting"
        PROVE  /\ req'[req'[p].on].pc \in Admitting \cup {"done"}
               /\ req'[req'[p].on].at = req'[p].at
    <3>1. req'[p] = req[p] /\ req[p].pc = "waiting" /\ req[p].at # r
          /\ req[p].on \in Requests
      BY <1>0, <2>2, <2>3 DEF Placed
    <3> QED BY <2>2, <3>1 DEF WaitsOnWorker, At
  <2> QED BY <2>1, <2>2, <2>3 DEF WaitsOnWorker, At
<1>7. ASSUME NEW r \in Replicas, Cleanup(r) \/ Restart(r) \/ \E e \in Requests : Ends(r, e)
      PROVE  WaitsOnWorker'
  BY <1>5, <1>7 DEF Cleanup, Restart, Ends
<1>8. CASE UNCHANGED vars
  BY <1>5, <1>8 DEF vars
<1> QED BY <1>1, <1>2, <1>3, <1>4, <1>6, <1>7, <1>8 DEF Next, Proceeds

(* No set of requests waits on one another: whoever waits does so on a request
   of its own, living, process that is done or admitting the run itself, so
   that only what it awaits from outside can hold it up. *)
THEOREM NobodyWaitsInVain == Spec => []WaitsOnWorker
<1>1. Init => WaitsOnWorker
  BY DEF Init, Idle, WaitsOnWorker, At, Admitting
<1>2. Inv /\ WaitsOnWorker /\ [Next]_vars => WaitsOnWorker'
  BY WaitsStep DEF Inv
<1> QED BY <1>1, <1>2, Inductive, PTL DEF Spec
==============================================================================

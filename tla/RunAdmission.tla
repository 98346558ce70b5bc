---------------------------- MODULE RunAdmission -----------------------------
(***************************************************************************)
(* Admission of runs by the replicas of the API                            *)
(* (DirectExecutionService.start_research_execution and what it calls,     *)
(* src/api/services/direct_execution_service.py): duplicates of a request  *)
(* meet in one process on a claim and a replay index, and in different     *)
(* processes on the unique index over agent_runs. The table answers after  *)
(* any delay, may fail, and may keep a row whose writer was never told.    *)
(*                                                                         *)
(* An attempt to admit makes a fresh execution id (uuid4). A request makes *)
(* at most one, so the request stands for it.                              *)
(***************************************************************************)
EXTENDS Naturals, FiniteSets

CONSTANTS
    Replicas,       \* processes serving the API
    Runs,           \* durable run identities (tenant and idempotency key)
    Requests,       \* calls of start_research_execution
    Capacity,       \* max_concurrent_executions
    Cleans,         \* whether anything calls cleanup_completed_executions
    MaxFaults,      \* bound: database calls that fail, admissions that are cancelled
    MaxCrashes      \* bound: processes that die and are started again

NoOne == "no one"

ASSUME AdmissionAssumption ==
    /\ Capacity \in Nat \ {0} /\ Cleans \in BOOLEAN
    /\ {MaxFaults, MaxCrashes} \subseteq Nat
    /\ Requests \cap {NoOne, "none", "failed", "full", "lost"} = {}
    /\ NoOne \notin Replicas \cup Runs

VARIABLES
    row,        \* each run's agent_runs row: the execution it was admitted as
    ended,      \* executions whose run row is terminal
    claim,      \* _admissions_in_flight of each replica
    index,      \* _execution_ids_by_run_id of each replica
    entry,      \* active_executions of each replica: "own" is the object the
                \* workflow writes to, "copy" one rebuilt from the rows
    working,    \* executions whose workflow task runs, by replica
    started,    \* executions whose workflow was ever started (observed only)
    req,        \* each request
    up, faults, crashes

memory == <<claim, index, entry>>
budget == <<up, faults, crashes>>
vars == <<row, ended, claim, index, entry, working, started, req, up, faults, crashes>>

Steps == {"idle", "waiting", "looking", "routing", "inserting", "conflicted", "done"}
Answers == Requests \cup {"none", "failed", "full", "lost"}
Kinds == {"absent", "own", "copy", "finished"}
Request == [pc : Steps, at : Replicas \cup {NoOne}, run : Runs \cup {NoOne},
            on : Requests \cup {NoOne}, answer : Answers]

Idle == [pc |-> "idle", at |-> NoOne, run |-> NoOne, on |-> NoOne, answer |-> "none"]

Init ==
    /\ row = [n \in Runs |-> NoOne] /\ ended = {}
    /\ claim = [r \in Replicas |-> [n \in Runs |-> NoOne]]
    /\ index = [r \in Replicas |-> [n \in Runs |-> NoOne]]
    /\ entry = [r \in Replicas |-> [e \in Requests |-> "absent"]]
    /\ working = [r \in Replicas |-> {}] /\ started = {}
    /\ req = [q \in Requests |-> Idle]
    /\ up = Replicas /\ faults = 0 /\ crashes = 0

At(q, pc) == req[q].pc = pc
Go(q, pc) == req' = [req EXCEPT ![q].pc = pc]
Fault == faults < MaxFaults /\ faults' = faults + 1 /\ UNCHANGED <<up, crashes>>

(* The owner of a claim answers: the claim is popped, and whoever waits on it
   finds the answer in the owner's record. *)
Release(q) == claim' = [claim EXCEPT ![req[q].at][req[q].run] = NoOne]
Answer(q, what) ==
    /\ Release(q)
    /\ req' = [req EXCEPT ![q].pc = "done", ![q].answer = what]

(* active_executions[e] and the replay index of the replica serving q. *)
Enter(q, e, kind) ==
    /\ entry' = [entry EXCEPT ![req[q].at][e] = IF e \in ended THEN "finished" ELSE kind]
    /\ index' = [index EXCEPT ![req[q].at][req[q].run] = e]

-----------------------------------------------------------------------------
(* start_research_execution up to its first await. *)

Asked(q, r, n, pc, on, what) ==
    /\ At(q, "idle") /\ r \in up
    /\ req' = [req EXCEPT ![q] = [pc |-> pc, at |-> r, run |-> n,
                                  on |-> on, answer |-> what]]
    /\ UNCHANGED <<row, ended, entry, working, started, budget>>

(* _replayed_execution_id *)
Replayed(r, n) == index[r][n] # NoOne /\ entry[r][index[r][n]] # "absent"

JoinsClaim(q, r, n) ==
    /\ claim[r][n] # NoOne
    /\ Asked(q, r, n, "waiting", claim[r][n], "none")
    /\ UNCHANGED <<claim, index>>

FindsReplay(q, r, n) ==
    /\ claim[r][n] = NoOne /\ Replayed(r, n)
    /\ Asked(q, r, n, "done", NoOne, index[r][n])
    /\ UNCHANGED <<claim, index>>

(* Slip: the claims of other requests are not looked at. *)
ClaimsBlindly(q, r, n) ==
    /\ ~Replayed(r, n)
    /\ Asked(q, r, n, "looking", NoOne, "none")
    /\ claim' = [claim EXCEPT ![r][n] = q]
    /\ index' = [index EXCEPT ![r][n] = NoOne]

(* An index entry that outlived its execution is dropped on the way. *)
Claims(q, r, n) ==
    /\ claim[r][n] = NoOne /\ ~Replayed(r, n)
    /\ Asked(q, r, n, "looking", NoOne, "none")
    /\ claim' = [claim EXCEPT ![r][n] = q]
    /\ index' = [index EXCEPT ![r][n] = NoOne]

-----------------------------------------------------------------------------
(* Under the claim. *)

(* _durably_recorded_execution_id finds a row, before or after the insert. *)
FindsRow(q) ==
    LET e == row[req[q].run] IN
    /\ e # NoOne
    /\ Enter(q, e, "copy") /\ Answer(q, e)

LookUp(q) ==
    /\ At(q, "looking")
    /\ \/ FindsRow(q)
       \/ row[req[q].run] = NoOne /\ Go(q, "routing") /\ UNCHANGED memory
    /\ UNCHANGED <<row, ended, working, started, budget>>

(* _propose_routing and the plan come back; the capacity is compared, and the
   insert begins. *)
Full(r) == Cardinality({e \in Requests : entry[r][e] # "absent"}) >= Capacity

Propose(q) ==
    /\ At(q, "routing")
    /\ \/ Full(req[q].at) /\ Answer(q, "full")
       \/ ~Full(req[q].at) /\ Go(q, "inserting") /\ UNCHANGED claim
    /\ UNCHANGED <<row, ended, index, entry, working, started, budget>>

Admit(q) ==
    /\ row' = [row EXCEPT ![req[q].run] = q]
    /\ Enter(q, q, "own") /\ Answer(q, q)
    /\ working' = [working EXCEPT ![req[q].at] = @ \cup {q}]
    /\ started' = started \cup {q}

(* Slip: agent_runs is not unique on the run. *)
InsertAnyway(q) ==
    /\ At(q, "inserting")
    /\ Admit(q)
    /\ UNCHANGED <<ended, budget>>

(* _admit_run: the rows land together, or the unique index refuses them. *)
Insert(q) ==
    /\ At(q, "inserting")
    /\ \/ row[req[q].run] = NoOne /\ Admit(q)
       \/ /\ row[req[q].run] # NoOne /\ Go(q, "conflicted")
          /\ UNCHANGED <<row, memory, working, started>>
    /\ UNCHANGED <<ended, budget>>

(* Slip: the loser of the insert answers with the id it made itself. *)
CoalesceOntoSelf(q) ==
    /\ At(q, "conflicted")
    /\ Enter(q, q, "own") /\ Answer(q, q)
    /\ UNCHANGED <<row, ended, working, started, budget>>

(* Slip: the loser starts the workflow of the execution it finds recorded. *)
CoalesceStarting(q) ==
    /\ At(q, "conflicted")
    /\ FindsRow(q)
    /\ started' = started \cup {row[req[q].run]}
    /\ UNCHANGED <<row, ended, working, budget>>

(* RunAlreadyAdmittedError *)
Coalesce(q) ==
    /\ At(q, "conflicted")
    /\ FindsRow(q)
    /\ UNCHANGED <<row, ended, working, started, budget>>

(* Slip: the claim outlives a failed admission. *)
FailsKeepingClaim(q) ==
    /\ req[q].pc \in {"looking", "routing", "inserting", "conflicted"}
    /\ Fault
    /\ req' = [req EXCEPT ![q].pc = "done", ![q].answer = "failed"]
    /\ UNCHANGED <<row, ended, memory, working, started>>

(* The database or the router raises, or the caller goes away and the owner of
   the claim is cancelled. An insert may have landed all the same. *)
Fails(q) ==
    /\ req[q].pc \in {"looking", "routing", "inserting", "conflicted"}
    /\ Fault
    /\ Answer(q, "failed")
    /\ \/ UNCHANGED row
       \/ /\ At(q, "inserting") /\ row[req[q].run] = NoOne
          /\ row' = [row EXCEPT ![req[q].run] = q]
    /\ UNCHANGED <<ended, index, entry, working, started>>

(* Slip: a failed owner leaves the future it promised unresolved. *)
WakesOnHandle(q) ==
    /\ At(q, "waiting") /\ req[req[q].on].answer \in Requests
    /\ req' = [req EXCEPT ![q].pc = "done", ![q].answer = req[req[q].on].answer]
    /\ UNCHANGED <<row, ended, memory, working, started, budget>>

(* A waiter gets what the owner of the claim got. *)
Wakes(q) ==
    /\ At(q, "waiting") /\ At(req[q].on, "done")
    /\ req' = [req EXCEPT ![q].pc = "done", ![q].answer = req[req[q].on].answer]
    /\ UNCHANGED <<row, ended, memory, working, started, budget>>

(* asyncio.shield: a waiter that goes away leaves the claim alone. *)
StopsWaiting(q) ==
    /\ At(q, "waiting") /\ Fault
    /\ req' = [req EXCEPT ![q].pc = "done", ![q].answer = "failed"]
    /\ UNCHANGED <<row, ended, memory, working, started>>

-----------------------------------------------------------------------------
(* The workflow reaches its end, and its run row a terminal status. *)
Ends(r, e) ==
    /\ e \in working[r]
    /\ working' = [working EXCEPT ![r] = @ \ {e}]
    /\ ended' = ended \cup {e}
    /\ entry' = [entry EXCEPT ![r][e] = "finished"]
    /\ UNCHANGED <<row, claim, index, started, req, budget>>

(* cleanup_completed_executions; the index keeps its entries. *)
Cleanup(r) ==
    /\ Cleans /\ r \in up /\ \E e \in Requests : entry[r][e] = "finished"
    /\ entry' = [entry EXCEPT ![r] = [e \in Requests |->
                    IF @[e] = "finished" THEN "absent" ELSE @[e]]]
    /\ UNCHANGED <<row, ended, claim, index, working, started, req, budget>>

(* A process dies with everything it remembers, its workflows and its calls. *)
Crash(r) ==
    /\ r \in up /\ crashes < MaxCrashes /\ crashes' = crashes + 1
    /\ up' = up \ {r}
    /\ claim' = [claim EXCEPT ![r] = [n \in Runs |-> NoOne]]
    /\ index' = [index EXCEPT ![r] = [n \in Runs |-> NoOne]]
    /\ entry' = [entry EXCEPT ![r] = [e \in Requests |-> "absent"]]
    /\ working' = [working EXCEPT ![r] = {}]
    /\ req' = [q \in Requests |->
                IF req[q].at = r /\ ~At(q, "done")
                THEN [req[q] EXCEPT !.pc = "done", !.answer = "lost"] ELSE req[q]]
    /\ UNCHANGED <<row, ended, started, faults>>

Unfinished == {n \in Runs : row[n] # NoOne /\ row[n] \notin ended}

(* restore_active_executions, which an error may stop half way. *)
Restart(r) ==
    /\ r \notin up /\ up' = up \cup {r}
    /\ \E found \in SUBSET Unfinished :
        /\ \/ found = Unfinished /\ UNCHANGED faults
           \/ found # Unfinished /\ faults < MaxFaults /\ faults' = faults + 1
        /\ index' = [index EXCEPT ![r] = [n \in Runs |->
                        IF n \in found THEN row[n] ELSE NoOne]]
        /\ entry' = [entry EXCEPT ![r] = [e \in Requests |->
                        IF \E n \in found : row[n] = e THEN "copy" ELSE "absent"]]
    /\ UNCHANGED <<row, ended, claim, working, started, req, crashes>>

Proceeds(q) == \/ LookUp(q) \/ Propose(q) \/ Insert(q) \/ Coalesce(q) \/ Wakes(q)

Next ==
    \/ \E q \in Requests :
        \/ \E r \in Replicas, n \in Runs :
                JoinsClaim(q, r, n) \/ FindsReplay(q, r, n) \/ Claims(q, r, n)
        \/ Proceeds(q) \/ Fails(q) \/ StopsWaiting(q)
    \/ \E r \in Replicas :
        \/ \E e \in Requests : Ends(r, e)
        \/ Cleanup(r) \/ Crash(r) \/ Restart(r)

Spec == Init /\ [][Next]_vars

(* A request that was taken up keeps getting answers from what it awaits. *)
FairSpec == Spec /\ \A q \in Requests : WF_vars(Proceeds(q))

-----------------------------------------------------------------------------
(* Every variable holds values the code could store in it. *)
TypeOK ==
    /\ row \in [Runs -> Requests \cup {NoOne}] /\ ended \subseteq Requests
    /\ claim \in [Replicas -> [Runs -> Requests \cup {NoOne}]]
    /\ index \in [Replicas -> [Runs -> Requests \cup {NoOne}]]
    /\ entry \in [Replicas -> [Requests -> Kinds]]
    /\ working \in [Replicas -> SUBSET Requests] /\ started \subseteq Requests
    /\ req \in [Requests -> Request]
    /\ up \subseteq Replicas /\ faults \in 0..MaxFaults /\ crashes \in 0..MaxCrashes

(* "A run is admitted once": whatever duplicates arrive, at whichever replica,
   before, during and after crashes and lost answers, at most one execution of
   a run ever has its workflow started. *)
OneWorkflow ==
    \A e, f \in started : req[e].run = req[f].run => e = f

(* Every handle a caller is given is the execution the run's row records, so
   duplicates answered by different replicas hold the same one. *)
HandleIsRecorded ==
    \A q \in Requests : req[q].answer \in Requests => row[req[q].run] = req[q].answer

(* "A run is admitted once", the whole of it: a row is never rewritten, only
   the admission that wrote it starts a workflow, and every request is told
   that execution or a refusal, once. *)
O == INSTANCE OneExecution WITH
    Refusals <- {"failed", "full", "lost"},
    asked <- [q \in Requests |-> req[q].run],
    told <- [q \in Requests |-> req[q].answer]

IsOneExecution == O!Spec

(* The entry readers and cancellation reach for a run that is executing is the
   object its workflow writes to, never a copy rebuilt from the rows, and a
   replay finds it. *)
WorkflowIsVisible ==
    \A r \in Replicas : \A e \in working[r] :
        entry[r][e] = "own" /\ index[r][req[e].run] = e

(* A run is claimed exactly while one request of the process is admitting it:
   a failure leaves no claim behind that would make every retry wait. *)
Admitting == {"looking", "routing", "inserting", "conflicted"}
ClaimIsOwned ==
    \A r \in Replicas, n \in Runs, q \in Requests :
        claim[r][n] = q <=> req[q].pc \in Admitting /\ req[q].at = r /\ req[q].run = n

(* "They get the same failure the first caller got rather than a hang": every
   request that was taken up is answered. *)
EveryRequestAnswered ==
    \A q \in Requests : ~At(q, "idle") ~> At(q, "done")

(* "Maximum concurrent executions (...) reached": a request is refused for
   capacity only while that many executions are pending or running here. *)
FullMeansBusy ==
    [][\A q \in Requests :
        req'[q].answer = "full" /\ At(q, "routing") =>
            Cardinality({e \in Requests : entry[req[q].at][e] \in {"own", "copy"}})
                >= Capacity]_vars
==============================================================================

# Cerebro: a formal model of durable execution

Cerebro is a multi-agent research service. What makes it more than a pipeline of
model calls is that a run outlives the process executing it: its status, its
events and its tool calls are rows in a database, and everything a caller, a
subscriber or a second process is told must agree with those rows while
coroutines interleave, the database fails, answers get lost and processes die.
This directory models that part: TLA+ modules, TLC runs that check them on
small instances, and TLAPS proofs that hold for every instance.

All source paths below are relative to `src/src/`.

## The system

| component | state it keeps | operations | hard behaviours | what makes it correct | module |
|---|---|---|---|---|---|
| run admission (`api/services/direct_execution_service.py`) | in-flight claims, replay index, `active_executions`, the unique index over run rows | `start_research_execution`, cleanup, restart | check-then-act across awaits, lost answers, replicas, cancelled waiters | one execution and one handle per run; everyone is answered | RunAdmission |
| run execution service (same file) | `ExecutionStatus` per run: cached contracts, the polled status, a withheld outcome; `_pending_terminal_outcomes`; the reconciler task | start, attempt, record, park, reconcile, cancel, close, restore | coroutines interleaving at awaits, unanswered commits, bounded retries, shutdown, crash and restore | memory never claims what the log does not hold; one outcome; none lost | RunExecution |
| lifecycle contracts (`core/contracts/`) | immutable Run, Task, Attempt | `transition_to`, `request_cancellation` | validated against the copy in hand, not the row | the three tell one story | LifecycleStates |
| run event log (`repositories/run_event_repository.py`, `run_lifecycle_repository.py`) | rows, events with a sequence per run, outbox rows | `append_event`, `record_*_transition`, cursor reads | identity by event id; numbering under concurrent transactions; rows read without a lock and overwritten whatever they hold | append-only, gap-free, identities unique | RunStream, RunExecution |
| run event stream (`api/websocket/run_stream.py`, `api/routes/`) | cursor, waiter, frames sent | page, check, final read, wait | missed wake-ups, a run ending between two reads, broken connections | every event, in order, then stop | RunStream |
| outbox relay (`api/services/outbox_relay.py`) | outbox rows; the batch a relay holds | claim, sweep, deliver, finalize | leases outlived, relays dying mid-batch, several relays | at least once, bounded attempts, never silently abandoned | OutboxRelay |
| tool boundary and audit store (`core/tools/boundary.py`, `agents/tools/durable_audit.py`) | one row per idempotency key with a lease; call-local state | reserve, heartbeat, run, settle, recover | racing duplicates, expired leases, late workers, cancellation during a write | a tool runs once per key; everyone is told what the row says | ToolInvocation |
| tool circuit breaker (`core/tools/circuit.py`) | state, failures, trial slot | `allows`, `record_*` | late results, trials withdrawn | refuses on evidence, slot returned | CircuitBreaker |
| bounded task runner (`core/kernel/bounded_concurrency.py`) | queue, active tasks, results | admit, collect, cancel | completion batches, fail-fast, cancellation | bound respected, no task left behind | BoundedTaskRunner |
| adaptive state store and recorder (`ai_brain/router/`) | versioned state, expiring markers | load, apply, compare-and-set, redeliver | concurrent writers, replays, lost answers, expiry | learned again only when outdated, no lost update | AdaptiveRouting |
| routing breaker (`reliability/retry_strategies.py`, `ai_brain/router/masr.py`) | state, counters, trial counter | `call`, `_on_success`, `_on_failure` | overlapping routings, cancelled trials | opens on failures only, is tried again, concludes | RoutingBreaker |

How they interact. A run is admitted (rows and first event in one transaction),
then executed by a coroutine of the same process. Every status change is one
transaction over three rows, an event and its outbox rows. The relay drains the
outbox towards Redis and the web socket; stream readers page the event log and
are woken, sometimes, by a hub in their process. Agents fan out over the bounded
task runner and call tools through the boundary, which asks the tool's breaker
and writes an audit row, and its event, before and after the tool runs. Routing
precedes execution, sits behind a breaker of its own, and learns from outcomes
through a state the routers of all processes share.

The rest of the repository is model calls, data checks, I/O and presentation;
see "What is left out". `PROJECT.json` lists each part with its reason, and every
hazard at its line with the properties that cover it.

## Modules

**LifecycleStates** has the statuses and transition tables and the operators
`CanTransition`, `Cancellation` and `CanCancel` over a record of the three
statuses: the service always moves the three contracts of a run together.

**RunAdmission** has several replicas, the run rows, and one request per call of
`start_research_execution`. A request joins a claim of its process, finds a
replay, or claims the run; then it looks the row up, checks capacity, routes, and
inserts, or learns from the unique index that another was first.

| model | code |
|---|---|
| `row`, `ended` | the `agent_runs` row: which execution it was admitted as, whether it is terminal |
| `claim`, `index`, `entry` | `_admissions_in_flight`, `_execution_ids_by_run_id`, `active_executions` of each replica |
| `working` | the workflow tasks of each replica |
| `req` | where each call is, and what it was answered |

`Cleans` says whether anything calls `cleanup_completed_executions`; nothing in
the repository does, which is the subject of the run `RunAdmission_full`.

**OneExecution** is the abstract specification of admission: one execution is
recorded for a run and stays; only the step that records it may start its workflow;
a request is told once, that execution or a refusal. `RunAdmission` implements it
(`IsOneExecution`): what a request asked for is the run it was taken up with, what
it was told is its handle, or how it was refused.

**RunExecution** is one admitted run inside one service process, with cancel
requests, the reconciler, a shutdown and a restart.

| model | code |
|---|---|
| `durable`, `log` | the status columns of the three rows; the identities in `agent_run_events` |
| `cached`, `status`, `unconfirmed`, `retries` | `ExecutionStatus._run/_task/_attempt`, `.status`, `.unconfirmed_terminal_status`, `.retry_count` |
| `workflow` | where `_execute_research_workflow` is |
| `writer[w]` | the `_commit_transition` in progress of the workflow, the reconciler or `close()`: plan, try, answered or not |
| `cancel[c]` | a `cancel_execution` call: what it writes, whether the contracts were cancelling already (`again`), how many rows it has left alone (`kept`) |
| `parked`, `reconciler`, `passes` | `_pending_terminal_outcomes`, the `_reconcile_until_drained` task, its passes |
| `service` | `closed`: set when `close()` is called ("closing"), and returned ("closed") |

A step ends where the code awaits. A transaction and the coroutine noticing its
end are two steps, so that anything may happen in between. `CommitFails` is a
database failure before or after the transaction landed.

The rows are the delicate part. `record_run_transition` and its two siblings read
a row without a lock, set its columns and write those that differ from what was
read; the database is at READ COMMITTED. So a row that reads as planned is not
written, and whatever is committed to it before the transaction ends stays
(`KeepsRow`, `Written`). A first cancel request has a new
`cancellation_requested_at` to write, which locks the run's row unless another
request got there before; a repeated one may write nothing at all, row by row. The
workflow, the reconciler and `close()` always write all three: a transition that
finds the run as planned finds its event in the log and is refused, which
`TransitionsWriteTheRun` proves, and the first row written keeps the others out.
Timestamps are left out, and with them the check that refuses to rebuild a row whose
timestamps contradict its status: `Restore` may rebuild any unfinished run, or none.

`Close` makes a last
pass over what is parked while everything else goes on, a pass of the loop over
the same outcome included; `TasksCancelled` then stops every task wherever it is.
`Crash` forgets all memory, `Restore` is `restore_active_executions`.

**RunPromise** is the abstract specification: one outcome is recorded, once; the
run's status follows the table and agrees with that outcome until a cancellation is
recorded, and reads no other outcome after it; only a recorded outcome is published,
and what was published is only ever forgotten. `RunExecution` implements it, cancel
requests included, through the mapping `KeepsPromise`: status and outcome are those of
the run's row and of the log, and a cancellation is recorded when its event is in the
log.

**RunStream** has the row's sequence counter, transactions that number an event
under the row lock and then commit or roll back, and clients that tail the run.
`reader[r]` is a client with the generator serving it: position, page read,
frames received. A connection may break with frames yielded and not received; the
client returns with the cursor of any frame it has. `Notify` is the hub, which
need not reach anyone. A run may be reopened after a terminal status, since
`record_run_transition` does not look at the old one.

**ResumableStream** is the abstract specification: a client receives every event
after all those before it, and one that is told the stream is complete has the event
that ended the run. `RunStream` implements it (`IsResumable`): what is recorded are
the committed events, and what a client has seen are the frames it received over all
its connections. That needs `Burst <= Limit` (see Bounds).

**OutboxRelay** has the outbox rows and any number of relays. Claim and sweep are
one transaction, as in `run_once`; each `Deliver` and `Finalize` is its own step.
Deadlines are the time left to them. `published` records which attempts reached
the destination and is observed only.

**AtLeastOnce** is the abstract specification of an event handed to the outbox: a
bounded number of tries, each published at most once, and one conclusion for good,
delivered only if the last try got there and given up only when none is left.
`OutboxRelay` implements it with one relay (`DeliversAtLeastOnce`): a row's tries are
its counted attempts, its fate is read off its status and its error code.

**ToolInvocation** is one idempotency key: the row with its lease, and every call
of that key in any process, with its heartbeat. `Search` is
`reconcile_pending_invocation`, `Reserve` the insert guarded by the partial
unique index, `Conclude` the terminal `persist` under the row lock, `Raises` a
database call that fails before or after committing, `Dies` a process that
stops. The row is never deleted by any of them.

**IdempotentCall** is the abstract specification of a key: one caller may do the
work, once; the key gets one outcome; whoever is told an outcome is told that one.
`ToolInvocation` implements it (`IsIdempotent`): the holder is the row's owner, and
what was worked is what a call ran.

**CircuitBreaker** is the tool breaker and the calls that use it, reduced to the
points where `invoke` touches it: the clock read at the start, `allows`, the
exits during admission, the dispatch and the result.

**BoundedTaskRunner** is one runner, used again and again: what completed when it
wakes is one batch; a failure or a cancelled caller makes it wait for what it
admitted. **ToolFanout** composes it with the breaker: `execute_workers_parallel`
of the supervisors, or the mixture of agents, whose workers call one tool. Nothing
of the breaker is restated there: a step of the composition is a step of the
runner, of the breaker, or of a call that the runner cancels.

**AdaptiveRouting** is how routers learn from outcomes: `Record` judges an
outcome's age and takes it up, `Loads` takes the process's lock and reads the
state, `Writes` is the compare-and-set script, which also leaves a marker that
expires; `Redeliver` is the recorder's next delivery after an error. `Tick` is free:
nothing in the code bounds the wait between the judgement and the write. `landed`
records which outcomes an accepted write contained and is observed only.

**SerialLearning** is the abstract specification: outcomes are applied to one state
one at a time, none taken back, none learned a second time before it is too old to
be judged eligible, and a delivery is told that its outcome is in the state only when
it is. `AdaptiveRouting` implements it (`LearnsSerially`):
the state is the stored snapshot, what a delivery was told is its answer.

**RoutingBreaker** is `CircuitBreaker` of `retry_strategies.py` as
`MASRouter.route` drives it: an empty call to be let in, then an explicit report.
`streak` counts failed routings and is observed only. Counters stop at their
thresholds, beyond which the code compares them only with `>=`.

Each `MC` module instantiates one of the detailed modules for TLC and adds the symmetry of its
identical actors. Operators whose comment begins with "Slip" are never used by a
specification: each is a mapped definition with a plausible mistake in it, and
substituting it makes TLC find the property named for it in `PROJECT.json`
violated.

## What the runs show

| run | question | result |
|---|---|---|
| `RunExecution_safety` | do memory and log agree, and the three rows until a second cancel request, is `RunPromise` implemented, and is a withheld outcome published, through two cancellations, six failures, a shutdown and a crash? | holds |
| `RunExecution_torn` | do the task and the attempt of a finished run stay finished with it? | violated |
| `RunAdmission_duplicates` | do duplicates, at two replicas, get one execution, one handle and an answer each, and is `OneExecution` implemented? | holds |
| `RunAdmission_full` | is a run refused for capacity only while as many are executing? | violated |
| `RunStream_tail` | does a client miss nothing, does a stream that ends end complete, does it end, and is `ResumableStream` implemented? | holds |
| `OutboxRelay_shared` | with two relays: at least once, no claim worked twice | holds |
| `OutboxRelay_sole` | with one relay: no silent abandonment, is `AtLeastOnce` implemented, and does every row settle? | holds |
| `ToolInvocation_safety` | does a row tell what its tool did, is one completion recorded, and is `IdempotentCall` implemented (one run of the tool, one outcome, told to everyone)? | holds |
| `ToolFanout_cancelled` | does the breaker refuse exactly on evidence, is the concurrency bound kept, are results complete, and does a run that is over leave nothing behind? | holds |
| `CircuitBreaker_slot` | is the trial slot always held by a trial? | violated |
| `RoutingBreaker_fair` | does the breaker open only on failures, hold for its timeout, is it then tried, and is a trial concluded? | holds |
| `AdaptiveRouting_replays` | is what was learned learned again only when outdated, no accepted write lost, and `SerialLearning` implemented? | holds |

The three violated properties state what the code or its documents say, and the
findings in `PROJECT.json` quote it:

- *Capacity* (`FullMeansBusy`). The check counts every entry of `active_executions`,
  finished ones included, and nothing removes them: after
  `max_concurrent_executions` runs a process refuses every further one although
  nothing executes.
- *The trial slot* (`SlotHasHolder`). `allows` takes the slot, but only `_run_tool`
  gives it back. A call that ends during admission keeps it, and later calls are
  refused until a call admitted before the breaker opened happens to report.
- *Torn rows* (`EndsTogether`). A second request reads the run's row as CANCELLING
  and leaves it alone; the workflow's success is committed; the request then finds the
  task and the attempt SUCCEEDED and writes CANCELLING. `OneStory` is what remains
  true, and is proved: the rows agree until a second request is made, and the
  contracts a running workflow works with always do.

In the other direction, the docstring of `OutboxRelay` (`outbox_relay.py:45-49`) says
that concurrent relays "could both attempt delivery of the same row before either
commits its claim". They cannot: the claiming UPDATE checks again that the row is
claimable (`outbox_relay.py:223`), and `EachClaimOnce` holds, and is proved, for any
number of relays.

Six more departures from what a reader might expect are in the models as the code
has them, without a run of their own; for each a property that holds, and is proved,
says where it ends:

- *Late cancellation.* The legality of a transition is checked on the cached
  contracts before an await; `record_run_transition` then writes the row whatever it
  holds. A success and a cancellation planned from the same RUNNING record both
  commit and the later one wins, so a terminal row may change; the same race with the
  start of a run takes one cancelled outright back to RUNNING. `KeepsPromise` and
  `RowFollowsTable` say that it takes such a race: no row moves against the table,
  or away from the recorded outcome, before a cancellation is in the log.
- *Lost outcomes.* The start of a run may fail to be recorded and the attempt goes
  on (`direct_execution_service.py:2321`). A success is then refused by contracts
  still QUEUED: it is neither written nor parked, and the status returns to pending.
  `OutcomeKept` excuses that case by name, and says that there is no other.
- *The last page.* The final read after the terminal check returns one page (100
  events by default) and no loop follows (`run_stream.py:339`); what was committed
  beyond it since the empty read, the terminal event included, is never sent on a
  stream that ends as complete. `StopsComplete` is stated, checked and proved for
  `Burst <= Limit`, and is false without it.
- *Learning twice.* An outcome is judged before the lock is taken
  (`masr.py:945`), and its first marker may expire while a replay waits.
  `RelearnsOnlyOutdated` says that by then the outcome is too old to be judged
  eligible, so no replay judged after the marker expired is learned from.
- *Silent abandonment.* `_finalize` matches the row by id alone
  (`outbox_relay.py:400`). A relay slower than its lease can finalize a row another
  relay has taken to its last attempt and dead-lettered; the row then reads merely
  failed, with no attempt left. `NoSilentAbandonment` and `DeliversAtLeastOnce` are
  therefore checked, and proved, for a relay that shares its table with no other. For
  any number of relays `OnlyHoldersUnsettle` proves that nothing else touches a
  settled row: it takes a relay still holding a claim of it.
- *The routing breaker.* Being let in is reported as a success (`masr.py:367`),
  which clears the count of failures, so failures one after another never open it;
  only overlapping routings can. `OpensOnEvidence` says that it never opens on less,
  and `OpensOnlyOnOverlap` proves that it stays closed for good where fewer routings
  than the threshold overlap.

### Bounds

Each bound is a constant of the module and is chosen so that the hard case
occurs, and occurs more than once.

- `RunExecution`: two tries, two attempts and two passes make every limit
  reachable. Six failures exhaust the tries of an outcome and of both passes, so that
  the loop abandons an outcome (or those of a start, an outcome and a pass); a
  database that failed that often has failed every try there is, which is the one
  excuse `WithheldIsPublished` makes for the database. Two cancellers can race each
  other as well as the workflow; shutdown and one crash can happen anywhere.
  `RunExecution_torn` has no failure at all: it takes none.
- `RunAdmission`: three requests for two runs at two replicas are the fewest in
  which duplicates meet in one process and in two while another run competes for a
  capacity of one; two faults (an unanswered insert that landed, a cancelled
  owner) and one crash. Here cleanup is assumed to happen, so that capacity comes
  back; `RunAdmission_full` has the code as it is, on one replica without faults.
- `RunStream`: two writers, so that numbering contends; five events in pages of
  two, so that full, partial and empty pages occur. A client that has caught up
  may find at most `Burst` new events at its next read; two of them, as many as a page
  holds, in the passing run. `Burst <= Limit` is a real condition
  on the environment, which the module does not assume; see *The last page*.
- `OutboxRelay`: two rows in a batch, so that one waits while the other is
  delivered, and a lease of one tick, so that it expires under a live relay; the
  ceiling of two attempts is reached by reclaiming as well as by failing. The
  single-relay run has three attempts, a longer lease and two deaths.
- `ToolInvocation`: three calls are the fewest with which a late one meets both
  another that changed the row and a third that acts on it. The clock runs past a
  whole lease that was taken late.
- `ToolFanout`: three workers, two at a time, so that one is queued while two
  complete in one batch; a threshold of two failures and a cooldown that ends
  within the clock, so that results reach a breaker long since open.
  `CircuitBreaker_slot` needs two calls.
- `RoutingBreaker`: three routings, thresholds of two and one trial; its counters
  saturate, so nothing else is bounded.
- `AdaptiveRouting`: two outcomes let a second writer overtake the revision a first
  one loaded, at two routers; one conflict retry, two deliveries, and one fault (an
  error, a lost answer or a cancellation). Outcomes are dated up to the whole skew
  ahead, which is the furthest the code admits, and the clock runs one tick past
  `MaxAge + Skew`, the life of a marker, so that a replay may be judged before and
  written after.

Deadlock is not checked where the system may rightly stop: a finished run,
requests all answered, or a clock at its bound. It is checked for the outbox,
where time always passes, and for the routing breaker.

### Fairness

- `RunExecution`: the event loop runs every ready coroutine, a database call
  returns with or without success, and a sleeping reconciler wakes. Nobody is
  obliged to cancel, to shut down or to crash.
- `RunAdmission`: a request that was taken up gets an answer from whatever it
  awaits; nothing is assumed of clients, workflows, cleanup or crashes.
- `RunStream`: a transaction ends one way or the other, and a connected generator
  is served. No client is obliged to connect and no wake-up to arrive: the
  stream's own poll interval is what `EventsArrive` rests on.
- `OutboxRelay`: a relay polls for ever (`_run_forever` swallows every error),
  and time passes. Deaths are finite, and a relay that died polls again.
- `ToolFanout`: the runner wakes when a task is done; a tool call ends at its
  deadline, if by nothing else; and a worker ends in the end however often it
  calls the tool (strong fairness, since it can end only between its calls).
- `RoutingBreaker`: time passes, a routing ends, and queries keep coming. The last
  is an assumption on clients, not on the code: with no further query an open
  breaker remains open, which harms nobody.

Without fairness a counterexample to a liveness property would only say that the
system stopped, so none is reported that way.

## What is proved

Eight modules of proofs show for every value of the constants what the runs check
on one: any number of actors, retries, failures and crashes. They assume the
named `ASSUME`s of the modules and nothing else: limits are naturals, positive
where the code needs it; that the identifiers of nobody are not those of somebody; and, for
the fan-out, that a run has finitely many workers. Conditions of single theorems stand
in their statements: `Burst <= Limit` in `CompleteStreams` and `StreamIsResumable`, and
one relay in three theorems of the outbox. Type invariants are proved and not
also run, except `FanoutTypeOK`, which bounds the admitted tasks. Nor are four safety
properties that a refinement implies which is run: that a tool runs once and that
answers are the row's (`RanOnce`, `AnswersRecorded`; `IdempotentCall`), that settled
rows stay (`SoleRelayIsFinal`; `AtLeastOnce`), and that answers to a recorder are
true (`AnswersAreSo`; `SerialLearning`).

*RunExecutionProofs.* None of the invariants is inductive alone: nothing in
`PublishedIsRecorded` says that the plan a coroutine is about to publish is the one
its landed commit wrote. The inductive invariant `IInv` adds

- `Control`: each coroutine's transaction belongs to the point it is at
  (`WorkflowWriter`: the workflow starts on entry and proposes an outcome while
  executing; `ConfirmingWriter`: the reconciler and `close()` confirm only what a
  finished workflow left parked, the same outcome if both do, although one of them
  may have unparked it already), and a process that is down runs no workflow;
- `Evidence`: a record that was started or decided has its event in the log, row and
  cache alike, and so does a landed commit or cancellation; it is preserved because
  the log only grows (`RunRowHasItsEvent` is the part of it about the run's row);
- `Story`: until a second request is made the rows are one story, what a request
  plans or has left alone still fits them, and the contracts in the cache are one
  story as long as a workflow may use them, however many requests there are
  (`Lasting` says that a second request stays made);
- `Exclusive`: while the workflow may still decide there is no outcome in the log,
  and no plan, of whichever coroutine, nor the parked outcome contradicts the log.

`Invariance` shows `Spec => []IInv`, action by action, and `Typing`, `Agreement`
(`OneStory`), `TransitionsWriteTheRun`,
`PublishedOnlyIfRecorded`, `SingleOutcome`, `WithheldOnlyIfParked` and
`OutcomeIsKept` follow. `PromiseKept` proves that `RunExecution` implements
`RunPromise`, cancel requests included. It rests on one more invariant,
`UntilCancelled`: a cancellation is in the log, or `Uncancelled` holds, that is, the
row holds the last thing the log tells and nobody holds a success of a run that was
never started. Requests disturb `Uncancelled` only by an event in the log
(`UntilStep`), and until then every step of the row is one of the table, which is
`RowFollowsTable`. No step both writes to the database and changes what callers read
(`WritesOrTells`), and what they read is the one outcome in the log
(`RecordIsTold`), so each step is a `Write`, a `Publish` or a `Forget`.

*RunAdmissionProofs.* `Safe` collects where each request is (`Placed`), that a
recorded execution is one that got its answer (`Rows`), that an index points only
at the recorded execution (`Indexed`) and that only recorded executions were
started (`Begun`), with `HandleIsRecorded` and `ClaimIsOwned`; `Served` ties
requests and workflows to processes that are up; `Running` says that a working
execution is unfinished, and no longer claimed. Together they give
`AdmittedOnce`, `HandlesAreRecorded`, `ClaimsAreOwned` and `WorkflowsAreVisible`.
`AdmitsOneExecution` is the refinement of `OneExecution`, action by action, from
those invariants and `Fresh` (a request not yet taken up asks for nothing).
`NobodyWaitsInVain` proves that no waits are chained: who waits for a claim does so
on a request of its own process that is done or itself at work on the run.

*RunStreamProofs.* The committed events are exactly `1..N`, where `N` is the row's
counter, less the one number an open transaction may hold. `Served` says of a
client that it has a prefix of them, that what its generator passed is received or
on the page, that one that found nothing new has at most a burst ahead of it, and
that after its final read it has passed the event that ended the run, if a burst fits a
page. Hence `GapFreeLog` and `ClientsHaveNoGap` for any burst, and `CompleteStreams`
for one that does. `StreamIsResumable` is the
refinement of `ResumableStream`. It needs `BroughtHome`, that a stopped client has
everything up to the end it was brought to, because a stopped stream does not run
again while the run may be reopened and end later.

*OutboxRelayProofs.* `Typing`, then `Exclusion` (`EachClaimOnce` is inductive given
the types: a claim is numbered above every attempt counted before it) and
`Delivery` (strengthened by: a relay about to record a delivery did publish that
attempt), for any number of relays. For a relay alone, `SoleRelayNeverSilent` and
`SoleRelayIsFinal`: a row it holds is still as its claim left it
(`HeldIsCurrent`), the claim being recorded has left the batch, and only spent
rows are dead-lettered. `SoleRelayDelivers` is the refinement of `AtLeastOnce`, from
all of these and `DeadIsFailed`: what is held is open, so a publication is of the
latest try and a conclusion is the first. `OnlyHoldersUnsettle` looks at each action
of any number of relays: claiming and sweeping leave settled rows alone
(`ClaimRow`), and a late answer (`FinalizeRow`) can change one only by a relay that
still holds it; `CeilingStep` adds that the dead letter it may cost never gives the
row an attempt back.

*ToolInvocationProofs.* `Fits` says what a call knows of the row: one that ran owns
it, and until that call ends only an expired lease can have settled it; an
answer is the row's outcome. `RowStep` says what any step may do to the row: a new
lease, take a free key, settle it once. The safety theorems follow, and
`OutcomesAreFinal`, and `KeyIsIdempotent`: initial states and steps of
`ToolInvocation` map to those of `IdempotentCall`.

*ToolFanoutProofs.* `RefusesOnEvidence` is inductive given the types
(`BreakerGoesByEvidence`). A fan-out is then shown to be a behaviour of the
breaker's own specification (`FanoutUsesBreaker`), step by step, so it inherits the
invariant. `CallsOfRun` (a call under way belongs to an active worker, and
between runs none is active) gives `RunsLeaveNothing`; `FailureStopsAdmission` is an
action property. `FanoutUsesRunner` shows the same of the runner: the fan-out is a
behaviour of its own specification. What the runner promises rests on counting.
Admission takes the first few of the queue, so lemmas say how many the first `k`
elements of a finite set of numbers are and that they precede the rest, and
`RunnerInv` then carries the bound, the order of the queue (`InOrder`), what the
runner waits for (`Waiting`) and that a run which returned has every result. From it
follow `FanoutIsTyped`, `ResultsAreComplete`, `CapacityIsUsed` (no capacity idle
beside queued work) and `AdmittedInOrder`; `ResultsAreFinal` is an action property.

*AdaptiveRoutingProofs.* An outcome has a marker exactly when the stored state
counts it, and the marker of one that was learned is at most the skew older than the
outcome's own date (`Counted`), since a delivery judged eligible names an outcome dated
no further ahead (`Good`). So when the marker has expired the outcome is outdated, for
any wait before the write and any dates: `RelearnedOnlyIfOutdated`. What was loaded is the stored state or an earlier revision of
it, which is why the compare-and-set loses nothing. `RouterLockExcludes` proves that
two deliveries of one process are never both between their load and their write,
whatever is cancelled or backs off. `RoutersLearnSerially` is the refinement of
`SerialLearning`: an accepted write adds one outcome to the revision it loaded, which
is the one stored, and every other step leaves the state as it is.

*RoutingBreakerProofs.* Types bound the trials; `OpenIsHeld` and `OpensByEvidence` are
action properties, the second from `Earned`: a closed breaker has counted no more
failures than routings have failed since one succeeded. `OpensOnlyOnOverlap` counts
on: an admission clears the failures, so those counted and the routings still out
are together never more than there are (`Overlapping`).

Only model-checked: liveness under fairness (`WithheldIsPublished`,
`EveryRequestAnswered`, `EventsArrive`, `StreamEnds`, `EveryRowSettles`, `RunEnds`,
`TrialConcludes`, `OpenIsTried`), which TLAPS does not reach. Every other property of
a passing run is stated by a theorem. The three violated properties are counterexamples
and stay with TLC. The proofs, like the runs, are about the models; that the models
are the code is argued by the map in `PROJECT.json`.

## What is left out, and why

Of the modelled components:

- Payloads, reports, claims, redaction, prompts, grants and policy decisions: no
  modelled guard depends on their content. A decision that denies a tool call
  returns before it touches the key.
- `resume_execution`: it starts a second workflow by design, behind a checkpoint
  store the service leaves optional.
- Memory-only mode (no session factory): there is no durable record to disagree
  with.
- `ToolInvocation` treats equal requests; the comparison that rejects a key reused
  for another request is data. The in-memory audit stores share nothing.
- Clocks are monotonic and shared, except that outcomes may be dated ahead of the
  routers' clock. Processes with skewed clocks would see leases expire early or
  late; the code makes no provision for that either.
- `AdaptiveRouting` counts outcomes: reward arithmetic, baselines and proposals are
  numeric, and corrupt or incompatible states are refused before anything is
  applied.
- The duplicate web-socket progress broadcast, which nothing durable depends on,
  and statistics such as `concurrent_executions`, which is raised once per run and
  lowered at the end of every attempt (`direct_execution_service.py:2501`) and so
  drifts, but guards nothing.

Not modelled at all: TalkHier sessions and supervisor coordination (in-memory
rounds over model output); the Gemini rate limiter (one process, sequential per
call); planning and prompting of agents and supervisors, beyond their fan-out;
memory and learning, routing strategies, experimentation statistics, evidence and
claims checks, report services, exporters and parsers (sequential data
processing); MCP, web sockets other than the run stream, routes, authentication,
middleware, migrations, CLI and the web client (I/O, policy and presentation).
They are most of the repository's lines and little of its state.

## Next steps

Proofs first:

1. What the stream and the relay promise together: `ResumableStream` and
   `AtLeastOnce` speak of the same committed events, once from the log and once from
   the outbox.
2. The part of each liveness property that is safety: for every state in which
   something is owed, that a helpful step is possible, as `NobodyWaitsInVain` and
   `CapacityIsUsed` already say for waiters and for the runner.

Then models:

3. The rounds of a TalkHier session against a close that overlaps them, and the
   window bound of the rate limiter's token bucket.
4. `ToolInvocation` composed with `CircuitBreaker`: a reply from the row against a
   trial slot held, which would join the two halves of `invoke`.
5. `RunAdmission` composed with `RunExecution`: cleanup and restart against a run
   whose outcome is parked.
6. `resume_execution`, with its checkpoints, as a second workflow of a run.

# A TLA+ specification of vpp-backend

vpp-backend is a virtual power plant platform in Go: eight services that talk
over gRPC and Kafka and keep their state in PostgreSQL, Redis, InfluxDB and
TimescaleDB.  This directory specifies the control path, from the evaluation of
a policy over a stored plan to a command at a device, the cache of bindings that
translates commands and readings, the ingest of telemetry and of alarms, and
the import jobs and the tree of nodes of the resource catalog.  It model-checks
them with TLC and proves the safety properties that hold with TLAPS.  The parts that
are left are listed in section 5.

To repeat the results, in this directory: `tlc -config X.cfg M` for a
configuration `M*.cfg` of the MC module `M`, `tlapm M.tla` for the eight `_proofs`
modules.  `PROJECT.json` lists runs, mutants, hazards and theorems and maps
every definition to the source lines it stands for.

## 1. The system

| Component | State | Operations | Interacts with | What makes it correct |
|---|---|---|---|---|
| `decision` cycle | policies, scopes in a cache, plans, cooldown rows | evaluate a policy, collect context, allocate, plan, save | resource and telemetry by RPC; the outbox by its tables | plans rest on current rules and scopes; one plan per policy direction and window; fair shares |
| `decision` plan outbox | outbox row, execution rows, plan, step | claim, check the catalog, SubmitTask, Mark* | dispatch by RPC, several worker processes | at most one task per plan, one owner per claim, records agree, every plan settles while its scope exists |
| `dispatch` aggregate | a tree: task, actions, commands | results, timeouts, cancellation | called by every handler | coherent statuses, order, bounded retries, nothing forgotten |
| `dispatch` handlers | the tree's rows, Kafka offset | SubmitTask, result consumer, timeout scanner, CancelTask | gateway by RPC and Kafka | what the rows say happened at the devices; tasks finish |
| `gateway` commands, readings | device mappings | ExecuteCommand, ReceiveTelemetry | device system, telemetry, Kafka | a command reaches the right device, and is reported |
| `gateway` bindings | cache of bindings with epochs | load, invalidate | resource by RPC and Kafka | no binding older than an invalidation is served |
| `alarm` | alarms, dedup rows, two Kafka offsets | ingest, ack, close | telemetry and dispatch events by Kafka, operators by HTTP | one open alarm per fingerprint; each event counted once; decisions on what was seen |
| `telemetry` | records, snapshots | ingest, query | gateway; SOE events to alarm | the events tell the state; stored before shown |
| `forecast` | history, latest cache | forecast cycle | telemetry | cache and history agree |
| `resource` jobs | jobs, created resources | submit, claim, execute, compensate, retry | one worker per replica | each job done once, or undone |
| `resource` nodes | rows with parent, path and depth; points | CRUD, move, delete, resolve scope | events to gateway, scopes to decision | path and parent agree; revisions change with content |
| `platform` | authorization rules, breakers | check, sync, replace, register | all services | stale rules are refused; a failing dependency is shut off |
| `simulator` | devices | tick, execute, faults | gateway | a stand-in for the field |

The hard part is concurrency over shared rows.  Dispatch has one goroutine per
gRPC request, one for the Kafka consumer and one for the scanner; they load
whole task trees, change them in memory and write them back row by row, with
no transaction around it, no lock and no version column.  The gateway
publishes the result of a command before the RPC that carried it returns, so
the callback races with the caller's own write.  Decision has no leader:
workers compete for outbox rows and call Dispatch over RPCs whose answers may
be lost, and cycles compete for cooldown rows.  Telemetry reads a snapshot from
Redis, changes it and writes it back; import workers and clients overwrite whole
job rows; moves in the resource tree read what they do not lock.  Alarm is
built with more care, with deduplication, single statements and versions, and
there the question is whether these hold together.  `PROJECT.json` lists each hazard with its line and the property that
covers it, or says that no module covers it yet.

## 2. The modules

```
TaskContract <--implements-- DispatchTask --EXTENDS--> DispatchTree <--EXTENDS-- DispatchService <--EXTENDS-- DispatchRetries
PlanContract <--implements-- PlanOutbox
Allocation <--EXTENDS-- DecisionCycle
BindingCache      AlarmCenter      TelemetryIngest      ImportJobs      ResourceTree
```

For each module `M` that is run, `MCM` holds the values of its constants; for
`DispatchTask`, `DispatchService`, `PlanOutbox`, `BindingCache`, `DecisionCycle`,
`ImportJobs` and `ResourceTree`, `M_proofs` holds theorems, and
`Monitoring_proofs` holds those about `AlarmCenter` and `TelemetryIngest`.

**DispatchTree** is the aggregate: the status tables of a task, and one
operator for each transition method and for each entry point of `Dispatcher`.
`OnCommandResult` is `OnSuccess` and `OnFailure`, `OnCommandTimeout` is
`OnTimeout`, `Cancel` is `Cancelled`.  Each maps a tree to an *outcome*, as
the Go code returns a `CommandResultOutcome`: the changed tree, the
commands to send next, or an error.  Actions are named by their rank in
`Sequence` order (the validator requires the numbers to be unique), commands by
numbers whose order is the slice order.  The shape of the task is a set of
constants, so everything holds for any number of actions and commands, either
policy and any retry budget.  The transient status `timeout` is never stored:
`OnCommandTimeout` leaves it before it returns.

**DispatchTask** is one task whose handlers run one after the other: start,
the gateway's answer to one queued command, success, failure, timeout,
cancellation.  `queue` is what the Dispatcher handed out and nobody has sent;
`sent` is history.  It implements **TaskContract**, which says only what a task
promises: order between actions, order inside sequential ones, completion by
the last success and by nothing else, finished tasks never change.

**DispatchService** is the service as it runs.  Four handlers (submit, consumer,
scanner, cancel) work on the same rows `db`, each with its own tree `mem[h]`,
rows still to write `writes[h]` and commands still to send `todo[h]`.  A step is
one access to something shared and the computation that follows it in memory:

| Action | Code |
|---|---|
| `Submit` | `SubmitTask` after `Save`, `startTaskAndFirstAction` |
| `Consume` | fetch a message, load the tree, `HandleCommandResult` |
| `Scan` | `handleExpired`: load the tree, `OnCommandTimeout` |
| `CancelTask` | load the tree, `Dispatcher.Cancel` |
| `WriteRow` | the next `UPDATE` of `persistOutcome`, or the terminal event |
| `Call` | one round of `dispatchCommands`: `ExecuteCommand` at the gateway and what `dispatchOne` does in memory with the answer |
| `Finish`, `Abandon` | the handler returns; with an error after a failed write |
| `Crash` | the process dies; it restarts with empty memory at the committed offset |

`Call` contains the gateway's side: the device gets the command, the event is
appended to the topic, and only later does `WriteRow` store `sending`; so the
consumer can overtake.  `topic` holds the uncommitted messages only.
`executed[c]` counts 0, 1, "2 or more", which is all the properties ask.
`givenUp` is history: the commands that some handler has marked failed or
cancelled in its copy.  A command is *settled* once the device has executed it or
a handler has given it up.  The
branch for `GatewayCompleted` is left out because the gRPC adapter, the only
one, never returns it (`gateway_grpc/client.go:84-118`).

**DispatchRetries** is DispatchService with one history variable: how often the
scanner has retried a command.  The stored counter cannot tell, because stale copies
overwrite it.

**PlanOutbox** is the outbox of Decision: reading a due row and claiming it by
compare-and-swap are separate steps, then the catalog check, the call (request
and answer travel separately, and a timed-out call may still arrive), and the
Mark transaction fenced by the lease token.  The catalog check (`CatalogMatches`,
`CatalogChanged`, `ScopeGone`, `CatalogError`) is `ResolveScope` and the comparison
after it: `DeleteScope` is Resource deleting the root of the plan's scope, after
which every check ends in `ErrScopeNotFound` (`scope_repository.go:45-46`), which the
loop takes for a failure that may pass.  Time is two flags, "due" and
"lease alive".  The lease test in `finish` compares `lease_until` with the very
`now` the lease was computed from, so it cannot fail, and is left out.
`Refuse` may also happen after Dispatch stored the task: `toGRPCError` reads
some internal errors as `InvalidArgument`, which `uncertainDispatch` calls
definite.  It implements **PlanContract**: at most one Dispatch task
per plan, one settlement, and "submitted" only with a task.

**BindingCache** is the gateway's cache of point bindings.  A snapshot is the
revision of a CU's bindings and the time Resource read it.  `Load` is cut at
each access to the cache or to Resource, so another caller or the event
consumer may act in between:

| Action | Code (`cache.go` unless named) |
|---|---|
| `LookUp`, `Ask` | `lookup` with TTL, and `generations` before each attempt |
| `ListCUBindings`, `ListFails` | Resource reads; the answer fails or is lost: fallback or error |
| `Store` | `store`; if an invalidation came first, another attempt or an error |
| `Take` | the caller goes on with its answer |
| `Change` | Resource changes a point |
| `InvalidateCU`, `InvalidateTenant`, `InvalidatePoint` | the consumer's handlers of `lifecycle_consumer.go` and the cache's side of them |
| `Tick` | time passes |

Events may be late, repeated or lost: nothing makes an invalidation follow a
change.  `handled[k]` is history, the last revision whose event was handled
and named the CU or its tenant.  A point event without a CU id asks for
nothing in `handled`: Resource puts the CU into every event about a point of
one.  One gateway process is modelled, as deployed (`replicas: 1`); a second
replica in the same consumer group would not see the first one's events.

**Allocation** is `HeuristicAllocator` as pure operators: the limit of a unit
within its envelope, its headroom, the rounds of `distribute` that fill the
units whose limit is below their share, the move of a setpoint into its
envelope, feasibility.  Shares are exact fractions over one denominator instead
of float64 with a tolerance of 1e-6, so rounding is not checked.  Beside them
stands a reference without rounds, `IsFairSplit` and `IsFairResult`.

**DecisionCycle** is the cycle of one policy over one scope, in replicas that
share the database and have a cache of scopes each:

| Action | Code |
|---|---|
| `ListEnabled`, `ReadRule` | the two queries of `policy_repository.go`: policy rows, then spec rows |
| `Fresh`, `Unavailable` | the resolver: Resource answers, or fails and an old scope from the cache may do |
| `Unusable`, `Evaluate` | telemetry is missing or bad; or any good samples go through evaluation, `CoolingDown`, objective and allocation |
| `SaveRejected`, `Take`, `ClaimRow`, `Commit`, `Fail` | `Save`: a rejected plan is stored as it is, a ready one reads, inserts or updates the cooldown row in the same transaction, with three attempts |
| `Crash` | a replica dies and the database rolls back |
| `Edit` | Update, Enable, Disable and Delete of the policy commands |
| `ChangeCatalog`, `Tick` | Resource changes; time passes |

`cooldown` is the row of each direction, and `replaced` is history: when a
revision of the catalog ceased to be the current one.

**AlarmCenter** has two consumers, for SOE events and dispatch events, and
operators' requests over the tables `alarms` and `alarm_event_dedup`:

| Action | Code |
|---|---|
| `Fetch`, `Commit` | one message through `runReader`; a commit may fail, the next message is fetched anyway |
| `Skip`, `Ingest` | nothing to file; the ingest statement: dedup row first, the alarm only from a new dedup row |
| `Transient`, `GiveUp` | a failure before or after the statement took effect: the same message again; any other error counts as poison |
| `Look`, `Update`, `UpdateNothing`, `Explain` | Acknowledge and Close: read, guarded `UPDATE`, and a second read that names the reason when no row matched |
| `Crash` | memory is lost, offsets and tables stay |

`countedIn` is history: the alarm in which an event was counted.  Of a row,
`lastEvent` is the event in `last_event_id`, `title` and `summary`, which every
merge overwrites; `attributes` and `last` are what the statement guards by
`occurred_at`.

**TelemetryIngest** is the ingest for one control unit by concurrent requests:
`Receive`, `Store` or `StoreFails` (TimescaleDB, which may also have committed),
`Find` (the snapshot in Redis; a failed read gives an empty one), `Save` or
`SaveFails`, then one `Publish` or `PublishFails` per event, `ServerCrash`, and
`Expire` of the snapshot's key.  `Apply` is `Snapshot.Apply` with the detection
of stale, faulty, recovered and changed metrics as a fold over the samples of a
record, one `Absorb` each.  `disturbed` is history: the metrics whose events
cannot tell their state any more, because a write or an event was lost,
overwritten or overtaken.  At the end of the module stands the strengthening of
its two invariants that section 4 explains.

**ImportJobs** is the table of import jobs, its workers and the clients of
RetryJob:

| Action | Code |
|---|---|
| `Claim` | `ClaimPendingJob`: the oldest pending job, or one that has run longer than `stuckJobTimeout` |
| `CreateChunk`, `ChunkFails`, `ChunkAnswerLost` | one transaction per chunk |
| `Report` | the whole row is saved as progress |
| `Compensate`, `CompensateFails`, `Fail` | created resources are deleted and the failure is saved |
| `Complete`, `CompleteFails` | the result is saved, or that write fails |
| `ReadForRetry`, `Retry`, `RetryFails` | a client's read and its write of the whole row |
| `Crash`, `Tick` | a worker dies; running jobs grow older |

Every service is deployed with one replica; a rolling update or a scaled
deployment has two workers, which the claim (`FOR UPDATE SKIP LOCKED`) is
written for.  `faults[j]` is history: what went wrong with a job besides a
failing chunk, such as "overtaken", a copy of the row written over a later one.

**ResourceTree** is the table `nodes` with Create, Move, SoftDelete and
SoftDeleteSubtree.  A step is one SQL statement of a transaction at READ
COMMITTED: its writes are seen by others when it commits, its rows stay locked
until then.

| Action | Code (`node_repository.go`) |
|---|---|
| `BeginCreate`, `BeginMove`, `BeginDelete`, `BeginDeleteSubtree` | a request starts; the deletions read the root |
| `LockNode`, `LockNotFound` | `FOR UPDATE` on the moved row |
| `ReadParent`, `ParentRefused` | the new parent's path, without a lock; a parent below the node is refused |
| `Select`, `WriteRow`, `RowGone` | the descendants by `LIKE`, and their updates one by one |
| `Insert`, `FinishMove`, `FinishDelete`, `Fail` | the last statement and the commit, or a rollback |

`raced` is history: some commit changed a row that another open transaction had
read and rested on.

## 3. What is checked

| Run | Instance | Shows |
|---|---|---|
| `dispatch_task` | 3 actions: a parallel pair, a sequential pair, one command; budgets 1 and 2 | three layers of status agree, nothing is forgotten, retries are bounded, TaskContract holds, the task ends |
| `service_chain` | 3 actions of one command; rejections, lost answers, one crash | a completed task has only settled commands, device order; the stored task finishes when nothing was cut short |
| `service_cancel` | 1 command, concurrent CancelTask, every communication fault, failing row updates | the stored task settles although rows are overwritten |
| `service_parallel` | 2 parallel commands, lost events | lost updates neither complete early nor leave the task running |
| `plan_outbox` | 2 workers, 1 plan, 4 faults, the scope may be deleted | records agree, one owner, PlanContract, every plan settles unless its scope is deleted |
| `binding_cache` | 1 CU, 2 callers, 2 revisions, 2 invalidations of each kind, clock to 6 with TTL 1, MaxAge 2, Timeout 1 | nothing older than a handled event is kept or returned; nothing older than the age limits, with or without events |
| `alarm_center` | 2 SOE events of one fingerprint, newest first and one of them twice; or a poison message beside a failed task; 2 clients, 1 message given up, 1 crash | each event is counted once, in one open alarm; nothing is passed unseen; late events do not turn back its time and attributes; decisions rest on what was seen and answers are true; every event is filed in the end |
| `decision_cycle` | 2 replicas, 2 units, 2 catalog revisions, cooldown 2, TTL 1, MaxAge 2, clock to 3, 3 policy versions | windows of one direction never overlap; a plan rests on limits and a scope that are current enough; every allocation over the listed units and samples is fair |
| `telemetry_ingest` | 2 requests at a time, 4 in all, a discrete and an analog metric, records at three times | who follows the events knows the state of every metric that was not disturbed; nothing good is shown or told before it is stored |
| `import_jobs` | 2 workers, 2 clients, 1 job of 2 chunks, 2 attempts, 3 claims | success is real, failures leave nothing behind, attempts are counted, every job is decided |
| `resource_tree` | 4 nodes, 2 transactions, 2 moves or deletions, any creations | depth is the length of the path; scopes are the descendants, and a deleted subtree is gone, as long as no commit raced with another transaction |

Every property of these runs has a mutant in `PROJECT.json`: a small
plausible bug in one definition that makes TLC find it violated.

One run checks a sentence of the repository that the code does not keep:
`service_unexecuted`.  `dispatcher.go:152` calls Cancel "safe to call
concurrently with an in-flight command's callback"; TLC finds a callback that
loads a half-written cancellation (commands first, the task last) and completes
a task with a command that never ran.

Six more sentences do not hold either.  They are stated in the modules, each with a
configuration that ends in a counterexample (`tlc -config X.cfg M` as above).  These
configurations are kept for reading the counterexample and are not among the runs:

| Property, configuration | Sentence | What TLC finds |
|---|---|---|
| `LastDoesNotRegress`, `MCAlarmCenter_late.cfg` | for an older event that comes late, `last_*` does not go back (`alarm/README.md:151`) | it does in `last_event_id`, `title` and `summary` (`sql.go:26-28`) |
| `RetriesWithinLimit`, `MCDispatchRetries.cfg` | `MaxRetries` is the "max number of timeout retries" (`control_command.go:36`) | no fault is needed: the consumer sends the second command of a parallel action from a copy older than the scanner's retry of it; its row gets the old counter back (`dispatch_helper.go:171`) and the scanner retries once more |
| `StaleIsUndispatched`, `MCPlanOutbox_stale.cfg` | stale is a change of the catalog "before Dispatch" (`execution.go:20`), a stale plan is not dispatched (`plan_repository_test.go:257`) | SubmitTask times out although the task is stored; the catalog changes; the next attempt calls the plan stale |
| `OneWorkerPerJob`, `MCImportJobs_overtaken.cfg` | `SKIP LOCKED` "prevents two pods from running the same job" (`import_worker.go:19-20`) | a worker slower than `stuckJobTimeout` is joined by a second one |
| `ScopesIncludeDescendants`, `MCResourceTree_scopes.cfg` | scopes "include every descendant CU" (`scope_repo.go:12-13`) | a node is created below a parent that moves between its read and the insert |
| `SubtreeDeletedWhole`, `MCResourceTree_subtree.cfg` | SoftDeleteSubtree deletes the whole subtree (`port/node_repository.go:42`) | a node is created below it between the statement's start and its commit |

**Bounds.** *Dispatch:* one task, because handlers of different tasks share
nothing but the offset; one to three commands in the service.  Three are the
shortest plan in which the scanner, with an old copy, still gives up a command
while the consumer has gone on to the one after next, so that completion is not
execution even without cancellation (section 5); two parallel ones are a
callback that overwrites the other's.  The theorems of section 4 cover every
shape of task with every choice of faults, and so what no run here combines: a
cancellation of a chain, or failing updates with crashes.  `MaxRetries` is 1 or 2: a task stored by SubmitTask never has
0, since `app.go` replaces a missing default by 3 and a request's 0 by that
default, and one retry already reaches both sides of the boundary.
`MaxCrashes = 1`: a crash erases all memory, so a second one starts from a state
of the same kind.  CancelTask is called at most once.  That the task
finishes is checked on these shapes only.

*PlanOutbox:* `MaxFaults = 4` allows, for example, a timeout, a slow worker, a
crash and another timeout on one plan, hence five attempts.  `MaxAttempts = 6`
ends the endless attempts at a plan whose scope is deleted, one behind those five;
it limits no other plan.

*BindingCache:* one CU is enough for TLC, since entries and epochs of different
CUs meet only in a tenant's invalidation, whose interesting case, a CU without
a copy, one CU shows as well; the proof covers any number.  Two invalidations
make a call lose both attempts.  The clock reaches 6 because the longest lag a
fallback may have is MaxAge + 3 Timeout = 5.  Time stands still while Load only
computes, and a listing ends within `Timeout`; both are assumptions on the
scheduler and the client's timeout (per page, so `Timeout` stands for the whole
listing).  The age bounds depend on them, the currency of answers does not.

*AlarmCenter:* two events of one fingerprint are enough to merge, to merge late,
and to open a second alarm after a close; a third delivery shows deduplication.
Two clients lose against each other and against the consumer.

*DecisionCycle:* the clock goes one tick past the end of a cooldown, so a second
window begins; three versions are a torn read of policy and spec, and one more
edit.  The allocation is checked for every pair of units and samples in
`MCDecisionCycle`, among them units without a limit, with an envelope that
forbids a direction, and with a least setpoint.

*TelemetryIngest:* the first and the last time are a gap apart (`StaleAge` 1);
four requests are two that interfere and two that set things right again.

*ImportJobs:* two chunks are one that is committed before another fails.  Three
claims are one more than the attempts, which a stale copy may reset.

*ResourceTree:* four nodes are a parent, a moved node, its child and a second
parent.  Two requests suffice for every race of a move or deletion with another or with
creations; the same run with three requests (1,205,235 states) passes too.

**Fairness.** In DispatchService the started handlers, the consumer's poll and
the scanner's tick are weakly fair: each is a goroutine that loops for the life
of the process (`dispatch/server.go:237-275`), and RPC clients have timeouts.
Deadlines pass, so `Scan` is fair for each command in flight.  CancelTask,
crashes and faults are not fair.  Liveness is claimed only without crashes and
failed writes: after those a task may stay as it is for ever, because nothing
resumes SubmitTask and the scanner sees only commands in `sending`.  In
PlanOutbox each worker's next step is fair (tickers), as are lease expiry, due
times and the delivery of a request; the faults are bounded instead, including
leases that run out under a living worker, or attempts might fail for ever.
Deleting a scope is no fault and not fair: it may happen at any time, and
`EventuallySettled` excuses the plans of a deleted scope only.
In AlarmCenter the steps of the consumers' loops are weakly fair, and `Ingest`
strongly: the loop repeats a message until the statement succeeds, and a
database that keeps being asked answers in the end.  In ImportJobs the clock and
each worker's next step are weakly fair: workers poll on a ticker, and a step
includes its own failure.  DecisionCycle, TelemetryIngest, ResourceTree and
BindingCache claim safety only and assume no fairness.

**Deadlock** checking is off in all runs: a finished task, a settled plan, a log
read to its end, the bounds on requests and the end of the bounded clock are
where the models stop.

## 4. What is proved

`DispatchTask_proofs`, for every task shape that satisfies `ShapeAssumption`
(at least one action, finitely many commands, each action with one):

- `TypeCorrect`;
- `TaskCoherent`, `ActionCoherent`, `NeverForgotten`, `RetryBudget`: the
  invariants of run `dispatch_task`;
- `Refinement`: DispatchTask implements TaskContract.

The four invariants are not inductive by themselves.  `IInv` adds that actions
start in order (else `NextPendingAction` could start one behind a failed one),
that the commands of a sequential action are handed out in order (needed for
`Before(c) \subseteq succeeded` in the contract), and that whatever is in
flight or succeeded was sent.  The proof first says what each operator on
trees returns (`BrokenFields`, `AdvancedFields`, ...), then shows that each of
the few ways a tree can change preserves `IInv` (`BreakStep`, `CancelStep`,
`RetryStep`, `CompleteStep`, `NextActionStep`, ...), and maps every action
to one of those.  The well-foundedness of < on the naturals gives the first
pending action and command.

`DispatchService_proofs`, for every task shape, every set of faults and any number
of crashes: `TypeCorrect`; `CompletedIsSettled` and `PlanOrder`,
the invariants of the passing service runs; `OneActionRuns`: the rows never show
two running actions.  The rows are overwritten from copies of any
age, so nothing can rest on a copy being current.  The argument is that a command
never ceases to be settled: what a copy says of executed and given-up commands
was true when it was read and stays true (`TreeTells`, of `db` and of every
`mem[h]` alike).  A completed action, read in whichever copy, therefore has only
settled commands, and an action that was started has only settled ones before
it.  `IInv` adds the order of the rows that a handler has still to write
(the end of one action before the start of the next), that nobody else is at work
before `SubmitTask` has stored the start, and the order of the commands a handler
has still to send.

`PlanOutbox_proofs`, for any sets of workers and plans and any `MaxFaults`:
`TypeCorrect`; `RecordsCoherent` and `SingleOwner`, the invariants of run
`plan_outbox`; `Refinement`: PlanOutbox implements PlanContract.  `IInv` adds
that a worker's token was handed out by the row it names, which gives a fresh
token at each claim, and that an answer implies a stored task.

`BindingCache_proofs`, for any CUs, tenants, callers, TTL, MaxAge and Timeout
(`NewCache` refuses MaxAge < TTL): `TypeCorrect` and `CopiesCurrent`, the
invariants of run `binding_cache`; `AnswersCurrent` and `AnswersInTime`, its
action properties.  `IInv` adds the reason why epochs work: a listing in flight
whose two generations are still the current ones shows every change handled so
far.  Every invalidation that handles a change either moves the CU's generation
or that of its tenant on (`InvalidateStep`), generations never go back, and
Resource answers with a revision no older than what was handled.  For the ages
it adds how much time each attempt may have taken.  The action properties
follow from the three ways a caller can get an answer (`WaysToAnswer`).

`Monitoring_proofs` is about the alarm service and about the ingest whose events
it consumes.  *AlarmCenter*, for any finite set of events, any logs, clients,
fingerprints and occurrence times, and any number of crashes and failures:
`EachCountedOnce`, `OneOpen`, `NothingLost`, `NewestAttributes`, `AnswersHold`, and the
action property `SeenBeforeDecided`: all safety properties of run
`alarm_center`.  It assumes that fingerprints of dispatch events do not collide
(`DispatchFingerprints`): they hash the event id.  `IInv` adds to the tables
that the count, the attributes' event and the version of an alarm go together, to a
request what it knows of the row it has read (`Knows`: an unchanged version
means an unchanged row), and to a consumer that what it has passed is
filed or was given up.

*TelemetryIngest*, in the same module, for any
handlers, metrics, values, records and `StaleAge`, any number of requests, and
with every failure, crash and expiry of the model: `EventsFollowTheState` and
`WhatIsToldWasStored`, the invariants of run `telemetry_ingest`.  They assume
`TelemetryAssumption`, which the run evaluates.
Two things had to be found.  The first is what `Apply` does to a record of any
length (`ApplyTells`): it is a fold over the samples, that is, a function on
the sets of places in the record defined by its own values.  Such a function
exists, and whatever holds at the start and is kept by `Absorb` holds of the
result (`FoldExists`, `ApplyKeeps`), each time since a least counterexample would
follow from a smaller one.  One sample gives no event, one, or the gap and one
more (`TransitionShape`), and a sample without events leaves true what was
told (`TransitionTells`).  The second is the strengthening, `TelemetryIInv`: what a
handler carries was stored (`WorkIsStored`); its events are those of its record
until it begins to publish, and the last one of each metric tells the state it
has computed (`EventsOfRecord`); and as long as a metric is undisturbed, whoever
still has an event of it to publish has written its state
(`PublishersWroteLast`), which is why a late event of an earlier request cannot
be the last one unnoticed.  TLC agrees with each part on the instance of
`telemetry_ingest`.  The proof puts `TelemetryIInv` together by handler and by metric
(`WholeIsIInv`) and has a lemma for each action.

`DecisionCycle_proofs`, for any replicas, units, rules, catalogs and cooldowns:
`WindowsAreClaimedOnce`, `EvaluationIsCurrent` and `AllocationsAreFair`, the
invariants of run `decision_cycle`.  `IInv` adds that the two rows
of a policy are written together, that a cached scope was stored at a time when
its revision was the current one, and that a claim in progress starts behind a
window that is over and updates the row it has read.  One lemma covers the steps
of a replica.
The allocation is proved fair for any number of units with any energy, limits and
states of charge, from `AllocationAssumption`: a scope is finite, an envelope has
at most one bound on either side, and the powers of a policy are positive
(`positivePower`, `policy.go:210`).  The argument is about one round
(`RoundFills`): the units it fills would take less than their share of the power,
so for those left the power per weight only rises (`RateRises`), and the units
filled before stay below it; the power that remains is positive.  A round that
fills none is the last, and there are at most as many others as units
(`LastIsLast`).  `SplitIsFair` follows, and `ResultIsFair` says that the envelope
keeps a whole setpoint or nothing (`ShareIsWhole`), which makes the feasibility
right.  Sums are over finite sets; what is needed of them (`TotalOfBoth`,
`TotalAtMost`, ...) and of the rounds is proved by taking the least counterexample,
as < on the naturals is well-founded.

`ImportJobs_proofs`, for any workers, clients, jobs and chunks: `ResultsAreReal`,
`FailuresAreUndone` and `AttemptsAreCounted`, the invariants of run `import_jobs`.
`IInv` adds what a worker has made and not yet reported, that two workers at one
job are at different runs of it, and that without a stale write there is one
worker at most and its copy is the row.

`ResourceTree_proofs`, for any finite set of nodes and any transactions and
requests: `DepthsAreLengths`, and `MovedNodeStays`: while a move is at work, the row
it has locked keeps its place, and no other transaction
writes what it has written.  `IInv` adds that everything read or about to be written
has a depth that fits its path, and that two transactions never hold the same
row, which is what keeps the shift by a difference of depths right.
`ScopesByPathAreByParent` and `SubtreesGoWhole` are the other two properties of run
`resource_tree`, and `NoCycles` says that no node is below itself; all three as long
as no commit raced with another transaction.  They rest on `Unraced`, which TLC
has checked with 3 and 4 nodes: every live row's path is `Traced`, that is, leads
from a node without a parent down to it, and every transaction is `Current`, that
is, what it read is still so and it has found all it has to write.  A node has only
one way up (`SameWayUp`), so no path has a node twice, paths are no longer than
there are nodes, and the steps that `Ancestors` takes reach the top
(`AncestorsAreOnPath`); a moved node is not on the path of its new parent, nor on
those of nodes that the move did not write.

All invariants and action properties that a passing run checks are
proved.  Only model-checked: `EventuallyFinished`, `EventuallySettled`,
`EventuallyFiled` and `EventuallyDecided`, since liveness under fairness is
beyond the prover.

## 5. What the models leave out, and what they show

### Where a promise depends on a condition

Some properties exclude a history (`interrupted`, `overtaken`, `disturbed`,
`raced`) or promise less than the text of the repository suggests.  The
behaviours of the code behind this, which a reader should know:

- *Dispatch.*  A completed task may have commands that never ran, even without
  CancelTask and without faults: the scanner breaks a task whose first command
  is out of retries (`scan_timeouts.go:97`) and stores the cancelled commands row
  by row (`dispatch_helper.go:53`), while the consumer handles a late success of
  that command, goes on through the plan with its own copy and completes the task
  over rows that the scanner cancelled.  `internal/dispatch/README.md:134` and
  `:144` give completion and the circuit break as alternatives.  What does hold is
  that such a command was given up by some handler (`CompletedMeansSettled`).
  Two handlers may send one parallel command (`dispatcher.go:194-199`);
  the "Gateway-side idempotency" of `control_command.go:14` does not exist
  (`execute_command.go:131` executes again).  The commit of the next message
  passes one whose handling failed (`command_result_consumer.go:31`, `:95`).
  A stale copy also resets the retry counter (`RetriesWithinLimit`).
- *Outbox.*  A plan may become stale although an earlier attempt has reached
  Dispatch (`plan_execution_loop.go:129`, `StaleIsUndispatched`).  A plan whose scope's
  root is deleted is never settled: `ErrScopeNotFound` is permanent, but the loop
  marks every error of `ResolveScope` as uncertain and tries again every
  `retryAfter`, without end (`plan_execution_loop.go:125-127`), even when Dispatch
  already has its task.
- *Bindings.*  A fallback may be older than MaxAge, as `cache.go:15` does not
  expect: its age is measured with the time before the failing list (`:116`).
- *Decision.*  Policy row and spec row are read by two queries
  (`policy_repository.go:185`), so a plan may use later limits than the version it
  names.  Nothing checks at `Save` that the policy is still enabled
  (`plan_repository.go:56`).  A rejected plan makes no claim.
- *Import jobs.*  That a running job is "safe to reclaim" (`job_repo.go:55-56`)
  holds only if the first worker is not just slow (`OneWorkerPerJob`).  A chunk
  that was committed although its answer was lost is in no result, so that
  `NothingLeftBehind` excludes it.  A crash in the middle of an import leaves resources behind:
  assets are then made twice, and points can never be imported again because of
  their unique index.  A job whose worker dies in its last attempt stays running
  for ever, as RetryJob refuses it.  Stale saves of whole rows may reset the
  attempts or undo a success.  `next_retry_at` has no effect: only pending jobs
  are asked for it, and a failed one is never pending by itself.  The context
  cancelled at shutdown is a compensation that fails and a failure that is not
  saved.
- *Telemetry.*  Concurrent ingests of one unit lose updates; a failed read of the
  snapshot drops its other metrics (`ingest_telemetry.go:106-107`); a record out
  of order may replace a newer state (`snapshot.go:5-7`).
- *Resource tree.*  Create reads its parent's path; if the parent moves before
  the insert, the new row has a path that nothing corrects, and
  `scope_repo.go:12-13` does not hold (`ScopesIncludeDescendants`).  If the parent
  is deleted in between, the row stays behind (`SubtreeDeletedWhole`).  Two
  moves cannot make a cycle of two nodes, because the foreign key's lock on the parent conflicts with `FOR
  UPDATE`; three moves can make one of three, although `node_repository.go:83`
  refuses cycles.  SoftDelete leaves children with a deleted parent.
- *Alarm.*  A late event keeps the newer time and attributes but puts its own
  title and summary, with its value, over the newer ones (`sql.go:26-28`,
  `LastDoesNotRegress`).  The notification follows the commit (`ingest_event.go:90`) and is lost
  by a crash in between.  Unknown errors count as poison (`classify.go:67`).

### What is abstracted

TelemetryIngest has one unit, because units share nothing but the Kafka writer.
DecisionCycle has one policy and one scope; the objective's fields, the plan's
window and the loops over tenants are left out, and MarkTriggered and TryTrigger
(`cooldown_store.go`), which have no caller.  AlarmCenter's evaluator is the
choice of `Events` and `Skipped`; the `backfill` CTE cannot see the row inserted
by its own statement and is left out.  ImportJobs takes a chunk's items as one
resource, and nobody else deletes resources.  In ResourceTree, node types,
versions, names and the fallback for empty paths are left out, BatchCreate is
one insert, and lock conflicts are those of PostgreSQL; the victim of a deadlock
is `Fail`.  UpdateTopology has no caller.

### What is not modelled

- *Device mappings, uplink and downlink translation (gateway).*  The lifecycle
  consumer disables only the first active mapping per event, and deleting a
  subtree disables only the root's (known:
  `plans/gateway_cu_lifecycle_sync_04cfd03c.plan.md:61`).  Planned next: the selection rules as pure operators
  and the disablement against ExecuteCommand.
- *Policy synchronisation (platform).*  Staleness tiers, and `RegisterCatalog`
  writing back what it read.  Planned.
- *Forecast.*  One writer and two stores written one after the other: if the
  cache update fails, the previous forecast is served until the next cycle.
- *Resilience wrappers* are settings of gobreaker, whose state machine is not in
  this repository.  The *simulator* is floating point device physics.
- *Configuration, transport adapters, SQL schemas, generated protobuf code* have
  no state of their own; the generated code is a large part of the repository's
  lines.

### The plan

In this order: device mappings with the consumer's offsets; policy
synchronisation; forecast.  A composition of Decision's `KnownKey` and `Deliver` with
DispatchService's `Submit`, so that a crash inside SubmitTask and its idempotent
repetition are one behaviour.

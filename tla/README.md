# Open Mercato in TLA+

Specifications of the parts of Open Mercato whose correctness depends on the order in
which things happen: the job queue (`packages/queue`), the workflow engine, the command bus
with the sales commands it executes, undoes and redoes, the cache of access
control lists over Redis, the query index with its reindex jobs, and the lock of the search
reindex; with model-checked instances and proofs. Paths below are relative to `src/`; `C` stands for
`packages/core/src/modules` and `W` for `C/workflows`.

## 1. Inventory

Open Mercato is a Next.js application made of modules. A web process answers
requests; worker processes started by `packages/cli/src/mercato.ts` run queued jobs.
They share a PostgreSQL database (through MikroORM), Redis or files for queues
and caches, and nothing else. No table has a version column and the code
takes no row locks, so every read-decide-write sequence may interleave with others.

| Component | State | Operations | What is hard | What makes it correct |
|---|---|---|---|---|
| Local queue, `packages/queue/src/strategies/local.ts` | `queue.json`, `state.json`, `isProcessing` | enqueue, process (limited / polling), clear, close | handlers are awaited between reading and writing the file; kill between two writes | no job lost, none resurrected, order, counters |
| Async queue, `.../async.ts` | BullMQ | enqueue, process | redelivery of stalled jobs, concurrency | retries as configured |
| Workflow executor, transitions, steps, `W/lib/{workflow-executor,transition-handler,step-handler}.ts` | `workflow_instances`, `step_instances`, `workflow_events` | start, loop, transition, enter/exit step, complete, fail | each operation is a chain of awaits over stale copies of the row | status, step, history and context agree; final statuses stay |
| Tasks, signals, routes, `W/lib/{task,signal}-handler.ts`, `W/api/instances` | `user_tasks` | claim, complete, signal, advance, cancel, retry | check-then-write, two users at once | one answer per step, data not lost |
| Asynchronous activities, `W/lib/activity-executor.ts`, `W/workers` | queue of jobs, events, pending transition | enqueue, pause, run, resume | jobs finishing before the pause is stored; two workers resuming; redelivery | the transition completes once, after all its activities, with their outputs |
| Compensation, `W/lib/compensation-handler.ts` | status, events | compensate in LIFO order | errors in the middle | every completed activity is undone once |
| Sub-workflows, `W/lib/step-handler.ts:568-704` | a second instance | start child, map outputs | a child that pauses | parent and child end together |
| Command bus, action log, `packages/shared/src/lib/commands/command-bus.ts`, `C/audit_logs` | `action_logs` | execute, undo, redo | snapshots decide what an undo can do; entries undone and redone in any order | an undo reverses its command |
| Sales, `C/sales/commands/{documents,shipments,payments}.ts` | orders, quotes, lines, shipments, payments, allocations | create, update, delete, line and adjustment edits, conversion | fulfilled quantities and totals are stored, not derived, and every command must recompute the right ones | derived columns agree with the rows; no dangling reference |
| Cache, `packages/cache/src/strategies/redis.ts` | entries, one set of keys per tag | get, set, delete, delete by tags | the index and the entries are kept together with several round trips | an entry can be invalidated by each of its tags |
| RBAC, `C/auth/services/rbacService.ts`, ACL routes, user and role commands | users, roles, ACLs; cached answers | loadAcl, change, invalidate | a fill races an invalidation; changes that invalidate nothing | a served answer follows the tables |
| Query index, `C/query_index/lib`, `subscribers` | `entity_indexes`, `entity_index_jobs`, `entity_index_coverage` | upsert, delete, reindex, purge, coverage | events, batches and purges write the same rows; counters are read and written back | the index is what the tables say |
| Reindex lock, `packages/search/.../reindex-lock.ts` | a job row with a heartbeat | acquire, progress, release | check-then-act, stale heartbeats, nobody owns the lock | a lock that is kept up holds others off; none outlives the work |
| Event bus, `packages/events/src/bus.ts` | listeners, a queue | emit, subscribe | delivery in memory and through the queue | persistent events reach every subscriber |
| Document numbers, `C/sales/services` | sequence rows | claim, set | the cap | numbers unique |
| Sessions and passwords, feature toggles | users, tokens, overrides | log in, reset password | tokens used twice | - |
| The other modules (customers, catalog, booking, ...), UI, client, CLI generators | rows | CRUD | little of their own | - |

`PROJECT.json` lists every component with its status, and under `hazards` the lines
where this code is hard to test.

## 2. Modules

    EntityManager          what the code relies on from MikroORM (external)
    LocalQueue             the file-backed queue and the process that polls it
      LocalQueueProofs     theorems about it
    WorkflowActivities     asynchronous activities of transitions
      WorkflowActivitiesProofs  theorems about it
    WorkflowLifecycle      abstract: status and step of an instance
    WorkflowEngine         the engine under concurrent requests
      WorkflowEngineProofs theorems about requests that overlap, and that do not
    SalesShipments         the rows of sales; shipment commands as operators
    SalesPayments          payment commands (extends SalesShipments)
    SalesDocuments         order and quote commands (extends SalesPayments)
    ActionLog              log entries, which one may be undone or redone
    CommandBus             execute, undo, redo: SalesDocuments with ActionLog
      SalesProofs          lemmas: sums, tables, what each change of the rows preserves
      CommandBusProofs     theorems: commands, snapshots, log
    RedisCache             tagged entries in Redis, one action per round trip
    RbacCache              loadAcl and the changes under it, over RedisCache
      RbacCacheProofs      theorems about both
    IndexJobs, Coverage    job rows and the coverage row
    QueryIndex             requests and reindex runs, over IndexJobs and Coverage
      QueryIndexProofs     theorems about all three
    ReindexLock            the lock of the search reindex
      ReindexLockProofs    theorems about it
    MCLocalQueue, MCWorkflowActivities, MCWorkflowEngine, MCCommandBus,
    MCRbacCache, MCQueryIndex
                           instances for TLC; <Component>_<question>.cfg are the runs

### EntityManager
A loaded entity is a private copy of the row, `em.flush()` writes the columns that
differ between the copy as loaded and the copy as changed. The operator
`Flush(row, view, new)` is that; a status write can therefore land beside the step
another request has written, and the JSON column `context` is replaced as a whole.

### LocalQueue
| Variable | Code |
|---|---|
| `queueFile` | the ids in `queue.json`; the array is always in order of creation, so a set of ranks |
| `stateFile` | `state.json` |
| `proc`, `isProcessing` | life of the process and the flag of that name |
| `phase`, `batch` | where `processBatch` is, and its local variables |
| `handled`, `removed`, `cleared`, `stops` | history, for the properties |

Actions are the synchronous segments of the code: `enqueue` and `clear`; the start of a
batch (`processInitial`, `processLimited`, `pollAndProcess`), which is where both files
are read; `HandleJob` per awaited handler; `RemoveProcessed` and `RecordCounts`, the two
file writes, with a possible kill between them; `close`, `ExitAfterClose`, `Crash`.
One process is modelled; the source says the strategy is not for several (local.ts:26).

### WorkflowActivities
A chain of steps in which transition `k` has `Acts[k]` asynchronous activities. Each
worker slot runs one job at a time; slots of one process share an entity manager,
because the CLI creates the request container once per process, and `host`,
chosen in `Init`, says which slots share. Between pausing an instance and taking
its pending transition the code has separate queries for the row, the completed events
and the failed events: one action each; the second read of the events and the query for the definition
(workflow-executor.ts:695, 743) are one action with the flush that follows them. `Crash` kills a whole process and
its jobs are delivered again. The context is reduced to the tracked jobs and the jobs whose
outputs were merged. History: `overtaken` holds the workers whose check, between the query for the row and the decision,
began on a row that another process has changed since, and `raced` is set when such a worker acts on its check. That is
the race of two workers that both resume, which the code does not exclude; `StepsExecutedOnce` and `PausesPending`
say what holds until it happens.

### WorkflowEngine
A definition is a constant: steps with types and a sequence of transitions with trigger,
condition and pre-condition (each a key the context must hold, or none). A request is
a process with a program counter; an action is the code between two awaits, with at
most one flush. `local[p].view` is the request's copy of the instance.
Requests: `cancel`, `retry`, `advance`, `sendSignal`, `claimUserTask`, `completeUserTask`,
and the background execution of a new instance. `Proceed` holds the steps of
`executeWorkflow`, `executeTransition`, `executeStep` and `exitStep`. `ExecutionError` is a
query of the loop that throws, `Crash` a killed process. `Concurrent = FALSE` lets a
request begin only when no other is in progress. `gaveUp` is history: the loop has ended because
it reached its bound on iterations, which leaves an instance at its END step RUNNING.

### WorkflowLifecycle
The abstract specification: the instance moves along an edge out of its step,
is completed at an END step, waits, resumes, fails while RUNNING, is cancelled while
RUNNING or PAUSED; nothing leaves COMPLETED. `WorkflowEngine` implements it when requests
do not overlap (`status <- inst.status, step <- inst.step`). It does not when they
overlap, see section 3.

### Sales and the command bus
A command is an operator from the database and its input to an outcome: done or thrown, the
rows afterwards, and the orders whose numbers it computes again in its next flush. Three
modules hold the operators of one source file each: `createShipment`, `updatePayment`,
`orderLineUpsert`, `convertQuoteToOrder` ..., each with the snapshot it logs
(`load...Snapshot`) and the undo that writes it back (`restore...`). A handler that throws after
a flush leaves that flush behind (`Failed`). `CommandBus` runs them:

| Variable | Code |
|---|---|
| `db` | `sales_orders`, `sales_quotes`, `sales_shipments`, `sales_payments` with their lines, items and allocations |
| `log` | `action_logs`: actor, command, undo payload, execution state |
| `states` | history: the rows before and after the command of each entry |
| `stale` | history: orders left with totals of another state by a path of the code that does not compute them (below) |

`Execute` is `CommandBus.execute`, `Undo` the undo route with `CommandBus.undo`, `Redo` the redo
route, which runs the logged input as a new command. `mayUndo` and `mayRedo` are the routes' rules: the
latest undoable entry of the actor or of the resource, the latest undone entry of the actor.
The operators are written to be proved about, too: `Only`, `Over` and `Put` are `:>` and `@@` as function
constructors, which the prover can expand, and `recompute` computes all orders a command touched at once, each
from the rows and not from the others. An undo that finds the rows as its command left them must bring back the rows
the command found (`UndoReverses`, by `SameBut`), except for what orders in `stale` say was paid: these hold
totals of another state before the undo already.

### RedisCache and RbacCache
`RedisCache` has one action per round trip: `set` reads the old entry (`SetRead`), takes the key out
of its tags (`SetUnlink`) and writes entry and tags in one pipeline (`SetStore`); `deleteByTags`
collects keys and deletes them one after the other. `Expire` and `Evict` are the two ends of a TTL.
`RbacCache` instantiates it with one entry per user and tenant. A request is `loadAcl`,
one action per query (`Lookup`, `ReadSuperUser` ... `ReadRoleAcls`, `SetCache`), or a change: the ACL
routes, `auth.users.update` and `.delete`, `auth.roles.update` and its undo. The routes and the user commands commit first and
then invalidate twice, as the callers do (`Invalidate`); those on roles invalidate nothing. `roleTenant` is the tenant of a
role, or none. An update of a role reads role and ACL rows for the log (`PrepareRole`) and then writes the
tenant (`UpdateRole`); its undo writes the logged tenant (`UndoUpdateRole`), deletes the ACL rows in one statement
(`DeleteRoleAcls`) and creates the logged ones in the next flush (`CreateRoleAcls`), so that a load in between reads a role
without rows. `roleAcl` is a set of rows per role and tenant, as two of these can leave several; rows
that are equal count once, as they do in an answer. `Answer(k)` is what `loadAcl` returns when nothing else
happens. `behind` is a history variable with the keys whose entry the code itself leaves out of date: those whose answer a
change alters (`Altered`) that does not invalidate them, and the races of section 3.

### IndexJobs, Coverage and QueryIndex
One entity type in one organization of a tenant. `base` and `index` hold the number of the change a record or
its document stands for, so that an old document is told from a new one. A request changes
the base table and then handles the event: `FindRow`, `BuildDoc`, `PutRow` are the three statements of
`upsertIndexRow`, `FindDeletedRow` and `RemoveRow` those of `markDeleted`. A run is `reindexEntity` for one
partition, a statement an action: `StartRun` or `RefuseRun`, `OpenJob` ... `CloseJob`. It is given its organization, as the API
does, or goes over those of the tenant, and is forced or not (`Uses`). There is a job row per scope
(`JobScopes`): prepareJob and finalizeJob address that of the run, the refusal (`Refused`) and the read of `started_at`
(`ReadStartedAt`) the tenant-wide one, whatever the run is of, and a run that finds none takes the clock. `FailRun` is an error in
the loop, the purge or the refresh of the coverage (the finally block closes the job row), `StopRun` a killed process or an
error where no finally closes the row, between prepareJob and the loop or in finalizeJob; `PurgeFails` is the delete whose
error is swallowed. A run refreshes the coverage row only if it is one of those it keeps (`scoped`). `Coverage` is
the counter row: adjustments read and write it in two statements, a refresh counts the tables in two more; each
process has at most one task. Time is the order of statements: `unwritten` holds the index rows not written since `started_at` of the
tenant-wide row, `old` of a run those not written since the `started_at` it has read, which is what `purgeOrphans` deletes. History: `outdated` are records whose last indexing
wrote what had already changed or was lost with its process; `quiet`, `alone` and `shared` say what others did
beside a run.

### ReindexLock
The lock of one tenant and one type is whatever rows of `entity_index_jobs` are open: `row` holds organization,
`open` (finished_at is null) and the age of the heartbeat in ticks, `Live` is open and not older than
`HEARTBEAT_STALE_MS`. A request goes through the statements of the route: `Check` and, if the row it met was stale, `Clean`, once in the
route and once in `acquireReindexLock`; `Select` and `Write` of `prepareJob`; `Enqueue`, `Finish` and, if it works
directly, `Release`. A cancellation is `Clear` and `Release`. A worker takes a batch (`Take`) and reports progress (`Beat`), which
renews the open rows of its organization or takes the lock again with the statements of `prepareJob`. `Poll` is
the settings page, whose every request is a check. `QueryFails` is a statement that throws, caught in each function in
its own way; `Dies` a killed process or a failed batch; `Tick` makes every live row older. History: `kept[p]` are
the rows that have been live ever since request `p` began, `met[p]` counts the checks it passed by a stale row or a failure.

## 3. Runs

| Run | Instance | Shows |
|---|---|---|
| LocalQueue_deliver | 3 jobs, 2 stops inside a batch | jobs removed stay removed; redelivery is bounded by stops; order; counters; every stored job is handled |
| LocalQueue_lost | same | finding: a job created while a handler is awaited is lost |
| WorkflowActivities_parallel | 2 slots (one process or two), 2 parallel activities, then a plain transition | nobody passes an unfinished activity, outputs are merged, the last event wakes a waiting instance |
| WorkflowActivities_restarts | 2 slots (one process or two), a transition with 2 activities and one with 1, 2 attempts configured, one manual retry, one crash | until a worker acts on an overtaken check, no step is executed twice and a pause stores what it waits for |
| WorkflowActivities_stuck | 1 slot, 2 activities | finding: an instance can wait for ever |
| WorkflowEngine_serial | one request at a time, 3 requests, one fault, definition `Circle` (task, manual rejection behind a pre-condition, signal, and a step with an automatic transition to itself) | history, tasks, form data and status agree; every request ends; the engine implements `WorkflowLifecycle` |
| WorkflowEngine_concurrent | two requests at a time, one fault, `Review` | types; only connected steps are visited |
| CommandBus_sales | 3 commands (redos included), each undone and redone at will by 2 users; one document id, 2 lines, 2 shipments, 2 payments, quantities to 2 | fulfilled quantities, totals and references agree with the rows; an undo of anything but a conversion brings back what its command found |
| RbacCache_fill | 2 requests, 2 changes, kills; one user and tenant, one role of the tenant or of none, which the user has and which has an ACL row at first | entries can be found by their tags, are current but for the named races, and wrong ones end |
| QueryIndex_reindex | 2 runs (first one of the tenant or a forced one of the organization, then one of the organization), one request, one change, 2 records, failures and kills | wrong documents are accounted for; an undisturbed run repairs index and counts, but for orphans an organization's run keeps; job rows |
| QueryIndex_rebuild | 2 partitions rebuilt by force at once, 2 records, no faults | finding: records are missing afterwards |
| ReindexLock_requests | 2 requests (reindex or cancel) in 2 organizations, one worker, one batch each, a polling page, 2 faults | a lock that is kept up is passed only by a request whose two checks were misled; no lock outlives the work |

Bounds. Three jobs are the fewest with one removed, one in a batch and one arriving; two
stops give a stop in a restarted batch. Two slots and two activities are the smallest
race for the last event. `MaxIterations = 3` stands for the 100 of the source: the bound is
reached in the cycle, and it is longer than any automatic path of `Review`, so
that the other properties are not met just because the loop gave up. Three requests
start the instance, answer the task and signal, or reject it and answer again. Three log entries
are a command, another on the same rows and a third that meets both, which is enough to make an undo meet
data that has moved on; one document id serves as order and as quote, since a conversion keeps the id. Two
requests are the fewest that race, and two changes let a second one meet the invalidation of the first; with
one tenant the tag of a role is the tag of all its users, so the note on tenants below is not part
of the run. An update of a role and its undo are two changes. Two runs, one change and two records of which one is new are the fewest in which a run, a
second run and an event meet on a record; one partition is enough there, as what a run does beyond its own is in the
run `QueryIndex_rebuild`, and so are two forced runs. Either run may wait before it does anything, so that all orders of their work occur (`UsesInOrder`, an action
constraint). At first the role of the cache run is assigned and has a row, which a request may change (`SeededInit`). Two activities and one are the smallest chain in which a late worker can write over a second
pause, and five jobs leave room for the second pause after a retry of the first. Two requests, one of them
with a lock that is kept, and two failed checks are the fewest that let the other pass; that stale rows of other
organizations mislead as well takes three requests or more, and the theorem covers it. `Stale = 1` tells a fresh, an ageing and a stale heartbeat apart. Every bound is a constant named in the module. Deadlock
checking is off except for the queue: an instance that is finished, a log that is full and a system at its
bound on changes really stop; the reindex lock is checked for deadlock. The sales run
uses symmetry (ids are interchangeable, and it has no liveness property).

Every property of a passing run is accompanied by an operator `<Definition>_<Bug>`
that changes a definition of the model as a plausible bug would; with it TLC refutes the property.

### Fairness
`LocalQueue`: the event loop goes on with a batch and fires the timer (`WF(Worker)`),
a process that is down is started again (supervisor), a closing process exits. Nobody must
enqueue, clear or stop, and stops inside a batch are bounded, as a queue whose process dies in
every batch delivers nothing. `WorkflowActivities` and `WorkflowEngine`: a process that is not killed takes its
next step, and a queued job is taken by a free worker; nobody has to retry, answer, signal or
crash. `RbacCache`: time passes, so an entry with a TTL ends (`WF(Passing(k))`); no request has to go on, for
`StaleEnds` must hold although every process was killed. `ReindexLock`: statements return, a free worker takes a
batch, time passes, and a settings page that has shown a lock is open, which asks every three seconds from then on: only a lock
that changed or leaving the page clears the interval (SearchSettingsPageClient.tsx:235-265). Nobody has to make a request, and
without one who asks a stale row is never closed.
`CommandBus` and `QueryIndex` state safety only: nobody restarts a killed reindex.

### Findings
The three violation runs, with the quoted claim of the docs in `PROJECT.json`:
1. `LocalQueue_lost`: the batch overwrites the file with the snapshot it read (local.ts:183).
2. `WorkflowActivities_stuck`: jobs are enqueued before the pause is stored; a resume
   attempt before that is dropped (workflow-executor.ts:635).
3. `QueryIndex_rebuild`: partition 0 purges the rows of all partitions (reindexer.ts:260) while the
   others, started beside it (cli.ts:566), write theirs.

Other differences between code and docs that the models contain and no run is spent on.

Workflows. Completion events are counted over the whole life of the instance, so a second transition
can complete before its activities (workflow-executor.ts:642, against its comment at 619), and a retried
instance is failed again by the events of the earlier run (workflow-executor.ts:661). Two workers that both count all
activities as done both resume: the step is executed twice, the slower may set a COMPLETED instance back to RUNNING
(workflow-executor.ts:751; architecture.mdx:205) or write its resumption over the next pause. The worker's default
concurrency is 2 (workflow-activities.worker.ts:27), so this takes no special configuration. A request in progress writes over CANCELLED, and completeUserTask does
not look at the status (step-handler.ts:555; architecture.mdx:207). Form data merged into a stale copy of the context
is lost when two requests overlap (task-handler.ts:124; user-tasks.mdx:66). The first valid transition is taken
instead of the one of highest priority (workflow-executor.ts:365; transitions.mdx:208); a rejected pre-condition ends
the loop instead of skipping the transition (workflow-executor.ts:377; transitions.mdx:114); after a failed step the
instance stays RUNNING, where retry refuses it (transition-handler.ts:496; architecture.mdx:201); a task
or a signal may take a manual transition (task-handler.ts:195); the status stays PAUSED behind an
answered step (signal-handler.ts:197; architecture.mdx:197); a claim reopens a task completed in
between (task-handler.ts:274); the retry policy of asynchronous activities is never applied (async.ts:112,
local.ts:165); activity failures let the workflow continue by default (transition-handler.ts:368; transitions.mdx:315)
and failed post-conditions are only logged (transition-handler.ts:511; transitions.mdx:138).

Queue. The initial batch is not awaited by close() (local.ts:228).

Sales. Undoing an edit of an order writes its snapshot back over shipments and payments recorded since
(documents.ts:2724; user-guide/audit-logs.mdx:20). Undoing the deletion or the reduction of a shipment does not check the remaining
quantity again, and an edit may lower a line below what has been shipped: more is then shipped than ordered
(shipments.ts:207, documents.ts:4259; shipments.ts:377 forbids it). The bus passes buildLog only the snapshot
taken before (command-bus.ts:133), so the log entry of a conversion has no order (documents.ts:4163) and its undo brings the quote back
and leaves the order (commands/overview.mdx:95 says an undo reverses the operation). A payment given new allocations, moved or
restored leaves the orders it no longer pays with their old totals (payments.ts:648): such orders are in
`stale`. Undoing the deletion of an order does not bring back what payments of other orders allocated to it.
Undoing the creation of an order with shipments fails after the flush that deletes its adjustments. A redo
creates under a new id.

Cache and RBAC. The races that `CachedIsCurrent` excludes by name are real: an answer read before a
change is stored after its invalidation and lives until its TTL (rbacService.ts:352, though line 229 says "Cache is
automatically invalidated when ACL-related data changes"); the update of a role, which may give it another tenant (roles.ts:218), and its undo, which restores tenant and ACL rows
and leaves the role without rows for a moment (roles.ts:304, 495), invalidate nothing; a role that makes super admins changes answers in every tenant and only its own is invalidated
(roles/acl/route.ts:176); a process killed between commit and invalidation never invalidates; while `set` is between its
round trips, deleteByTags does not find the entry it replaces, and never will if `set` is killed there (redis.ts:226);
the deletion of a user who is already gone answers 404 before it invalidates, so what a request cached in between
stays (users.ts:523).

Query index. A run that is killed, or fails between prepareJob and the loop (reindexer.ts:226-325, the `try` begins at 327) or in
finalizeJob (484), leaves its job row open. The check for an open row has no heartbeat test and always looks at the row
without an organization (reindexer.ts:142): an open tenant-wide row refuses every later run without force, of any
organization, and a run of an organization, as every run of the API is (api/reindex.ts:71), is never refused because of another of its
kind. `started_at` is read from the same row (reindexer.ts:228), so a run of an organization purges by the start of the last
tenant-wide run, however long ago, and keeps orphans written since (`KeptOrphan`). Two upserts of a new record both see no row and are both counted
(indexer.ts:108, coverage.ts:181). An older document may be written last, also by a batch over an event
(query-index.mdx:12 says events keep the index synced), and a record deleted while it is being indexed leaves a
document until a reindex. resetCoverage writes the number of rows of partition 0 alone. Partitions run in parallel where
query-index.mdx:67 says sequentially.

Reindex lock. The lock is checked, selected and written in separate statements with no unique key behind them
(reindex-lock.ts:125, jobs.ts:38), so two requests can both acquire it, though the route means to refuse the second
(route.ts:88). What is closed as stale is the row by its id, not the row as it was read (reindex-lock.ts:81): one that was renewed in
between is closed, too. The threshold is 30 seconds where the comment says 60 (reindex-lock.ts:20, 50). A direct
reindex sends no heartbeat, so after 30 seconds its lock is taken for stale, another request may take it, and
the end of the first releases it (route.ts:411). A batch in progress when its reindex is cancelled takes the lock again. A reindex of one
organization recreates the index of the tenant (search-indexer.ts:615).

## 4. Proofs

The proofs hold for every value of the constants that satisfies the ASSUMEs named in the modules: any number of
jobs, stops, requests, faults, workers, users, roles, records, partitions and runs, any definition. The assumptions
say that constants are of their kind (`BoundsAssumption`, `ConstantsAssumption`, `RecordsAssumption`,
`UsesAssumption` ...), that processes and requests are different things (`ProcessesAssumption`), and that model
ACLs are closed under being granted together (`AclsAssumption`). TLC evaluates all of them.

**LocalQueueProofs** proves every safety property of the run `LocalQueue_deliver`: `TypeCorrect`,
`NoResurrection` (RemovedStaysRemoved), `AtLeastOnceBound` (RedeliveryOnlyAfterStop), `OrderedDelivery`
(HandledInOrder) and `CountersAccountForJobs` (CountsAccountForRemoved).
- RemovedStaysRemoved alone is not inductive: the batch writes back a snapshot that could hold
  removed jobs. `IInv` adds that jobs in the file and in the batch's snapshot are older than `nextId`
  (`KnownAreCreated`), that none of the snapshot has been removed since it was read and that what is
  still to do is not yet marked for removal (`SnapshotIsClean`), and that every job that is stored or may be
  written back, unless the batch has handled it, was handled at most `stops` times (`PendingPaidByStops`).
  That is why the bound holds: a stop is the only way back from handled to pending.
- Order: `lastProcessedId` always names a job that has left the file (`LastIsRemoved`), so a
  reader takes the whole file for pending; removed jobs are older than stored ones, and what a batch has not
  chosen is younger than what it has still to do (`BatchInOrder`). For a limited batch this
  is a fact about cardinalities (`FirstAreOlder`).
- Counters: `CountsAgree` follows the sum from the snapshot of state.json through the batch to the
  second write; what the batch marks is disjoint from what was removed before.

**WorkflowEngineProofs**, for overlapping requests: `TypeCorrect` and `OnlyConnectedSteps` (VisitedConnected). The row's
step may be overwritten by another request at any time, so the invariant is about copies: `IInv` says that
every step in the row and in every request's copy has been visited (`Reached`), and that a request about
to take a transition has selected one that leaves the step of its own copy (`Selected`). The move then
visits a step connected to a visited one, whatever the row has become.

Its second part is about `~Concurrent`, as in the run `WorkflowEngine_serial`, for any definition and any
number of requests, errors and kills: `SerialRequestsRefine` (every step of the engine is a step of
`WorkflowLifecycle` or a stutter), `StepHistoryAgrees` (HistoryAgrees), `CompletesAtEnd` (CompletedAtEnd), `FormDataSurvives`
(FormDataKept) and `TasksAndStepsAgree` (TasksAnswerSteps). The step from "no other request" to these is `Knows`: the copy of a
request that is alone is the row, at every await of every handler, so that a flush writes what it means to write and what was checked before an
await still holds after it. `SerialInv` adds what each property needs of the past: an instance at
an END step is being completed, is final, or the loop gave up (`EndsAtEnd`), the newest step instance is the one entered last
(`LastEntered`), data on its way is in a copy (`DataArrives`), and a step instance is only left with its task done
(`LeftWithTask`).

**WorkflowActivitiesProofs**: `TypeCorrect` for every chain, and for chains in which one transition has asynchronous
activities (`OneAsync`: the chain of the run `WorkflowActivities_parallel`, and any other, with any number of steps, jobs, workers and
processes): `WaitsForItsTransition` (WaitingIsPending, until a manual retry, kills allowed),
`AdvancesWhenDone` (NoAdvancePastUnfinished) and `OutputsKept` (OutputsMerged), both until a kill or a manual retry. The conditions are those
under which the code is right: completion events are counted over the whole life of the instance, so a second asynchronous
transition, a second delivery of a job or a retried run breaks what these say (section 3). The inductive invariant
tells three phases of a row apart, `Early`, `Paused` and `Late`, and says of each process in which phase the row and its copy are:
the web process drives the row while it is Early, a worker only when it is Late, and a worker that counts holds a copy
that is Paused, or Late if another job of its process resumed first (`WorkerOK`). `Once` makes the count of events a count of
jobs; `AllDone` turns the comparison of two cardinalities into "every job has succeeded".

`WaitsForItsTransition` has no run of its own: the run checks the stronger PausesPending, for chains with several pauses.

Its last section is about every chain and any number of slots, with kills, redeliveries and manual retries: `NoStepTwice`
(StepsExecutedOnce) and `PauseIsPending` (PausesPending), both until a worker acts on an overtaken check. No
count of events is needed, right or wrong. `CheckInv` says that at most one process moves the instance (`AloneMoving`), that whoever moves it, or counts for it
and has not been overtaken, holds the row as its copy (`ProcOK`), that what is stored while the instance waits is what a worker
will find (`PauseOK`), and that no step ahead of the instance has been executed (`EnteredOK`). The lemmas `BusyGoes` and `DecisionGoes`
carry these over any step of the process that moves and over the decision of a worker. Without the exception TLC refutes both with two slots.

**RbacCacheProofs**: `TypeCorrect`, `TagsReachEntries` (IndexCovers) and `CachedAnswersCurrent` (CachedIsCurrent), for any number
of overlapping loads, changes and kills. IndexCovers is inductive once entries carry the tags of their key (`EntriesTagged`). For
CachedIsCurrent the invariant follows a load through its queries: what a load that no change has overtaken has read so far is what the
tables say (`ReadSoFar`, part of `LoadsAgree`; a role that lost its rows between the two statements of an undo counts as a change), and an entry that is wrong is in the hands of an invalidation, or one of the
named races left it (`WrongAreDeleted`). The proof found one such case that had been missed: the deletion of a user
who is already gone, now in `behind`.

**QueryIndexProofs**: `TypeCorrect`, `WrongDocumentsExplained` (RecordsIndexed), `QuietRunsRepair` (ReindexRepairs), `AloneRunsCount`
(CoverageRepaired) and `RowsTellRuns` (JobsTracked), for any number of records, partitions, requests and runs. A version says which
change a document shows, so "wrong" is a comparison; `WrongAreKnown` says of each wrong document who will still repair it or
which race or kill left it, `RequestsKnow` and `RunsKnow` what a request or run between two of its statements holds in its
hands. For a run that is `quiet`, `QuietWalks` is the loop invariant: what lies behind the cursor is right, what lies before it is
old enough to be purged (`OldAreWrong`), will be visited, or is an orphan the run's `started_at` keeps. `AloneRefresh` is the same for the two reads of a
coverage refresh.

**ReindexLockProofs**: `TypeCorrect` and `KeptLockRefuses` (LiveLockRefuses), for any number of organizations, rows, requests, polls and workers, with
failures and kills. The code promises less than a lock: two requests may both hold it (section 3), and
what is left is what one may rely on. `LockInv` says that the rows of the history are live (`KeptLive`), so that a
check always finds some row open, and relates the place of a request to the number of times it was misled (`Misled`); `Counted` is what a
step may do to both, and every action is shown to be of that form.

**SalesProofs and CommandBusProofs**: `TypeCorrect`, `FulfilledIsShipped` (FulfilledAgrees), `TotalsFollow` (TotalsAgree),
`NoReferenceBreaks` (ReferencesExist) and the action property `UndoBringsBack` (UndoReverses), for any number of users, documents, lines,
shipments, payments, quantities and log entries, under `~PaymentsMove` as in the run: a payment stays with its order.
- What makes an undo safe is what the log holds, so the inductive invariant `IInv` is about both: the database is
  `Sound` (typed, references, fulfilled quantities, and the totals of orders outside `stale`), and every
  snapshot in the log would be if its rows were the database (`PayloadSound`, `RowsOf`). Two facts connect an old
  snapshot to rows that have changed since: a payment is allocated to its own order or to none (`OwnAllocations`), so what a
  restored order's records replace belongs to that order, and a shipment never changes its order (`AtHome`: `home` is
  the order of every shipment ever created), so a restored shipment is counted where it was.
- `UndoBringsBack` needs what the invariant forgets: `HInv` says of every entry that its command was run on `states[k].before`,
  which was sound, that it left `states[k].after`, and that the payload is the snapshot of one of the two (`Ran`,
  `Recorded`). `Reversed` then shows, command by command, that undoing on `after` gives `SameData`: the same
  rows but for derived numbers. Both databases are sound, and soundness determines the derived numbers (`SameDataSameBut`).
- Sums. `SumFunction` is a fold, and folds are recursive functions given by CHOOSE. That they exist and are
  numbers is proved from the definition: the set of sizes up to which a sum is a number has no least counterexample
  (`SumsInductive`, by NumbersInductive); all other lemmas use only that equal functions have equal sums.
- The hypothesis is needed. With `PaymentsMove` TRUE, TLC finds TotalsAgree and FulfilledAgrees violated: a payment of an order that is
  allocated to another one, too, makes `deleteOrder` fail after its shipments are gone (documents.ts:3846), and a
  restored payment changes the total of an order that nobody computes again. It finds ReferencesExist violated as well, where undoing an
  order edit restores a payment allocated to an order deleted in between; there the model lacks the foreign key
  that would refuse the row, so that this is no statement about the code.
- The proof changed the property. `UndoReverses` used to ask for the same rows whenever the undo itself left `stale` alone; with two documents
  and four entries TLC refutes that, because a total that was already wrong before the command is put right by the undo. Now it
  says which numbers may differ instead of when nothing is said.

Model-checked only:
- liveness (`StoredJobsAreHandled`, `LastEventWakes`, `RequestsEnd`, `StaleEnds`, `EveryLockEnds`), which is outside the prover.
  Every other property of a passing run is stated by a theorem.

The violation runs are counterexamples and have no theorem.

## 5. Abstractions and what is left out

- The context holds keys, not values; a condition asks for a key. Outputs of synchronous activities
  are not keys of the context.
- An activity is its outcome. In `WorkflowEngine` a synchronous activity may fail only where
  `activityMayFail` says so; asynchronous activities are in `WorkflowActivities`, whose definitions
  are chains and whose retry route reads and writes in one action.
- Multiple events for one instance are a set in `WorkflowActivities`; the event log is otherwise
  left out, nothing else reads it.
- The contents of a half-written file, and two processes on one `queue.json`, are not modelled.
- Not modelled: SUB_WORKFLOW steps, asynchronous activities of a step (they never pause it,
  step-handler.ts:430), post-conditions, timers (the step type throws), compensation (unreachable: no
  caller passes FAILED to completeWorkflow), signals by correlation key.
- Sales: quantities and amounts are small whole numbers, every unit costs 1, a discount is one number; taxes,
  currencies and rounding are left out. Commands are atomic, one request at a time, no kill between the change and
  its log entry: two submissions of one undo (audit-logs.mdx:21) would run it twice. Header edits (updateOrder,
  updateQuote), notes, addresses, tags, invoices and credit memos are not modelled. In the runs and the theorems `PaymentsMove` is FALSE:
  payments stay with their order (section 4).
- Payments: allocations that name other orders or none are dropped from an input unless `PaymentsMove` (payments.ts:381-407, 522-523),
  captured and refunded amounts (258-285) are left out. A line may come with an id or get a new one; a redo of a new line
  takes the id it had.
- Cache: one cache tenant; errors of Redis, the wrapper's metadata key, clear and cleanup, and the strategies that live in
  one process (memory, SQLite, JSON file) are not modelled. RBAC: API keys, organization scopes and the per-request
  cache of super admins are not modelled.
- Query index: one organization, so that a tenant-wide run goes over one, too; the removal of job rows of an older partitioning
  (cleanupLegacyJobScopes) and the purge of the command line are left out, the clocks of database and process are one, and whether a
  reset of the coverage is throttled is open; documents are version numbers; search tokens, vector rows, encryption, custom fields, hard
  deletion and restoring of records are not modelled, and failed reindex jobs are not retried.
- Reindex lock: the two types do not touch each other's rows and are one instance each; the clocks of the database and of the
  web process are one; what the work does to the search index is left out.
- Event bus and document numbers are not modelled yet (section 6).
- CRUD modules, UI and generators have no protocol beyond single rows. They are most of the repository's 270,000
  lines (forms, pages, routes that validate and store one row, seeds, translations, command lines), which is why the
  modelled code is a small part of it: what is modelled was chosen by where order, failure and
  shared state matter, and a specification of the rest would restate its assignments.

## 6. Plan

Done: the components above. Next:

1. Proofs. `CommandBus`: what remains true when payments move. `WorkflowActivities`: what two slots keep true after they have raced.
2. `EventBus` over `LocalQueue`; `Compensation` and `SubWorkflow` over `WorkflowEngine`; document numbers.
3. Overlapping requests of the command bus; onboarding (two clicks on one verification link).

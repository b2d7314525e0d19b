# Verification of scenario_pipeliner

`scenario_pipeliner` runs host-defined pipelines for rows of a PostgreSQL task
table and, optionally, takes tasks from RabbitMQ and publishes their results.
Several worker processes share the tables; nothing else coordinates them. This
directory holds TLA+ modules of the parts whose correctness depends on that
sharing, TLC configurations that check them on small instances, and proofs for
every size of instance.

## 1. The system

| Component | State | Operations | Talks to |
|---|---|---|---|
| Task table (`worker/task_repositories/postgres.py`) | `tasks`, `results`, `settings` | lock runnable rows, start, heartbeat, store an outcome, count and close a root, cancel subtasks, requeue | every worker, by SQL |
| DB runner (`worker/execution/*`, `worker/core/runner.py`) | batch, one coroutine per row, poller, stop event | fetch a batch, execute, poll flags, drain, requeue | task table, plugin pipelines |
| Pipelines and steps (`worker/core/pipeline.py`, `step.py`) | the state of one execution | run, insert subtasks, raise | DB runner |
| Broker ingress (`worker/broker/ingress.py`, `runner.py`) | open deliveries, `broker_ingress` | ask the plugin, insert task and ingress row, ack, nack | RabbitMQ, task table |
| Broker outbox (`worker/broker/outbox.py`, `storage.py`) | `broker_outbox`, claims | reconcile, claim, ask the plugin, store, fan out, mark | RabbitMQ, task table |
| Broker loop (`worker/broker/runner.py`, `rabbitmq.py`) | connection, consumers, failure count | start, ping, abandon, reconnect, give up | RabbitMQ |
| Application (`worker/runtime/app.py`) | stop event, runner tasks, pool, engine | start, supervise, drain, close | both runners |
| Migrations (`core/core_migrate.py`, `core/plugin_migrate.py`, `db/schema_utils.py`) | schema, tables, `plugin_migrations`, `settings` | create, upgrade, apply a file once | PostgreSQL |
| Identity sequences (`db/schema_utils.py`, `runner_helpers.py`) | sequences, ids of rows | repair, insert, retry once | PostgreSQL |
| Plugin trees (`core/dry_run.py`, `core/registry.py`, `worker/runtime/registry.py`) | names, schemas, scenarios of one process | preview, collect, register | migrations, worker |
| Settings, clients, logging, scaffolding | process-local | configure, wrap, write files | — |

What is hard in it:

* Workers share rows by a lease (`last_heartbeat_at`), not by a lock. A row can be
  reclaimed while its first worker goes on.
* The outcome of a root depends on its subtasks, which other workers store; the
  count and the close are separate transactions.
* A stop, a crash, a database error or a pause can come between any two calls.
* A batch that fails leaves its other coroutines running, with nobody who waits for
  them or refreshes their heartbeats.
* The outbox lease is fenced by a claim token, the task lease is not.
* RabbitMQ delivers again what was not acked, while the handler of the earlier
  delivery may still commit.
* aio_pika restores connections and consumers behind the back of the broker loop,
  which has a restore of its own.
* Two timers of the same length end a stop: one of the batch, one of the process.
* Several processes start on one database and migrate it at the same time; only
  the transactions of PostgreSQL order them.

`PROJECT.json` lists the hazards one by one with their lines and the
properties that cover them; a note says what a property leaves open.

## 2. Modules

```
TaskStatus    statuses, cyclical rewrite, verdicts   (pure)
TaskStore     the statements of PostgresTaskStorage  EXTENDS TaskStatus
TaskWorkers   workers, batches, coroutines, faults   EXTENDS TaskStore
TaskBoard     the abstract task table                EXTENDS TaskStatus
TaskProperties  properties; INSTANCE TaskBoard       EXTENDS TaskWorkers
MCTaskWorkers   instances for TLC                    EXTENDS TaskProperties
TaskProofs      types, terminal rows, results        EXTENDS TaskProperties
TaskRollupProofs  how roots are closed               EXTENDS TaskProofs
TaskBoardProofs   the lease, cancellation, waiting
                  roots, the refinement              EXTENDS TaskRollupProofs

Outbox, OutboxProperties, MCOutbox, OutboxProofs
Ingress, IngressProperties, MCIngress, IngressProofs

BrokerLoop    the loop of the broker runner, its client, RabbitMQ
RunnerApp     the process: DB runner, timers, run        EXTENDS BrokerLoop
WorkerProcess the abstract process
ProcessProperties  properties; INSTANCE WorkerProcess    EXTENDS RunnerApp
MCProcess, ProcessProofs                                 EXTENDS ProcessProperties

PluginPlans   what the readers of a plugin tree make of it (pure)
Startup       commands on one database                   EXTENDS PluginPlans
StartupProperties, MCStartup
PluginPlanProofs  the dry run, for trees of any length   EXTENDS PluginPlans
StartupProofs     EXTENDS StartupProperties, PluginPlanProofs
```

### Tasks

`TaskStore` has one operator per SQL statement, on `status`, `execs`
(`current_executions`), `results` (rows of `sp.results`), `expired` (heartbeat
older than the zombie timeout), `delayed` (`next_run_at` ahead), `deleted` and
`settings`. Time is not counted: `BecomeDue` and `HeartbeatAges` say that it
passed. Constants fix the rows: `Root`, `Subtask`, `Parent`, `Blocking`
(`is_block`), `Cyclical`, `MaxExecutions`, `ScenarioOf`.

`TaskWorkers` adds for each worker `mode`, `polling` and one coroutine for each
row of its batch. A worker is what executes one batch at a time: the runner of a
process, or a batch that this runner left behind. When a database call of
`on_task_error` raises, the exception leaves the batch before its other coroutines
are cancelled (`batch_executor.py:80`): the worker becomes `"orphaned"`, keeps its
coroutines without the poller, and a `"spare"` worker of the same process
(`ProcessOf`) goes on as the runner (`BatchAborts`, `LeaveBatch`). Orphans end when
their coroutines do (`OrphansEnd`) or with their process (`ProcessEnds`). `pc` is the
coroutine's next database call:

| pc | code |
|---|---|
| `waiting` | `process_task` before the semaphore |
| `running` | `mark_task_running` done, pipeline running |
| `persist` | `persist_task_result`, or with `err` set `persist_task_error` |
| `failParent`, `cancelSiblings` | the two calls of `_handle_subtask_failure` |
| `count`, `close` | `count_parent_subtasks_state`, then `close_waiting_parent` or `fail_waiting_parent` |
| `done` | finished, the batch still waits for others |

Actions are the transactions: `Fetch`, `Start`, `StartMisses`, `Raise`, `Spawn`,
`PipelineReturns`, `Persist`, `PersistSkipped`, `FailParent`, `CancelSiblings`,
`CountSiblings`, `CloseParent`; the poller's `PollRound` and
`PollWorkerDisabled`; the shutdown's `Stop`, `ShutdownTimeout`, `Requeue`; and the
faults (`Crash`, `CallFails`, `BatchAborts`, `PollFails`, `RequeueFails`, `Toggle`,
`Delete`, `HeartbeatLate`). A pipeline is a black box that may insert
subtasks, return with `ok` set or not, raise, or see its cancel event. It inserts
in every execution of its root, as `_create_subtask` does (`step.py:118`); `SpawnOnce`
(one transaction for each execution) and `SpawnIdempotent` (none after an earlier
execution inserted some) are assumptions on plugins that single runs and theorems make.

`TaskBoard` is the abstract specification: rows only, and a root is decided in
one step from the statuses its subtasks have at that moment.
`ImplementsBoard` says that `TaskWorkers` implements it; `status`, `results` and
`deleted` are mapped to themselves, everything else is hidden. Deletion is the only
thing that shows: a subtask deleted between the count and the close may still
have been counted.

### Outbox

One row per terminal task of the broker (`status`, `token`, `attempts`, `reply`,
`aged`), and for each publisher the claims of its batch, the claim it works on,
`pc`, the reply it sends and the next queue. `copies` counts what each queue
received. Every update after the claim goes through `Owned`, which is
`_owned_processing`. A reply is a body and a list of queues; `on_egress` may
answer anything on every call. Host SQL may soft-delete a task (`deleted`);
`Reconcile` passes over it, as `docs/CONSUMER.md:380-382` says.

### Ingress

`where` each message is, how often it was delivered, and the running handlers. A
handler belongs to one delivery; after a lost connection it goes on as a stale
handler, whose commits count and whose answers do not (`Live`). `tasks` counts the
committed tasks of a key, the pair of queue and `resolve_message_id`. RabbitMQ
itself is external: it gives unacked messages back when a channel closes, counts
deliveries in `x-delivery-count` on quorum queues and leaves `x-death` alone when
a message is given back with `nack(requeue=True)`. A process that was told to stop
gives each message back unseen until it disconnects; `bounced` counts that.

### Process

`BrokerLoop` is `BrokerRunner.execute` with one action per await that can fail:
`Connect`, `OpenChannel`, `Consume` (one queue at a time), `Ping`, `Reconnect`, `Work`
(reconcile and publish, which may declare the reply queue), the sleeps and the
`finally` clause. `loop.restoring` says that a failure is one of `_reconnect`, which is
counted, and not of the first start, which leaves `execute`. `client` is the
connection with its cached queues and consumers. Declaring a queue that exists with
other arguments (`foreign`) closes the channel with all its consumers; they are then
`detached` until aio_pika subscribes them again. `orphan` is a connection that the
client forgot because closing it took too long: until RabbitMQ closes it, its
consumers go on taking messages.

`RunnerApp` adds `RunnerApp.run` (`phase`) and the loop of the DB runner (`db`), of which
it only keeps what became of the rows of its last batch: held, stored, given back, or
left by a batch that failed, whose other tasks go on as `strays`. Both shutdown timers have
the length `RUNNER_SHUTDOWN_TIMEOUT_SECONDS`; `first` is the one that was started
first and hence ends first. What a batch does inside is in `TaskWorkers`.

`WorkerProcess` is what an operator may expect: the process goes on until it is asked
to stop or cannot go on, and its exit code tells the two apart. `ImplementsProcess`
maps its `status` to `phase`, `failure` and `asked`; liveness is part of it.

### Startup

A process runs one command (`db migrate-core`, `db migrate-plugins`, `run`, `run
--skip-migrations`, `task create`) on its plugin tree. Actions are the statements and
transactions, because another process may come between them: look for the schema,
create it; read the Alembic version, upgrade; read `MAX(id)`, `setval`; take an id,
commit the row; insert the plugin's key (which blocks a second inserter until the
transaction ends: `holder`), read the ledger, apply. `PluginPlans` has the three
readers of a tree: `DryRun`, `Collects` with `Plan`, and `Loads`, each with the checks
that the code has at that place and no others. A manifest is a record of verdicts.

## 3. What the runs show

All runs but `lifecycle` use two processes. Deadlock checking is off because every
system here may come to rest: all rows final, all messages answered, the process
ended, or every command done.

| Run | Instance | Shows |
|---|---|---|
| `calm` | root, cyclical blocking and linear non-blocking subtask, no fault, fair | `WaitingHasCloser`, `CancelledForBlockingFailure`, `EveryRowSettles`, `BlockingFailureReachesRoot` |
| `storm` | two stops, crashes, stored database errors, pauses or deletions; subtasks inserted once | `TypeOK`, `SettledRoots`, `RootLease`, `VerdictsHold`, `ImplementsBoard` |
| `lease` | the same without stops; subtasks inserted one by one and again | `LeaseProtectsRow`, `Exclusive`, `IterationsAreCounted`, `StartMissLeavesRow` |
| `recovery` | one stop, crash, database error, failed batch or late heartbeat, fair; the first process may leave one batch behind | `OneResultPerSubtask`, `TerminalIsForever`, `NoRowStranded` |
| `outbox` | one row, four faults, deletion included, fair | `FailedWhenExhausted`, `SkippedSentNothing`, `FinalIsForever`, `EveryReplySettles` |
| `outbox_batch` | two rows, one fault, one process lacks a plugin | `OneReply`, `SentReachedEveryQueue`, `OneCopyPerClaim`, `ImplementsDelivery` |
| `ingress` | two copies of a message, one counted by header and one by flag, one fault of any kind, two bounces, fair | `OneTaskPerKey`, `AckedHasTask`, `OutIsHandled`, `TriesBeforeDrop`, `DeliveriesAreCapped`, `EveryMessageEnds` |
| `lifecycle` | one process, any mode, two input queues (both deletable, one foreign), `PING_FAILURE_LIMIT` 2, three faults, a failed batch included, fair | `UsersGoFirst`, `ConnectionsAreClosed`, `ImplementsProcess`, `ServedOrEnded`, `RowsAreGivenBack` |
| `startup` | two processes, three releases, six pairs of commands, an empty or an installed database, or one plugin in any shape; one fault, fair | `OneInstall`, `LedgerMovesForward`, `PreviewHolds`, `LoneRepairHolds`, `DeploymentComesUp` |

Runs that end in a violation, each a disagreement between the code and what the
repository says of it (`findings` in `PROJECT.json` quotes both):

| Run | What happens |
|---|---|
| `start_miss` | A database call of `on_task_error` raises. The siblings go on without heartbeats, another runner locks their rows, misses its start and stores FAILED over a row that a sibling executes. |
| `pause_waiting` | The last open subtask of a WAITING root is cancelled by a pause; nobody looks at the root again. |
| `ingress_death` | A message with an `x-death` count on a classic queue is given back for ever. |

More limits of the code are conditions of the properties rather than runs; without
its condition the property fails:

* `SpawnOnce` and `SpawnIdempotent`: a root inserts its subtasks in one transaction, and
  not again when it is executed again. A root that inserts them in two steps, or once
  more after a crash, can be closed over an open one by a count taken in
  between (`SettledRoots` fails with either constant `FALSE`).
* No failed batch (`"abort"`) in `storm` and `lease`. What it leaves behind executes rows that
  other workers lock after the zombie timeout (`start_miss`), which breaks `Exclusive` and
  with it everything that rests on the lease: `LeaseProtectsRow`, `IterationsAreCounted`,
  `StartMissLeavesRow`, `RootLease` and, if the batch held two roots, `SettledRoots` and
  `ImplementsBoard` even for roots that insert once: an orphan inserts below a root that
  another worker has finished without subtasks. What
  rests on the guards of the statements holds all the same, and so does the recovery
  of the rows (`recovery`).
* `lease` has no graceful stop. A stopping worker gives back every row of its batch,
  a cyclical row included that it had stored and another worker executes by now
  (`db_orchestrator.py:171`, `postgres.py:257`); `LeaseProtectsRow` and, for a row that another
  worker was about to start, `StartMissLeavesRow` fail with `"stop"`
  among the faults.
* `Hooked`: in `outbox` every process has the hooks of every plugin. A process
  without them that takes over a half-published row marks it SKIPPED
  (`SkippedSentNothing` fails if only one publisher is hooked).
* `RowsAreGivenBack` excepts a drain that the process cuts short. If the timer of
  `RunnerApp.run` ends first, or while the rows are being given back, the DB runner is
  cancelled (`app.py:254`) and its rows wait for the zombie timeout, although
  `docs/CONSUMER.md:394` speaks of a requeue after the wait.
* `UsersGoFirst` excepts, after a fault, the tasks of a failed batch and the consumers
  of a connection that was given up open. `RunnerApp.run` closes pool and engine
  (`app.py:263`) without waiting for either.
* `ServedOrEnded` excepts a deleted queue that the client's cache no longer has. The
  client clears the cache when it opens a new channel (`rabbitmq.py:74`), so a ping covers
  the queues declared since then and not, as its docstring says, the consumed ones; the
  loop then goes on without a consumer.
* `EveryReplySettles` excepts a task that was soft-deleted before the reconciler saw it
  (`storage.py:197`).
* `LedgerMovesForward` excepts a process that read the ledger before another one
  wrote it. An installation is serialized by the new key of the plugin, an upgrade
  is not: two processes can both apply a changed file, or the older release last.
  A file that is skipped under a higher order does not raise the order of the
  ledger (`schema_utils.py:199`), so that order can be used again with other content.
* `PreviewHolds` leaves out what a dry run does not read: SQL templates and
  entrypoints. A worker may refuse a tree after its SQL was committed.

### Bounds

* Two workers: every hazard above is a race between the process that holds a row,
  message or claim and one other. A third adds no new kind of step.
* One root with two subtasks: the rules about subtasks look at one subtask and the
  rest of its siblings; blocking and non-blocking, linear and cyclical occur.
* `MaxExecutions` 2 for the cyclical row: one iteration below the cap and one at it.
* `MaxFaults` bounds all faults of a behaviour together. Two faults cover a fault
  during the recovery from another one; `recovery` has one, which its liveness
  property allows within minutes. Faults cost no time: a crash may hit
  every point between two calls.
* `TasksLimit`, `MaxConcurrent` and `ClaimLimit` 2 against at most three rows: the
  limits are met. `recovery` has a linear blocking subtask and
  `MaxConcurrent` 1: a batch that fails leaves a row waiting for its slot.
* Batches left behind: one spare worker in the first process (`FirstHasSpare`). A second
  batch of the process would be one more worker without poller; the second process can
  lock what the first one's orphans execute. A second failing call within a batch left behind needs a second fault: only the proofs
  of `TerminalRowsStay`, `SubtasksHaveOneResult` and `CancelledForAReason` cover it.
* Queues: two, and the drafts name none, an empty list (no routes, so the row is
  skipped) or both. `MaxAttempts` 2: one retry, then FAILED.
* `MaxDeliveries`: with cap 3, one fault and two bounces no message reaches the 7 of
  `ingress`; in `ingress_death` (6) it is reached. `MaxBounces` 2 stands for a number
  that has no bound in the code.
* `lifecycle`: two queues are needed for a channel that is lost while others consume,
  `Limit` 2 for a failure that is counted and one that ends the runner, three faults
  for a fault in the restore of a restore.
* `startup`: `MaxId` 3 lets two rows collide with a third; the releases contain an
  upgrade, a changed file without a new order, and a plugin without files; the
  shapes of the one plugin are all combinations of the verdicts, next to a plugin
  whose schema clashes with one of its names.
* `SYMMETRY` is over the identical processes, in runs without liveness.

### Fairness

`FairSpec` of `TaskWorkers`: every coroutine is scheduled and its call returns, the
loop of `RunnerDB.execute` goes on, time passes (`Due`, `HeartbeatExpires`), and a
process that ended is started again (systemd, compose or the like, which the
deployment documents presuppose). It is weak fairness throughout; faults and
operators are never forced. That a pipeline returns is an assumption on plugins:
the library has no timeout on a step. `FairSpec` of `Outbox`: the loop of
`BrokerRunner.execute` goes on, publish returns and leases end. `FairSpec` of
`Ingress`: queues deliver, and a handler goes on because
`INGRESS_HANDLER_TIMEOUT_SECONDS` ends it otherwise. `FairSpec` of `RunnerApp`: the
event loop runs each task and timer, aio_pika restores the consumers of a connection
it has, and a connection without heartbeats is given up; a batch need not end, the
broker need not come back, and nobody needs to stop the process. `FairSpec` of
`Startup`: a command goes on, a lock is granted once it is free, and a failed command is
run again.

## 4. What is proved

All with TLAPS, for every value of the constants that the named assumptions of the
modules admit. Every invariant and every action property of a passing run is stated by
a theorem. Where a theorem needs more than those assumptions, it says so in its
statement, and the reason is a behaviour of the code that section 3 lists:

| Condition | Theorems | Without it |
|---|---|---|
| `InsertsOnce` | `RootsSettle`, `WorkersImplementBoard`, `VerdictsStayRight` | a root is closed over a subtask inserted after the count |
| no `"late"`, no `"abort"` | `RootsSettle`, `WorkersImplementBoard`, `RootsAreLeased`; `VerdictsStayRight` without `SpawnIdempotent` | a late or orphaned execution of a root inserts subtasks while another one is counted or closed |
| no `"stop"`, no `"late"`, no `"abort"` | `LeaseHolds`, `OneExecutor`, `MissedStartStoresNothing`, `IterationsBounded`, `IterationsCounted` | a stop, a late heartbeat or a failed batch gives a row to a second worker (`start_miss`) |
| no `"pause"`, no `"dberror"` | `CancelledForAReason` | a pause, or a poller that fails, cancels a row |
| `Faults = {}` | `WaitingRootsAreClosed` | the last open subtask is cancelled or its worker dies (`pause_waiting`) |
| caps are not 0 | `IterationsCounted` | the row is executed before its cap is read, so `max_executions` 0 means one execution |
| `HookedEverywhere` | `SkipsAreWhole` | a process without hooks skips a half-published row |
| `NoDeathCounts` | `DroppedAfterTries`, `NoEndlessRedelivery` | an `x-death` count does not grow (`ingress_death`) |

`InsertsOnce` is `SpawnIdempotent`, or `SpawnOnce` where no stop and no crash makes a root run
again. The other theorems hold under all faults of their modules; `TerminalRowsStay`,
`SubtasksHaveOneResult` and `TypeCorrect` therefore also for late heartbeats and batches
left behind.

### The task table

* `TaskProofs`: `TypeCorrect`, `TerminalRowsStay` and `SubtasksHaveOneResult`. Every step
  of the system is one statement of the store or none (`NextIsStoreStep`), and every
  statement that changes a status leaves terminal rows alone. A second result needs a
  row that is not terminal after the first, which only a cyclical row or a root is.
* `TaskRollupProofs`: `RollupInvariant` and from it `RootsAreLeased`,
  `VerdictsStayRight` and `RootsSettle`. `SettledRoots` alone is not inductive: a close
  writes what an earlier count decided. `VerdictsHold` says that the decision is still
  right: no subtask becomes open again once all are terminal, and no new one is
  inserted. For `VerdictsHold` alone a step that looks for earlier subtasks is enough
  (`IdempotentVerdicts`, under all faults); otherwise, and for a root that closes without
  any subtask, the latter needs `RootLease`: a root that is not held any more is in
  nobody's batch, so nobody inserts for it. `RootLease` holds however often a root inserts
  (`RootInv`), and no execution but the first inserts at all under `InsertsOnce`
  (`FirstSpawns`). `CyclicalRootsAreAlone` and
  `BatchRowsExist` complete the invariant.
* `TaskBoardProofs` rests on `CallsFollowRows`: the row that a coroutine stored still
  explains the call it makes next, because a terminal row stays.
  * `CancelledForAReason` adds `NobodyCancels` (no cancel event is set): then only the call
    after a blocking failure cancels, and that failure stays in its row.
  * `LeaseHolds`, `OneExecutor`, `MissedStartStoresNothing`: `LeaseInv`. `Exclusive` alone is not
    inductive, since nothing in it keeps a row that is executed from being locked.
    `LeasedTo` says what a row in flight is: terminal because a sibling cancelled it, or
    QUEUED or RUNNING with a heartbeat in time and the count its worker read.
    `OneFlight` counts a row as in flight until its result is stored, longer than
    `Executing` does, so that no second worker stores what the first computed.
  * `IterationsCounted` adds `IterationsLeft`: a cyclical row that can still be executed is
    below its cap.
  * `WaitingRootsAreClosed`: `CalmInv`. A subtask whose worker finished has told its root, or
    its worker is on its way. Of two that end at the same time, the one whose count
    comes last sees both (`FailuresArrive` for blocking failures).
  * `WorkersImplementBoard`: every step of the workers maps to a step of `TaskBoard` or to a
    stutter (`BoardInv`). The close of a root is the interesting one: the verdict was
    taken earlier, from subtasks that may since have been deleted, and these are the
    ones `TaskBoard` lets the decision look back at (`VerdictExplained`).

### Outbox and ingress

* `OutboxProofs`: `OutboxTypeCorrect`, `RepliesAgree`, `SentIsDelivered` and `FinalRowsStay` from
  `OutboxInv`: `Fence` (a claim token never exceeds the row's, and at most one publisher
  holds the current one), `StoredReply` (whoever is past the store sends what the row
  has) and `Delivered` (what the queues before `next` have received).
  * `FailedIsExhausted`: the attempts of a row change only with the status that goes with
    them, although late publishers run the same update.
  * `SkipsAreWhole`: `SkipsNothing`. A publisher that is about to skip a row holds the current
    claim and found no stored reply, so nobody sent anything.
  * `DuplicatesAreClaims`: `CopiesCounted`. Copies are counted by the pairs of a claim
    and a position of the queue in the reply that were used up: no claim still has a
    used pair ahead of it, so each copy uses a new one.
* `IngressProofs`: `IngressTypeCorrect`, `OneTask`, `AckedIsStored`, `OutIsAnswered`. A
  handler that is about to ack has seen its task; handlers belong to different
  deliveries, none later than the last, and a message that is out has the handler of
  its last delivery.
  * `DroppedAfterTries`: `TriesInv`. Every delivery but the last has cost a call of the
    plugin, a bounce or a fault; a handler that drops belongs to a delivery at the cap.
  * `NoEndlessRedelivery`: `CapInv`. A message that is in its queue, or may get there without
    a fault (`Returnable`), has room for one more delivery.

### The process

* `ProcessProofs`: `ProcessTypeCorrect`, `PoolOutlivesUsers`, `NoConnectionIsLeftOpen`,
  `BatchGivesRowsBack` and `ProcessRefines`. `UsersGoFirst` needs to know where consumers can
  be: only with a client that `execute` holds (`ConsumersAreHeld`), which `__aexit__` has
  disconnected before `run` closes the pool (`Phases`), and that stray tasks and the
  consumers of a given-up connection come from a fault (`LeftByFault`). `ConnectionIsKnown` says that
  `Connect` never overwrites a connection. `ProcessRefines` is the safety part of
  `ImplementsProcess`: initial states and steps map to those of `WorkerProcess`.

### Startup

* `StartupProofs`: `StartupTypeCorrect`, `FirstInstallOnce`, `LedgerGoesForward`, `RepairSuffices`
  and `PreviewIsKept`, for any number of processes, any trees, commands and earlier
  ledgers. The invariant of the first (`Inv`) is `Locked`: a plugin without key has no ledger
  entry and was never installed, and a process that read an empty ledger holds the key
  of its plugin, which one process can do. `OneInstall` alone is not inductive: nothing
  in it says why no second process gets past the read.
  * `LedgerGoesForward`: `Decided`. A process that is about to apply a file decided so from
    the ledger as it is now, or from one that was overwritten since.
  * `RepairSuffices`: `Repairs`. While a process is undisturbed, what it read is still the
    highest id, then the sequence is right behind it, and then its row is beyond all others.
  * `PreviewIsKept`: `Previewed`. What is left of a plan is part of the plan of the tree, and
    what `DryRunIsSound` says of the tree excludes the failures it could foresee.
* `PluginPlanProofs`: `DryRunIsSound`. The registry of the worker is a loop over the
  tree. What holds at every position is proved without induction on a predicate: among
  the positions where it would fail there is a first (`FirstPosition`, from
  the well-founded order of finite sets), and the loop's step contradicts it.

### Only model-checked

* Liveness, which needs fairness and ENABLED: `EveryRowSettles`, `BlockingFailureReachesRoot`,
  `NoRowStranded`, `EveryReplySettles`, `EveryMessageEnds`, `ServedOrEnded`,
  `DeploymentComesUp`, and the liveness part of `ImplementsProcess`.
* The three runs that expect a violation. Their properties, `StartMissLeavesRow`,
  `WaitingHasCloser` and `DeliveriesAreCapped`, are proved under the condition of the
  table that each run gives up.

## 5. Abstractions

* A statement or a transaction is one step. PostgreSQL runs at READ COMMITTED; the
  statements that matter lock the rows they change, and `SKIP LOCKED` is the choice
  of any subset.
* Payloads, results, headers, log lines and times are left out. `reply` is a body
  of a small set.
* A round of the poller is one step: its reads of the flags and its heartbeat are
  not interleaved with other workers. A round that is under way when the
  worker stops is dropped.
* In `TaskWorkers` the drain timer that cancels a runner before it requeues is a
  `Crash`, and the retry after an identity-sequence collision is inside the insert;
  `RunnerApp` and `Startup` have them step by step.
* In `RunnerApp` the work of one round of the broker loop is one step: `Outbox` has
  what it does. A batch is what becomes of its rows. A connection that was opened
  but not yet handed to the client when its task is cancelled is not followed.
* `RunnerApp` keeps one flag for the tasks that failed batches left behind and one set for
  the consumers of given-up connections, which end together.
* What aio_pika restores on its own is taken from its documentation (external).
* In `Startup` the verdicts on a manifest, an SQL file and an entrypoint are inputs;
  Alembic is one read and one transaction; the statements of a plugin file are one
  step; one identity sequence stands for all. The history variables `installs`,
  `quiet` and `why` record what the properties speak of and guard nothing.

## 6. Plan

Done: the task table with its workers, the outbox, the ingress, the worker process
with the broker loop, the start of processes with migrations, identity sequences and
plugin trees, and theorems for all their safety properties. Next:

1. Weaker conditions: `Exclusive` and `SettledRoots` for the rows that no stop and no late
   heartbeat touched, instead of for behaviours without them, and likewise for failed batches.
2. Ingress, task table and outbox together: a message becomes at most one task and
   one reply body.

Not modelled: the splitter and the template of plugin SQL character by character, the
import mechanics of entrypoints, hashing and scaffolding of plugin directories, the
check of `settings.db_schema` (one schema is configured), `ensure_worker_settings` (one
idempotent insert), the construction of clients and pipelines from settings; HTTP,
SQLite and PostgreSQL clients (wrappers that plugins call), settings and logging.
None of them holds state that two actors share.

## 7. Running

```
tlc -config storm.cfg MCTaskWorkers
tlc -config outbox.cfg MCOutbox
tlc -config ingress.cfg MCIngress
tlc -config lifecycle.cfg MCProcess
tlc -config startup.cfg MCStartup
tlapm TaskBoardProofs.tla
tlapm OutboxProofs.tla
tlapm IngressProofs.tla
tlapm ProcessProofs.tla
tlapm StartupProofs.tla
```

# Formal models of the distributed task execution engine

TLA+ models of the engine in `server/`, the runs that check them with TLC, and
proofs checked with TLAPS. Paths below are relative to the repository root; the
line numbers each definition stands for are in `PROJECT.json` under `map`.

## 1. The system

One `api` process and one (by the README, in future several) `worker` process
share MySQL, which holds the truth, and Redis, which holds what can be rebuilt.

| Part | State | Operations | Talks to |
|---|---|---|---|
| Task table (`repositories/task.repository.ts`, `migrations/001_init.sql`) | one row per task: status, attempts, worker_id, lease_expires_at, updated_at | one guarded or unguarded `UPDATE` per transition | everybody |
| Task service (`services/task.service.ts`) | none between requests | create, cancel, manual retry, dashboard reads | table, ready queue, event bus |
| Ready queue (`engine/ready-queue.ts`) | a sorted set per client, the set of active clients | enqueue, pop, remove, list; each atomic | Redis |
| Fair scheduler (`engine/fair-scheduler.ts`) | deficits, weights, the client whose turn it is | nextClient, reset, setWeights | dispatcher |
| Dispatcher (`engine/dispatcher.ts`) | the tick in progress | pick client, pop, claim, run | scheduler, queue, table, executor |
| Task executor (`engine/task-executor.ts`) | heartbeat timer | execute, cancel, onSettled, renewLeases | pool, table, recovery |
| Worker pool and threads (`engine/worker-pool.ts`, `engine/task-runner.ts`) | slots, cancel timers, a thread per slot | run, cancel, settle, replace, kill | executor |
| Task recovery (`engine/task-recovery.ts`) | backoff timers | retryOrDeadLetter, enqueueAfter | table, queue |
| Lease reaper (`engine/lease-reaper.ts`) | the batch of a sweep | sweep | table, recovery |
| Reconciler (`engine/reconciler.ts`) | the snapshot of a pass | reconcile | table, queue |
| Event bus, SSE hub, progress store, web store (`events/`, `lib/progress-store.ts`, `web/src/stores`, `web/src/hooks`) | channels, connected clients, progress keys, the browser's task map | publish, subscribe, broadcast, hydrate, apply | Redis, browser |
| Rate limiter (`lib/rate-limiter.ts`) | a sorted set of attempts per client | check | Redis, HTTP layer |
| Migrator (`lib/migrator.ts`) | the tables and `schema_migrations` | runMigrations | every process that builds the api's container |
| Task types (`engine/task-type.registry.ts`, `shared/src/task.schema.ts`) | none | validatePayload, planExecution | task service, threads |
| HTTP layer and wiring (`routes/`, `middlewares/`, `container.ts`, `server.ts`, `worker.ts`) | requests under way, open streams, the state of the server | boot, listen, the chain of a submission, stream, shutdown | all of the above |
| Seeding, analytics, web components | none relevant to the engine | | |

What is hard about it, with the line where it bites, is the `hazards` list of
`PROJECT.json`. In short: every handler is a chain of awaits over two stores with
no transaction between them; rows are read, decided upon and written in different
steps, and two of the writes (`markTerminalFailure`, `releaseForRetry`) have no
status predicate; timers, popped tasks and outcomes live only in memory; leases are
judged by a clock; and three repair mechanisms (thread exit, reaper, reconciler) run
beside the normal path and beside each other.

What makes the engine correct:

* a task runs in one place at a time, and only while its row says so;
* a row leaves a status only along the edges of the status machine;
* at most `max_attempts` claims between manual retries;
* no submitted task is lost: whatever crashes or fails, it ends;
* each client gets its weight's share of dispatches, and its best task first;
* a task handed to the pool settles once, with its own outcome, and the pool keeps its
  size, whatever its threads do;
* at most the configured number of submissions is admitted in any window of a client;
* what the api answers is so, and what it accepts can be run;
* no process works on half a schema, whoever migrates and dies between two statements;
* a viewer's picture converges to the table.

## 2. Modules

| Module | Models |
|---|---|
| `TaskTable` | the columns the engine decides by and every statement that writes them |
| `TaskEngine` | api requests, dispatcher, pool, settling, recovery, reaper, reconciler, Redis entries, crashes |
| `TaskLifecycle` | the abstract status machine `TaskEngine` implements |
| `MCTaskEngine`, `MCDispatchLoop`, `MCWorkerPool`, `MCApiServer` | constants for TLC |
| `TaskEngineProofs` | theorems about `TaskEngine`, any number of workers |
| `TaskEngineSafety` | theorems about `TaskEngine` with punctual leases and one worker, or several and no failures |
| `FairScheduler` | deficits, weights and turn; `nextClient`, `reset`, `setWeights` |
| `FairShare` | the scheduler with every client backlogged, as its tests use it |
| `ReadyQueue` | sorted sets, scores, the registry of active clients; each script |
| `DispatchLoop` | `ReadyQueue` and `FairScheduler` joined by the dispatcher's tick |
| `FairShareProofs`, `DispatchLoopProofs` | theorems about the two |
| `TaskRunner` | a thread: its commands, its ticks, the flag that stops it, its messages |
| `WorkerPool` | the pool around the threads: slots, timers, events, replacement, kill, shutdown |
| `PoolSlots` | the abstract slots `WorkerPool` implements and `TaskEngine` uses |
| `WorkerPoolProofs` | theorems about `WorkerPool`, that it implements `PoolSlots` among them |
| `TaskTypes` | schemas, profiles and what a payload makes of a run; pure operators |
| `RateLimiter` | the log of attempts and its clock |
| `Migrator` | files, statements, recorded names, concurrent boots |
| `ApiServer` | the api process and its requests, joining the three above |
| `RateLimiterProofs`, `ApiServerProofs` | theorems about `ApiServer` |
| `LiveView` | rows, handlers that publish them, event stream, snapshots, the browser's map |
| `LiveViewProofs` | theorems about `LiveView` |

`TaskEngine` is the middle of it. `DispatchLoop` refines its choice of a task,
`PoolSlots` states what its pool does, `LiveView` watches rows that move as
`TaskLifecycle` says, and `ApiServer` decides which submissions reach it.

### TaskTable

One function per column. `status` has the extra value `absent` (no row yet);
`lease` is `none` (NULL), `live` or `expired`; `settled` says that `updated_at` is
older than the reconciler's settling period. A statement is an operator over these
functions with the `WHERE` clause as its guard, or, where the caller ignores the
number of affected rows, as an `IF` whose other branch leaves the row alone.

### TaskEngine

The grain is one statement or one Redis command per step. What a process remembers
between two awaits is a variable:

| Variable | Code |
|---|---|
| `stage[r]`, `subject[r]` | the next statement of an api request and its task (`create`, `cancel`, `retry`) |
| `popped[w]`, `claimed[w]` | `taskId` after the pop, `row` after the claim, in `Dispatcher.tick` |
| `slot[w][s]`, `asked[w][s]` | `Slot.task`, `Slot.cancelTimer` |
| `jobs[w]` | running calls of `onSettled` and rows of a reaper batch, each with `row.attempts` as it was read and the statement to perform next |
| `timers[w]` | the closures of `enqueueAfter` |
| `toRestore[w]`, `unread[w]` | the reconciler's snapshot and the clients whose queue it has not listed |
| `ready` | ids that have an entry in a ready queue |
| `control[w]` | `task.cancel` messages under way to a worker |
| `up[w]` | the process runs |

Modelling decisions:

* The choice of the next task is left open (`Pop` takes any entry): what holds here
  holds for every scheduler and every score.
* A thread ends its task with one of four outcomes. A retryable failure and a crash
  take the same path and are one outcome, `failed`. `cancelled` needs a stop request
  in that slot; the other outcomes stay possible after one.
* A failing statement, a lost reply and a thrown error are one action per process
  (`RequestError`, `DispatchError`, `SettleError`, `SweepError`, `TimerError`,
  `ReconcileError`), enabled between any two steps; each forgets exactly what the
  code's `catch` forgets. The death of the api process is a `RequestError` of every
  request.
* `Crash` is the death of a worker. `SIGTERM` has the same effect on the stores: the
  shutdown abandons timers, outcomes and threads, and the steps it still performs are
  steps the model may take before the crash.
* A statement that a dying process had sent is taken as performed before the crash or
  not at all.
* Of the clock only this remains: `LeaseLapses` and `RowSettles` happen some time
  after the write they count from. With `Punctual = TRUE` a lease does not lapse
  while a live process works on the task (heartbeats every 15 s against 60 s, and
  outcomes recorded within the rest), and a row does not settle during a backoff or
  between pop and claim (at most 4 s against 10 s). `Punctual = FALSE` drops both.
* `Environment` says what may happen around the engine: `cancel`, `retry` (clients),
  `crash`, `flush` (Redis restarts empty), `error`. Submissions are always possible.
* `Sweeps` are the reaper sweeps of one worker that may overlap. A sweep normally
  ends within its interval, so the runs use one; rows of its batch are handled one
  after the other, in any order (the code's order is by lease).
* One request at a time in the runs. A request may stop at any point for ever, so
  this bounds only the overlap of two requests with each other.
* `LIMIT 50` of the reaper's query is not reached with the tasks of a run.

### TaskLifecycle

Status and attempt counter of each task, one action per edge: submit, start (spends
an attempt), withdraw, ask to stop, end (completed, failed, cancelled), try again,
give up (only with a spent budget), revive (manual retry, a fresh budget). It has the
two edges the drawing in `ARCHITECTURE.md` lacks because the code takes them: a
cancelling task may complete, fail or be requeued when its attempt ends first, and a
running task may end cancelled when a stop request meant for one attempt reaches the
next.

### FairScheduler, ReadyQueue, DispatchLoop

`NextClient(list, c)` is a call of `nextClient(list)` that returns `c`. The loop over
the list is not stepped through: `Visited` are the clients it reaches, in the order
`Ahead`, and each of them is granted its weight. Clients are numbers, in the order the
code sorts ids. Credits are whole hundredths of the weight column, so arithmetic is
exact where the code adds floating point numbers (the seeded weights, 1 and 2, are
exact there too). Weights are positive; the column has no such constraint, and a
client of weight zero would never be served.

The choice of the client is one step with the `SMEMBERS` before it, because nothing
else touches the scheduler between the two; the pop is a step of its own. A pop may be
lost before or after Redis has performed it. `Submit` stands for everything that
enqueues (submission, retry, release, reconciler) and takes any priority and time,
since those paths pass the time of the submission, of the retry or of now; `row`
remembers its arguments. `ReadyQueue` keeps one set of entries; the queue of a client
is the part of it that belongs to its tasks. `TaskEngine` leaves the choice of the
entry open and so covers every choice made here.

`FairShare` counts dispatches (`served`) and grants (`rounds`) beside the scheduler.

### TaskRunner, WorkerPool, PoolSlots

The grain is one callback. `thread[h]` has the two message queues between the process
and the thread, the task in work and the one `cancelled` flag a thread has for all the
tasks it will ever run. A tick that does not end the task changes nothing here.

A `Slot` object outlives its place in the array: the handlers of a replaced thread
still hold it. So slots are named by their thread, `slot[h]`, and `slots` is the array.
`Slot.cancelTimer` is the task it was set for (`timer`), since that is what its callback
compares with the slot.

A thread that `terminate()` was called for works on until it stops, between any two of
its steps, and its messages arrive before its exit event (Node drains the port first).
An uncaught error gives an error event and then an exit event. `KillBusy` is the
deliberate kill of `/api/dev/kill-worker`; by the time it takes effect the thread may
have been given its next task, which then crashes.

Left out: a tick of the dispatcher that is in flight when the pool shuts down. A
replacement needs an id of `Threads` that was not used, so `Spare` lets nothing happen
to a thread unless ids are left for all replacements under way.

In `PoolSlots` a slot takes a task, may be asked to stop, and reports one outcome,
`cancelled` only when asked. That is all `TaskEngine` assumes of its pool; there a
crash and a retryable failure are one outcome.

What came up, and is modelled as it is: an error event that arrives after the grace
timer replaced the thread replaces it again (`worker-pool.ts:138` does not ask
`terminating`). The array is not changed by that, as the thread is not in it, but a
thread without a place is started, which nothing uses and nothing ends
(`worker-pool.ts:191`). That takes two spare threads for one place, one more than the
run has. The checks of the slot's task in the timer's callback (:95) and
of the message's task (:155) are never decisive.

### TaskTypes, RateLimiter, Migrator, ApiServer

`ApiServer` extends the other three: their actions are steps of its requests and boots.

A body is what its validation tells apart: type, priority, duration, failure rate, and
whether the remaining fields fit the schema of the type. `Durations` are the outcomes
`planExecution` may draw, none where it throws.

In `RateLimiter` a stamp and the transaction that records it are one step, because one
api sends its transactions over one connection in the order of their stamps; the
decision is in that step as well, since it follows from the reply. Taking back the entry of a
rejected attempt is a step of its own, and the answer, with the time `Retry-After` is
made from, another; `Abandon` is the death of the api before either. `Pass` is the clock,
which also makes Redis drop a set whose time has come. Every attempt is checked before
its body is, so that invalid bodies use up the limit.

In `Migrator` a file is a sequence of lines, a line a comment or a sequence of text and
semicolons, and `SplitStatements` counts what the code would send. A statement is a
step, and so is the insertion of the file's name; a name already there (a primary key)
fails the boot. Statements are idempotent (`IF NOT EXISTS`, `ON DUPLICATE KEY
UPDATE`), so to apply one twice changes nothing. The seed script builds the same container as the api
and so migrates beside it: `Processes`.

`request[r]` is how far a request came in the chain key, limit, schema, controller.
From the row on it is `TaskEngine`'s; here it is followed to its answer, which is 500
where Redis fails although the row stays and the reconciler will find it. `Die` ends a
process at any time, `Terminate` is SIGTERM, and `Exit` the callback of `server.close`,
which waits for every connection. Of the seed script only the boot is here; the rows it
makes are submissions that skip the limiter.

### LiveView

`MoveRow` moves a row along an edge of `TaskLifecycle` (an instance of it is used) and
leaves a handler behind, which reads the row back, clears the progress where the code
does, and publishes, each in a step. Handlers overlap freely: two may publish the same
row in the wrong order. Progress is set and published by steps of their own; both go
over the one connection of the worker as `clear` does, in order, and that is why no
progress of an attempt is published after its end (`Clear` waits for `reports`).

The browser fetches a snapshot whenever the stream opens. The snapshot is two selects
and a read of the progress keys; while it is on its way events are applied. There is no
sequence number: `moved`, the stamp of the row's last move, is the model's. `excuse` is
a history variable that says what went wrong with a row since the stream opened: an
event about it was lost between the database and the open stream (the api was not
subscribed, or the handler died), or an older state was shown after a newer one. An
excuse ends when the row is shown as it is and nothing about it is under way, and when
the stream opens again, because the new snapshot has to make up for whatever was missed.
It is kept across an open only while a progress of the row is still to be published.

The repository calls the refetched snapshot correct by construction
(`use-task-stream.ts:18`, `ARCHITECTURE.md:415`). Stated without excuses, that is
`ViewIsCurrent`, and `live_overtaken` refutes it with nothing lost and nothing failing.
`ViewCatchesUp` states what is left of it: those two things are all that can go wrong,
and each open repairs them. An older snapshot that overwrites a newer event, handlers
that publish one row in the wrong order and a gap in the api's subscription are thus
errors that last until the row's next event or the next open. A fetch that fails is not
tried again while the stream stays open; the properties then say nothing (`hydrated`).

The two selects are not one snapshot: a task that starts over between them can be in
neither. The second select and the read of the progress keys are one step, and an
attempt reports progress once. Left out: the workers' statistics, and threads that report after their lease
has lapsed.

## 3. Runs

All bounds are the constants of the `.cfg` files. `MaxAttempts = 2` (4 in the code)
is the least that has a retry and an exhausted budget.

| Run | Instance | Shows |
|---|---|---|
| `engine_one_task` | 1 worker, 2 slots, 1 task, everything may happen | `WorkIsOwned`, `OneExecution`, `RetryBudget`: with one worker and punctual leases the unguarded updates never hit a row that has moved on; `LeaseIffHeld`; `ImplementsLifecycle`; `EventuallySettled` under fairness |
| `engine_late` | 1 worker, 1 slot, 1 task, cancel, crash and failing statements, leases lapse at any time | `LeaseIffHeld` when a task is put back under its first thread, whose heartbeats and outcome come late or never; `SlotForClaimed` when the task competes with that thread for the slot |
| `engine_two_workers` | 2 workers, 1 task, cancel and retry, no failures | `OneExecution`; `NothingStranded`: without failures neither reaper nor reconciler is needed |
| `fair_share` | 3 clients, 5 weights around `Cost = 4`, 12 grants each | `ProportionalShare` |
| `dispatch_loop` | 2 clients, 3 tasks, 2 priorities, 2 times, weights of half and of one dispatch, everything may happen | `Registered`, `BestFirst`; `GetsTurn` under fairness |
| `pool` | 2 places, 3 threads, 3 runs of 2 tasks (the first comes again), cancel, kill, errors, shutdown | `PoolKeepsSize`, `OneRunPerThread`, `OutcomeIsOwn`; `ImplementsPoolSlots`; `EveryRunSettled` under fairness |
| `api` | 3 requests of a client with good and bad bodies, limit 1, window 2, clock to 5, api and seed script, the two files of `server/migrations` in outline, 1 stream, 2 boots | `AtMostLimit`, `RejectedLeavesLog`, `NothingRemembered`, `RetryAfterServes`; `RecordedIsApplied`, `MigratedIsComplete`; `AnswersAreTrue`; `StopsUnlessWatched` under fairness |
| `live` | 2 tasks, one at rest, rows starting in any status, 2 moves and 2 troubles, 3 in all, 2 handlers, 2 snapshots at a time, 1 recent task kept | `ViewCatchesUp`, `OnlyOldEvicted` |
| `live_overtaken` | as `live`, 2 moves, no trouble | see below |

Two slots matter: a task can only run twice on one worker if a second slot is free.
Two workers with one task have every race between workers over a row; more tasks add
contention for slots only. The state graphs are explored completely.

`MaxRounds = 12` lets the least weight earn three dispatches; the theorem has no such
bound. `MaxDeficit` cuts off the unbounded credit described below; with weights of
at most one dispatch, as in `dispatch_loop`, it is never reached. Two tasks of one
client are what an order needs. Weights above one dispatch, which let a client keep its
turn, occur in `fair_share` only.

`pool`: three runs put a late event, timer or flag of the first run beside the second
run of its thread and the second run of its task. One spare thread is one replacement, after which nothing more is made to happen to a
thread.

`api`: with a limit of one, two overlapping attempts are one too many, and the third is
there to be rejected because of the second. The clock runs to two windows and a half.
`Boots` counts the starts of both processes; a third would repeat the second. One
comment of the second file has a semicolon, as in `002_seed_clients.sql`. The theorems
have no bounds.

`live`: two moves of a row are what a wrong order needs; the task at rest is what
eviction needs. Two troubles are one that loses an event and one that breaks the stream,
which shows the repair. Rows start anywhere, so that each pair of edges occurs; one that
has not ended starts with the older stamp, because only tasks that have ended are compared
with each other.

Batches of several rows with retries left are not explored by TLC: `BudgetRespected` and
`WorkAlwaysOwned` hold for any number of tasks.

`CHECK_DEADLOCK FALSE` appears where nothing can crash and no manual retry is
possible, or heartbeats alone remain: an engine whose tasks have all ended is idle. In
`fair_share` the bound on rounds ends every run.

**Fairness** (`FairSpec`): the loops, intervals and timers of a worker keep running
and a thread ends its task (`task-runner.ts` sleeps a bounded number of ticks, and
a crash is an end too), a dead worker is restarted by its supervisor, leases lapse and
rows settle. All of it is weak fairness, because each of these stays possible until it
happens. Nothing is assumed of api requests. `EventuallySettled` is conditional on
crashes, flushes and errors ceasing. Pops are fair as a whole, not per task, so with
several tasks the property would need the scheduler, or that manual retries cease.

`WorkerPool` and `ApiServer` assume one thing each: while a process has anything to do,
it does something (one weak fairness condition on `Proceed`). That is the event
loop. It is not said what comes first, nor is anything assumed of callers, of the
supervisor (`docker-compose.yml` restarts nothing) or of browsers. `StopsUnlessWatched`
has its exception for that reason: `server.close` waits for event streams, which only
`container.shutdown` behind it would end (`server.ts`). `LiveView` has no liveness
property and no fairness: its properties speak of states in which nothing is under way.

`DispatchLoop` assumes that the loop ticks and that each pop is answered, by a task or
by nothing (`Choose`, `Pop \/ PopEmpty`); nothing of submissions.

### Disagreements

| Run | What the repository says | What the run shows |
|---|---|---|
| `engine_cancel_retried` | `ARCHITECTURE.md:394`: a cancellation is not retried | `cancelling` goes back to `queued` when the attempt fails before the thread stops, or the stop message falls between claim and `pool.run` |
| `engine_two_reapers` | `README.md:294`, `ARCHITECTURE.md:470`: safe for several workers | two reapers release one row twice; it runs on two workers |
| `dispatch_starved` | `fair-scheduler.ts:41`, `ARCHITECTURE.md:223`: a stable rotation from a cursor | the cursor is a client that may have left the list; the rotation restarts at the first client and two clients starve a third of equal weight |
| `live_overtaken` | `use-task-stream.ts:18`, `ARCHITECTURE.md:415`, `event.controller.ts:9`: the snapshot refetched at every open is correct by construction | a snapshot selected before an event is hydrated after it and replaces it: a task is missing, or in its former status, on an open dashboard with nothing under way |

The same restart lets one of two clients starve the other with cancellations: `reset`
clears the cursor, and a client that submits and cancels in the right moments is always
first. That is why `GetsTurn` is conditional on cancellations ceasing.

Not run, but met on the way:

* `task.repository.ts:250` says a task in backoff is absent from Redis. The reconciler
  works from a snapshot (`reconciler.ts:63`): it can put back a task that is being claimed,
  and the entry is still there when the attempt fails, so that the next starts without
  its backoff. The entry may also be popped while the task runs: a claim is then lost
  although nothing was cancelled (`dispatcher.ts:81` knows only that cause).
* `ARCHITECTURE.md:217` and `change-the-scheduler.md:39` say a client's deficit resets when
  its queue empties. `reset` is called when a pop finds nothing (`dispatcher.ts:72`), but
  the pop that takes the last task de-registers the client, which is then not chosen
  again: the reset is reached only when a cancellation falls between choice and pop. A
  client of weight 2 that comes back with one task at a time gains a credit per visit
  without bound.
* `task.schema.ts:18` lists `dead_letter` among the statuses a task can never leave; a
  manual retry leaves it. `TaskLifecycle` has the edge.
* Two containers that boot together race to record a file; the second one's boot fails
  on the duplicate key (`RecordTwice`), after which nothing starts it again.

## 4. Proofs

`TaskEngineProofs`, for every value of the constants (any number of tasks, workers,
slots, sweeps and requests, any environment, punctual or not):

| Theorem | States |
|---|---|
| `TypeCorrect` | `Spec => []TypeOK` |
| `LeaseOfHeldRows` | `Spec => []LeaseIffHeld` |
| `SlotAlwaysFound` | `Spec => []SlotForClaimed` |

The invariant behind the first two is `IInv`: the types, that a request at work has a
task, and `RowOK` of every row. `RowOK` is needed because `cancelIfQueued` and
`markCancelling` leave worker and lease as they are; they are right only because a
queued row has neither and a running row has both. Each statement of the table has a
lemma, all by way of `WriteOK`. `SlotAlwaysFound` rests on `HandOvers`: a dispatcher
has at most one task in hand, popped or claimed, and while it has one a slot is free.
The free slot alone is not inductive: `Run` takes the last one, which is harmless only
because the same dispatcher has nothing else in hand.

`TaskEngineSafety`, under `Punctual` and either `SoleReaper` (one worker, whose sweeps do
not overlap, in every environment) or `Reliable` (any number of workers and sweeps, no
crash and no error in the environment); the last theorem under `Undisturbed` (no flush of
Redis either). For any number of tasks, slots and requests:

| Theorem | States |
|---|---|
| `WorkAlwaysOwned` | `Spec => []WorkIsOwned` |
| `ExecutedOnce` | `Spec => []OneExecution` |
| `BudgetRespected` | `Spec => []RetryBudget` |
| `LifecycleImplemented` | `Spec => ImplementsLifecycle` |
| `EndsStay` | `Spec => [][EndKept]_vars` |
| `NothingLeft` | `Spec => []NothingStranded` |

The hypotheses are needed: `engine_two_reapers` breaks `OneExecution` with two reapers
and a crash, and a lease that lapses under a live task lets the reaper release it.

The invariant is `Safe`. `RowsAgree` says what each handler of a task (dispatcher,
slot, settlement, reaper) may rely on: the first three find the row held, by their
worker, with a live lease; the reaper finds it held with an expired one; and whoever
carries a copy of `attempts` has the current value. `Disjoint` says that a task has
one handler of a kind; live against expired keeps the reaper apart from the others, the
owner of the row keeps the workers apart. That is why an update without a status
predicate is harmless here. Two reapers are kept apart by nothing in the row, so this is
where the hypothesis enters: with `SoleReaper` there is one, with `Reliable` none.
The latter is an invariant of its own, `Steady`: a held row has a live lease and some
worker working on it, since work is only ever handed on (`Claim`, `Run`, `Settle`,
`SettleRead`) until the row is released; so `ExpiredLeases` is empty. `Fresh` (an absent
row has no attempts) is needed for the refinement only: an insertion starts a counter
at zero. Most actions are covered by `NoNewWorkOK`, which says that `RowsAgree` and
`Disjoint` survive a step that gives nobody new work and leaves the rows that are still
handled alone; the steps that hand work on and `Sweep` have lemmas of their own. For the
refinement each statement is mapped to its edge; the guards the edges add
(`attempts < MaxAttempts`, `= MaxAttempts`, held) come from `Safe`.

`EndsStay` is read off the edges: a terminal status is left only by a manual retry, so no
late outcome, cancellation or repair overwrites it.

`NothingLeft` needs, besides `Steady`, its counterpart for queued rows, `QueuedFound`: a
queued row is in its ready queue, popped, withheld by a backoff, or the subject of a
request that is about to enqueue or to cancel it. It is inductive because every step that
takes a task from one of these places puts it into the next or takes the row out of
`queued`; the case to look at is a cancellation, whose `ZREM` comes before its update and
may find that a dispatcher was quicker.

`FairShareProofs` and `DispatchLoopProofs`, for any number of clients and tasks, any
positive weights and any bounds:

| Theorem | States |
|---|---|
| `Proportional` | `FairShare!Spec => []ProportionalShare` |
| `AlwaysTyped` | `DispatchLoop!Spec => []TypeOK` |
| `AlwaysRegistered` | `DispatchLoop!Spec => []Registered` |
| `PopsBestFirst` | `DispatchLoop!Spec => BestFirst` |

The share is a statement about products of unknowns, so the invariant splits it:
`Account` (every grant is spent or still there), `Spent` (only the client that has the
turn holds more than a dispatch costs) and `Level` (grants differ by at most one, and
by one only across the cursor). `ShareArithmetic` puts the three together, from a few
lemmas on products. `Level` holds because the list does not change: it is what
`dispatch_starved` breaks. `BestFirst` rests on `ScoreOrder`, the order of the packed
scores, and on `Scored`, that an entry has the score of its last enqueue.

The assumptions are those of the modules: weights and `Cost` are positive, clients are
numbers, times are below `Multiplier` (`1e13` milliseconds is the year 2286),
`MaxAttempts`, limit and window are positive (`env.ts` demands it), every
file has finitely many statements, the null values
are not tasks or workers, slots and sweeps have different names, every task has a
client, threads and tasks are finitely many. In `LiveView` the number of terminal
tasks kept is positive, and handlers and fetches are numbers, of which the smallest free
one is taken.

`ApiServerProofs`, for any requests, bodies, clients, processes and migration files, any
limit and window, and any number of boots:

| Theorem | States |
|---|---|
| `ApiTyped` | `Spec => []TypeOK` |
| `RateIsLimited` | `Spec => []AtMostLimit` |
| `RejectionsLeaveNoTrace` | `Spec => []RejectedLeavesLog` |
| `SilenceIsForgotten` | `Spec => []NothingRemembered` |
| `RetryAfterIsTrue` | `Spec => RetryAfterServes` |
| `NamesAreTrue` | `Spec => []RecordedIsApplied` |
| `SchemaIsWhole` | `Spec => []MigratedIsComplete` |
| `AnswersHold` | `Spec => []AnswersAreTrue` |

The invariant has a part for each component. `LimiterInv`: the bound on windows
follows from two facts that are not in the property. `Remembered` says that an admitted
attempt stands in the log as long as a window that began with it lasts, the expiry of the set
included; so whoever is judged later counts it. `Expires` says whose attempt set the
expiry. `LogBounded` bounds the admitted entries of the whole log, not of a
window: that is what makes the time of `Retry-After` serve, by which the oldest entry is
out. `MigratorInv` follows each process through its loops (`BootOK`): what it read as
recorded is recorded, and before the statement it is at everything is applied, which
stays so because nothing takes a statement back. A third part, `RequestOK`, says that
rows belong to requests that were admitted and validated; `ValidIsRunnable` is the step
from a valid payload to a run of acceptable length.

`WorkerPoolProofs`, for any number of places, spare threads, runs and tasks, with
finitely many threads (the code starts them one by one):

| Theorem | States |
|---|---|
| `PoolTyped` | `Spec => []TypeOK` |
| `PoolSizeKept` | `Spec => []PoolKeepsSize` |
| `OneRunAtATime` | `Spec => []OneRunPerThread` |
| `OutcomesOwn` | `Spec => []OutcomeIsOwn` |
| `SlotsImplemented` | `Spec => ImplementsPoolSlots` |

The invariant is `PoolInv`. Its heart is `OwnRuns` and `OneThread`: whatever is with a
thread, to be begun, at work or reported, belongs to the run in its slot, and a run is
with one thread. That is why a message needs no number of its own. It is kept because
an outcome frees the slot only with the thread's last message, or else takes the
thread's place away. `Timers`, `OneSlot` and `HeardWanted` say that a slot has a timer
just when its run was to be cancelled and that a thread's "cancelled" was wanted; a
timer that outlived its task would cancel the next one. `StopsWanted`, a part of `ThreadOK`,
says the same of the flag and of the requests in a thread's inbox. `Places`, `Dooms` and
`Enough` carry `PoolKeepsSize`: a thread stops only if it was doomed, a doomed thread in
the array is still to be replaced, and there is a spare for each
replacement to come, which is an inequality of cardinalities. For the refinement each
event is mapped to what it does to the slots: a settlement frees the
slot its own run is in (`OneSlot`), and a replacement changes the thread behind a place
but not what the place holds.

`LiveViewProofs`, for any finite number of tasks, any number of handlers, fetches, moves
and troubles, any limit:

| Theorem | States |
|---|---|
| `ViewTyped` | `Spec => []TypeOK` |
| `ViewCatchesUpAlways` | `Spec => []ViewCatchesUp` |
| `OldEvictedOnly` | `Spec => OnlyOldEvicted` |

The invariant is `ViewInv`, in two halves. The first is about what is there: `Fits` says
that what a handler has read, an event carries, a fetch holds or the browser shows is the
row as of one of its moves, and as of the last one has the status of the row;
`Published` adds that nothing absent is published and that its percentage is right. The
second, `FollowUp`, is about what is still to come, for a row without an excuse.
`Due`: a handler has still to read or publish the row as it is, or an event with it is on
its way. `Followed` says that after a snapshot a row is shown as it is or is due,
`Fetched` that the fetch under way has the row as it is, unless the browser has it or it
is due; this is the gap between the opening of the stream and the snapshot. The picture
could be of the right move and still show the wrong percentage: progress of an attempt
comes without a row and is applied to whatever is shown. `Corrected` says that then
a row is still to come. It is kept because of the order at the worker, `InTime`: while the
progress of an ended attempt is unpublished, whoever settles the attempt is not past
`clear`; hence `Behind`: behind each progress of an ended attempt comes a row, or a
settlement that has still to publish one. With nothing under way nothing is due and
nothing comes, so `Followed` and `Corrected` leave only the row as it is. An open starts
all of this afresh, which is why it may end the excuses: nothing is hydrated and the
stream is empty, so only `InTime` needs an argument. A publication
that did not wait for `clear` (the mutant `ReadyAtOnce`) breaks `InTime`.

For `OldEvictedOnly` no event carries an absent row (`Published`), and of the tasks that
have ended the one that ended last is kept (`LatestKept`, for any positive limit).

Only model-checked: liveness (`EventuallySettled`, `EveryRunSettled`, `GetsTurn` and the
like), which is out of the prover's reach.

## 5. Plan

Every safety property of the runs that pass is a theorem, the deeper ones of `TaskEngine`
under the hypotheses above. Next: what is left of them for several workers *with*
failures, where `OneExecution` does not hold; and the facts behind
`FairShare` for clients that come and go, where `deficit` can be banked.

## 6. Not modelled

* Analytics, list and search queries: SQL that only reads. Components and queries of
  the web interface other than the live view keep no state that others see.
* The workers' statistics: `publishStats` writes a key that is overwritten by the next
  and read by the dashboard; nothing is decided by it.
* The rows the seed script generates, and the endpoints that pass a request on to one
  call of a service (cancel, retry, reads); `TaskEngine` starts at that call.
* Malformed messages on the channels, logging, configuration, containers, wording of
  answers.

------------------------------ MODULE TaskEngine ------------------------------
(***************************************************************************)
(* The life of a task across the processes of the engine: the api process  *)
(* (submit, cancel, manual retry), and worker processes, each running a    *)
(* dispatcher, a pool of threads, the settling of their outcomes, backoff  *)
(* timers, a lease reaper and a reconciler.  They share the MySQL table    *)
(* (TaskTable) and the ready queues of Redis.                              *)
(*                                                                         *)
(* A step is one statement or one Redis command; everything a process has  *)
(* read before it is kept in a variable, so whatever the code does between *)
(* two awaits is one step and whatever can come between them is modelled.  *)
(*                                                                         *)
(* The order in which ready tasks are popped (fair-scheduler.ts, score of  *)
(* ready-queue.ts) is left open: any ready task may be next.               *)
(***************************************************************************)
EXTENDS TaskTable

CONSTANTS
    Clients, ClientOf,   \* ClientOf[t]: client_id of task t
    NoTask,
    Slots,               \* slots of a worker's pool (WORKER_COUNT of them)
    Sweeps,              \* reaper sweeps of a worker that may overlap
    Requests,            \* api requests in flight at a time
    Environment,         \* what may happen around the engine, see Happenings
    Punctual             \* timers and settlements run when they are due

ASSUME ClientAssumption == ClientOf \in [Tasks -> Clients]
ASSUME NoTaskAssumption == NoTask \notin Tasks
ASSUME SlotsAndSweepsAssumption == Slots \cap Sweeps = {}

(* Clients cancel and retry tasks, processes crash, Redis is flushed, and  *)
(* a statement or command fails.                                           *)
Happenings == {"cancel", "retry", "crash", "flush", "error"}

ASSUME EnvironmentAssumption == Environment \subseteq Happenings
ASSUME PunctualAssumption == Punctual \in BOOLEAN

VARIABLES
    ready,        \* tasks with an entry in a ready queue of Redis
    control,      \* control[w]: task.cancel messages on their way to w
    up,           \* up[w]: process w is running
    popped,       \* popped[w]: task between the pop and the claim, or NoTask
    claimed,      \* claimed[w]: task between the claim and pool.run, or NoTask
    slot,         \* slot[w][s]: Slot.task, or NoTask
    asked,        \* asked[w][s]: Slot.cancelTimer is set
    jobs,         \* jobs[w]: recoveries and settlements between two awaits
    timers,       \* timers[w]: rows withheld from Redis by a backoff timer
    toRestore,    \* toRestore[w]: rows the reconciler may still enqueue
    unread,       \* unread[w]: clients whose queue it has not read yet
    stage,        \* stage[r]: the statement request r performs next
    subject       \* subject[r]: the task request r is about

redisVars == <<ready, control>>
dispatchVars == <<popped, claimed>>
poolVars == <<slot, asked>>
recoveryVars == <<jobs, timers>>
reconcilerVars == <<toRestore, unread>>
requestVars == <<stage, subject>>

vars == <<tableVars, redisVars, up, dispatchVars, poolVars, recoveryVars,
          reconcilerVars, requestVars>>

(* What a thread reports.  "failed" stands for every outcome that is to be *)
(* retried: TaskOutcome failed with retryable, and crashed.                *)
ThreadOutcomes == {"completed", "cancelled", "fatal", "failed"}

(* An execution of onSettled or of retryOrDeadLetter: the slot that        *)
(* settled or the sweep that found the row, the statement it performs      *)
(* next, and row.attempts as it was read ("read" has not read it yet).     *)
Jobs == [by : Slots \cup Sweeps,
         task : Tasks,
         outcome : ThreadOutcomes \cup {"expired"},
         next : {"read", "write", "schedule"},
         attempts : Nat]

\* The row a setTimeout of enqueueAfter has captured.
Timers == [task : Tasks, attempts : Nat]

Stages == {"idle", "create_enqueue", "cancel_remove", "cancel_if_queued",
           "mark_cancelling", "publish_cancel", "retry_reset", "retry_enqueue"}

Init ==
    /\ TableInit
    /\ ready = {}
    /\ control = [w \in Workers |-> {}]
    /\ up = [w \in Workers |-> TRUE]
    /\ popped = [w \in Workers |-> NoTask]
    /\ claimed = [w \in Workers |-> NoTask]
    /\ slot = [w \in Workers |-> [s \in Slots |-> NoTask]]
    /\ asked = [w \in Workers |-> [s \in Slots |-> FALSE]]
    /\ jobs = [w \in Workers |-> {}]
    /\ timers = [w \in Workers |-> {}]
    /\ toRestore = [w \in Workers |-> {}]
    /\ unread = [w \in Workers |-> {}]
    /\ stage = [r \in Requests |-> "idle"]
    /\ subject = [r \in Requests |-> NoTask]

-----------------------------------------------------------------------------
(* The api process: TaskService.                                           *)

Goto(r, s) ==
    /\ stage' = [stage EXCEPT ![r] = s]
    /\ UNCHANGED subject

Finish(r) ==
    /\ stage' = [stage EXCEPT ![r] = "idle"]
    /\ subject' = [subject EXCEPT ![r] = NoTask]

Begin(r, t, s) ==
    /\ stage[r] = "idle"
    /\ stage' = [stage EXCEPT ![r] = s]
    /\ subject' = [subject EXCEPT ![r] = t]

workerVars == <<up, dispatchVars, poolVars, recoveryVars, reconcilerVars>>

Create(r, t) ==
    /\ status[t] = "absent"
    /\ Begin(r, t, "create_enqueue")
    /\ Insert(t)
    /\ UNCHANGED <<redisVars, workerVars>>

\* Slip: the request forgets its task before it enqueues it.
CreateEnqueueLate(r) ==
    /\ stage[r] = "create_enqueue"
    /\ Finish(r)
    /\ ready' = ready \cup {subject'[r]}
    /\ UNCHANGED <<tableVars, control, workerVars>>

CreateEnqueue(r) ==
    /\ stage[r] = "create_enqueue"
    /\ ready' = ready \cup {subject[r]}
    /\ Finish(r)
    /\ UNCHANGED <<tableVars, control, workerVars>>

\* findById, then the refusals (404, 409 when terminal) and the choice of path.
Cancel(r, t) ==
    /\ "cancel" \in Environment
    /\ status[t] \notin Terminal \cup {"absent"}
    /\ Begin(r, t, IF status[t] = "queued" THEN "cancel_remove"
                                           ELSE "mark_cancelling")
    /\ UNCHANGED <<tableVars, redisVars, workerVars>>

CancelRemove(r) ==
    /\ stage[r] = "cancel_remove"
    /\ ready' = ready \ {subject[r]}
    /\ Goto(r, "cancel_if_queued")
    /\ UNCHANGED <<tableVars, control, workerVars>>

CancelQueued(r) ==
    /\ stage[r] = "cancel_if_queued"
    /\ CancelQueuedRow(subject[r])
    /\ Finish(r)
    /\ UNCHANGED <<redisVars, workerVars>>

\* affectedRows = 0: fall through and cancel it as a running task.
CancelFallsThrough(r) ==
    /\ stage[r] = "cancel_if_queued"
    /\ status[subject[r]] # "queued"
    /\ Goto(r, "mark_cancelling")
    /\ UNCHANGED <<tableVars, redisVars, workerVars>>

CancelMark(r) ==
    /\ stage[r] = "mark_cancelling"
    /\ MarkCancelling(subject[r])
    /\ Goto(r, "publish_cancel")
    /\ UNCHANGED <<redisVars, workerVars>>

\* Pub/sub keeps nothing for a worker that is down.
CancelPublish(r) ==
    /\ stage[r] = "publish_cancel"
    /\ control' = [w \in Workers |->
                     IF up[w] THEN control[w] \cup {subject[r]} ELSE control[w]]
    /\ Finish(r)
    /\ UNCHANGED <<tableVars, ready, workerVars>>

Retry(r, t) ==
    /\ "retry" \in Environment
    /\ status[t] = "dead_letter"
    /\ Begin(r, t, "retry_reset")
    /\ UNCHANGED <<tableVars, redisVars, workerVars>>

\* The row comes back non-null whether or not the predicate matched.
RetryReset(r) ==
    /\ stage[r] = "retry_reset"
    /\ ResetForManualRetry(subject[r])
    /\ Goto(r, "retry_enqueue")
    /\ UNCHANGED <<redisVars, workerVars>>

RetryEnqueue(r) ==
    /\ stage[r] = "retry_enqueue"
    /\ ready' = ready \cup {subject[r]}
    /\ Finish(r)
    /\ UNCHANGED <<tableVars, control, workerVars>>

\* A statement or command fails, or the api process dies: the rest is not done.
RequestError(r) ==
    /\ "error" \in Environment
    /\ stage[r] # "idle"
    /\ Finish(r)
    /\ UNCHANGED <<tableVars, redisVars, workerVars>>

RequestStep(r) ==
    \/ \E t \in Tasks : Create(r, t) \/ Cancel(r, t) \/ Retry(r, t)
    \/ CreateEnqueue(r)
    \/ CancelRemove(r)
    \/ CancelQueued(r)
    \/ CancelFallsThrough(r)
    \/ CancelMark(r)
    \/ CancelPublish(r)
    \/ RetryReset(r)
    \/ RetryEnqueue(r)
    \/ RequestError(r)

-----------------------------------------------------------------------------
(* The dispatcher of a worker: tick.                                       *)

FreeSlots(w) == {s \in Slots : slot[w][s] = NoTask}

\* Slip: the tick does not look at the free slots.
PopUnchecked(w) ==
    /\ up[w]
    /\ popped[w] = NoTask /\ claimed[w] = NoTask
    /\ \E t \in ready :
         /\ popped' = [popped EXCEPT ![w] = t]
         /\ ready' = ready \ {t}
    /\ UNCHANGED <<tableVars, control, up, claimed, poolVars, recoveryVars,
                   reconcilerVars, requestVars>>

\* freeSlots() is read first, but only this loop ever fills a slot.
Pop(w) ==
    /\ up[w]
    /\ popped[w] = NoTask /\ claimed[w] = NoTask
    /\ FreeSlots(w) # {}
    /\ \E t \in ready :
         /\ popped' = [popped EXCEPT ![w] = t]
         /\ ready' = ready \ {t}
    /\ UNCHANGED <<tableVars, control, up, claimed, poolVars, recoveryVars,
                   reconcilerVars, requestVars>>

Claim(w) ==
    /\ popped[w] # NoTask
    /\ ClaimRow(popped[w], w)
    /\ popped' = [popped EXCEPT ![w] = NoTask]
    /\ claimed' = [claimed EXCEPT ![w] = popped[w]]
    /\ UNCHANGED <<redisVars, up, poolVars, recoveryVars, reconcilerVars,
                   requestVars>>

ClaimLost(w) ==
    /\ popped[w] # NoTask
    /\ status[popped[w]] # "queued"
    /\ popped' = [popped EXCEPT ![w] = NoTask]
    /\ UNCHANGED <<tableVars, redisVars, up, claimed, poolVars, recoveryVars,
                   reconcilerVars, requestVars>>

\* The branch for execute() = false is dead: SlotForClaimed below.
Run(w) ==
    /\ claimed[w] # NoTask
    /\ \E s \in FreeSlots(w) :
         slot' = [slot EXCEPT ![w][s] = claimed[w]]
    /\ claimed' = [claimed EXCEPT ![w] = NoTask]
    /\ UNCHANGED <<tableVars, redisVars, up, popped, asked, recoveryVars,
                   reconcilerVars, requestVars>>

\* The tick throws: the popped or claimed task is forgotten.
DispatchError(w) ==
    /\ "error" \in Environment
    /\ popped[w] # NoTask \/ claimed[w] # NoTask
    /\ popped' = [popped EXCEPT ![w] = NoTask]
    /\ claimed' = [claimed EXCEPT ![w] = NoTask]
    /\ UNCHANGED <<tableVars, redisVars, up, poolVars, recoveryVars,
                   reconcilerVars, requestVars>>

-----------------------------------------------------------------------------
(* The pool: WorkerPool.cancel and settle.                                 *)

\* A cancellation for a task that is in no slot is dropped.
DeliverCancel(w) ==
    \E t \in control[w] :
      /\ control' = [control EXCEPT ![w] = @ \ {t}]
      /\ IF \E s \in Slots : slot[w][s] = t
         THEN \E s \in Slots : /\ slot[w][s] = t
                               /\ asked' = [asked EXCEPT ![w][s] = TRUE]
         ELSE UNCHANGED asked
      /\ UNCHANGED <<tableVars, ready, up, dispatchVars, slot, recoveryVars,
                     reconcilerVars, requestVars>>

(* A thread ends its task: it reports done, failed or cancelled, it dies,  *)
(* or it is terminated when it ignores a cancellation.                     *)
Settle(w, s) ==
    /\ slot[w][s] # NoTask
    /\ \E o \in ThreadOutcomes :
         /\ o = "cancelled" => asked[w][s]
         /\ jobs' = [jobs EXCEPT ![w] = @ \cup
                       {[by |-> s, task |-> slot[w][s], outcome |-> o,
                         next |-> "read", attempts |-> 0]}]
    /\ slot' = [slot EXCEPT ![w][s] = NoTask]
    /\ asked' = [asked EXCEPT ![w][s] = FALSE]
    /\ UNCHANGED <<tableVars, redisVars, up, dispatchVars, timers,
                   reconcilerVars, requestVars>>

\* A heartbeat renews the lease of a task in a slot, whatever became of its row.
Heartbeat(w, s) ==
    /\ slot[w][s] # NoTask
    /\ RenewLease(slot[w][s])
    /\ UNCHANGED <<redisVars, workerVars, requestVars>>

-----------------------------------------------------------------------------
(* Settling and recovery: TaskExecutor.onSettled, LeaseReaper.sweep and    *)
(* TaskRecovery.retryOrDeadLetter.                                         *)

Advance(w, j, changed) == jobs' = [jobs EXCEPT ![w] = (@ \ {j}) \cup changed]

restUnchanged == <<redisVars, up, dispatchVars, poolVars, reconcilerVars,
                   requestVars>>

\* onSettled reads the row first, whatever the outcome.
SettleRead(w, j) ==
    /\ j.next = "read"
    /\ Advance(w, j, {[j EXCEPT !.next = "write",
                                !.attempts = attempts[j.task]]})
    /\ UNCHANGED <<tableVars, timers, restUnchanged>>

SettleFinal(w, j) ==
    /\ j.next = "write"
    /\ \/ j.outcome = "completed" /\ MarkCompleted(j.task)
       \/ j.outcome = "cancelled" /\ MarkCancelled(j.task)
       \/ j.outcome = "fatal" /\ MarkTerminalFailure(j.task, "failed")
    /\ Advance(w, j, {})
    /\ UNCHANGED <<timers, restUnchanged>>

Retried(j) == j.outcome \in {"failed", "expired"}

\* A sweep awaits one row of its batch before it turns to the next.
Turn(w, j) ==
    j.by \in Sweeps =>
        \A i \in jobs[w] : i.by = j.by => i = j \/ i.next = "write"

DeadLetter(w, j) ==
    /\ j.next = "write" /\ Retried(j) /\ Turn(w, j)
    /\ j.attempts >= MaxAttempts
    /\ MarkTerminalFailure(j.task, "dead_letter")
    /\ Advance(w, j, {})
    /\ UNCHANGED <<timers, restUnchanged>>

\* Slip: one attempt too many.
ReleaseRowOnceMore(w, j) ==
    /\ j.next = "write" /\ Retried(j) /\ Turn(w, j)
    /\ j.attempts <= MaxAttempts
    /\ ReleaseForRetry(j.task)
    /\ Advance(w, j, {[j EXCEPT !.next = "schedule"]})
    /\ UNCHANGED <<timers, restUnchanged>>

\* Slip: the row is released and nobody schedules it.
ReleaseRowOnly(w, j) ==
    /\ j.next = "write" /\ Retried(j) /\ Turn(w, j)
    /\ j.attempts < MaxAttempts
    /\ ReleaseForRetry(j.task)
    /\ Advance(w, j, {})
    /\ UNCHANGED <<timers, restUnchanged>>

ReleaseRow(w, j) ==
    /\ j.next = "write" /\ Retried(j) /\ Turn(w, j)
    /\ j.attempts < MaxAttempts
    /\ ReleaseForRetry(j.task)
    /\ Advance(w, j, {[j EXCEPT !.next = "schedule"]})
    /\ UNCHANGED <<timers, restUnchanged>>

Schedule(w, j) ==
    /\ j.next = "schedule"
    /\ timers' = [timers EXCEPT ![w] = @ \cup
                    {[task |-> j.task, attempts |-> j.attempts]}]
    /\ Advance(w, j, {})
    /\ UNCHANGED <<tableVars, restUnchanged>>

\* onSettled logs what it could not record and drops it.
SettleError(w, j) ==
    /\ "error" \in Environment
    /\ j.by \in Slots
    /\ Advance(w, j, {})
    /\ UNCHANGED <<tableVars, timers, restUnchanged>>

JobStep(w, j) ==
    \/ SettleRead(w, j)
    \/ SettleFinal(w, j)
    \/ DeadLetter(w, j)
    \/ ReleaseRow(w, j)
    \/ Schedule(w, j)

Expired(k, t) == [by |-> k, task |-> t, outcome |-> "expired",
                  next |-> "write", attempts |-> attempts[t]]

\* findExpiredLeases: the batch is read once, its rows handled one by one.
Sweep(w, k) ==
    /\ up[w]
    /\ \A j \in jobs[w] : j.by # k
    /\ ExpiredLeases # {}
    /\ jobs' = [jobs EXCEPT ![w] = @ \cup {Expired(k, t) : t \in ExpiredLeases}]
    /\ UNCHANGED <<tableVars, timers, restUnchanged>>

\* A row that fails takes the rest of its batch with it.
SweepError(w, k) ==
    /\ "error" \in Environment
    /\ \E j \in jobs[w] : j.by = k
    /\ jobs' = [jobs EXCEPT ![w] = {j \in @ : j.by # k}]
    /\ UNCHANGED <<tableVars, timers, restUnchanged>>

TimerFires(w, m) ==
    /\ timers' = [timers EXCEPT ![w] = @ \ {m}]
    /\ ready' = ready \cup {m.task}
    /\ UNCHANGED <<tableVars, control, up, dispatchVars, poolVars, jobs,
                   reconcilerVars, requestVars>>

\* The enqueue of a fired timer fails: logged, and left to the reconciler.
TimerError(w, m) ==
    /\ "error" \in Environment
    /\ timers' = [timers EXCEPT ![w] = @ \ {m}]
    /\ UNCHANGED <<tableVars, redisVars, up, dispatchVars, poolVars, jobs,
                   reconcilerVars, requestVars>>

-----------------------------------------------------------------------------
(* The reconciler: one SELECT, one ZRANGE per client, then the enqueues.   *)

reconcilerKeeps == <<tableVars, control, up, dispatchVars, poolVars,
                     recoveryVars, requestVars>>

Reconcile(w) ==
    /\ up[w]
    /\ toRestore[w] = {} /\ unread[w] = {}
    /\ SettledQueued # {}
    /\ toRestore' = [toRestore EXCEPT ![w] = SettledQueued]
    /\ unread' = [unread EXCEPT ![w] = {ClientOf[t] : t \in SettledQueued}]
    /\ UNCHANGED <<ready, reconcilerKeeps>>

ReadQueue(w) ==
    /\ \E c \in unread[w] :
         /\ unread' = [unread EXCEPT ![w] = @ \ {c}]
         /\ toRestore' = [toRestore EXCEPT ![w] =
                            @ \ {t \in ready : ClientOf[t] = c}]
    /\ UNCHANGED <<ready, reconcilerKeeps>>

Restore(w) ==
    /\ unread[w] = {}
    /\ \E t \in toRestore[w] :
         /\ toRestore' = [toRestore EXCEPT ![w] = @ \ {t}]
         /\ ready' = ready \cup {t}
    /\ UNCHANGED <<unread, reconcilerKeeps>>

ReconcileError(w) ==
    /\ "error" \in Environment
    /\ toRestore[w] # {} \/ unread[w] # {}
    /\ toRestore' = [toRestore EXCEPT ![w] = {}]
    /\ unread' = [unread EXCEPT ![w] = {}]
    /\ UNCHANGED <<ready, reconcilerKeeps>>

-----------------------------------------------------------------------------
(* Time, crashes and restarts.                                             *)

\* Slip: the heartbeat skips the tasks that are in a slot.
AttendedOutsideSlots(t) ==
    \E w \in Workers :
        \/ claimed[w] = t
        \/ \E j \in jobs[w] : j.by \in Slots /\ j.task = t

\* Some live process still works on the task and would renew or settle it.
Attended(t) ==
    \E w \in Workers :
        \/ claimed[w] = t
        \/ \E s \in Slots : slot[w][s] = t
        \/ \E j \in jobs[w] : j.by \in Slots /\ j.task = t

LeaseLapses(t) ==
    /\ lease[t] = "live"
    /\ Punctual => ~ Attended(t)
    /\ lease' = [lease EXCEPT ![t] = "expired"]
    /\ UNCHANGED <<status, attempts, owner, settled, redisVars, workerVars,
                   requestVars>>

\* The task sits out a backoff, or is about to.
Withheld(t) ==
    \E w \in Workers :
        \/ \E m \in timers[w] : m.task = t
        \/ \E j \in jobs[w] : j.next = "schedule" /\ j.task = t

(* SETTLING_PERIOD_MS after the last write of a queued row: 10s, against a *)
(* backoff of 1s, 2s or 4s and a claim right after the pop.                *)
RowSettles(t) ==
    /\ status[t] = "queued" /\ ~ settled[t]
    /\ Punctual => ~ Withheld(t) /\ \A w \in Workers : popped[w] # t
    /\ settled' = [settled EXCEPT ![t] = TRUE]
    /\ UNCHANGED <<status, attempts, owner, lease, redisVars, workerVars,
                   requestVars>>

(* A worker dies, or gets SIGTERM: what it had in memory is abandoned.     *)
Crash(w) ==
    /\ "crash" \in Environment
    /\ up[w]
    /\ up' = [up EXCEPT ![w] = FALSE]
    /\ control' = [control EXCEPT ![w] = {}]
    /\ popped' = [popped EXCEPT ![w] = NoTask]
    /\ claimed' = [claimed EXCEPT ![w] = NoTask]
    /\ slot' = [slot EXCEPT ![w] = [s \in Slots |-> NoTask]]
    /\ asked' = [asked EXCEPT ![w] = [s \in Slots |-> FALSE]]
    /\ jobs' = [jobs EXCEPT ![w] = {}]
    /\ timers' = [timers EXCEPT ![w] = {}]
    /\ toRestore' = [toRestore EXCEPT ![w] = {}]
    /\ unread' = [unread EXCEPT ![w] = {}]
    /\ UNCHANGED <<tableVars, ready, requestVars>>

Start(w) ==
    /\ ~ up[w]
    /\ up' = [up EXCEPT ![w] = TRUE]
    /\ UNCHANGED <<tableVars, redisVars, dispatchVars, poolVars, recoveryVars,
                   reconcilerVars, requestVars>>

\* Redis restarts empty.
Flush ==
    /\ "flush" \in Environment
    /\ ready # {}
    /\ ready' = {}
    /\ UNCHANGED <<tableVars, control, workerVars, requestVars>>

DispatcherStep(w) ==
    Pop(w) \/ Claim(w) \/ ClaimLost(w) \/ Run(w) \/ DispatchError(w)

PoolStep(w) ==
    \/ DeliverCancel(w)
    \/ \E s \in Slots : Settle(w, s) \/ Heartbeat(w, s)

RecoveryStep(w) ==
    \/ \E j \in jobs[w] : JobStep(w, j) \/ SettleError(w, j)
    \/ \E k \in Sweeps : Sweep(w, k) \/ SweepError(w, k)
    \/ \E m \in timers[w] : TimerFires(w, m) \/ TimerError(w, m)

ReconcilerStep(w) ==
    Reconcile(w) \/ ReadQueue(w) \/ Restore(w) \/ ReconcileError(w)

Next ==
    \/ \E r \in Requests : RequestStep(r)
    \/ \E w \in Workers :
         \/ DispatcherStep(w)
         \/ PoolStep(w)
         \/ RecoveryStep(w)
         \/ ReconcilerStep(w)
         \/ Crash(w)
         \/ Start(w)
    \/ \E t \in Tasks : LeaseLapses(t) \/ RowSettles(t)
    \/ Flush

Spec == Init /\ [][Next]_vars

(* The loops, intervals and timers of a worker keep running and a task in  *)
(* a thread ends (task-runner.ts sleeps a bounded number of ticks), so     *)
(* whatever they can do forever is done.  Nothing is assumed of requests:  *)
(* a client or the api process may stop in the middle of one.              *)
Fairness ==
    /\ \A w \in Workers :
         /\ WF_vars(Start(w))
         /\ WF_vars(Pop(w))
         /\ WF_vars(Claim(w) \/ ClaimLost(w))
         /\ WF_vars(Run(w))
         /\ WF_vars(Reconcile(w))
         /\ WF_vars(ReadQueue(w))
         /\ WF_vars(Restore(w))
         /\ \A s \in Slots : WF_vars(Settle(w, s))
         /\ \A k \in Sweeps : WF_vars(Sweep(w, k))
         /\ \A t \in Tasks :
              /\ WF_vars(\E j \in jobs[w] : j.task = t /\ JobStep(w, j))
              /\ WF_vars(\E m \in timers[w] : m.task = t /\ TimerFires(w, m))
    /\ \A t \in Tasks : WF_vars(LeaseLapses(t)) /\ WF_vars(RowSettles(t))

FairSpec == Spec /\ Fairness

-----------------------------------------------------------------------------
(* Properties.                                                             *)

TypeOK ==
    /\ TableTypeOK
    /\ ready \subseteq Tasks
    /\ control \in [Workers -> SUBSET Tasks]
    /\ up \in [Workers -> BOOLEAN]
    /\ popped \in [Workers -> Tasks \cup {NoTask}]
    /\ claimed \in [Workers -> Tasks \cup {NoTask}]
    /\ slot \in [Workers -> [Slots -> Tasks \cup {NoTask}]]
    /\ asked \in [Workers -> [Slots -> BOOLEAN]]
    /\ jobs \in [Workers -> SUBSET Jobs]
    /\ timers \in [Workers -> SUBSET Timers]
    /\ toRestore \in [Workers -> SUBSET Tasks]
    /\ unread \in [Workers -> SUBSET Clients]
    /\ stage \in [Requests -> Stages]
    /\ subject \in [Requests -> Tasks \cup {NoTask}]

(* ARCHITECTURE 6.2: every running task holds a lease.  The statements of  *)
(* the table agree, whoever runs them and in whatever order, on which rows *)
(* carry a worker and a lease: the running and the cancelling ones.  A     *)
(* held row without a lease would be invisible to findExpiredLeases.       *)
LeaseIffHeld ==
    \A t \in Tasks :
        /\ status[t] \in Held <=> lease[t] # "none"
        /\ status[t] \in Held <=> owner[t] # NoWorker

(* dispatcher.ts: "freeSlots() was checked above and only the dispatcher   *)
(* claims, so this should be unreachable".  While a claimed row travels to *)
(* the pool its slot stays free, whatever settles or is cancelled.         *)
SlotForClaimed ==
    \A w \in Workers : claimed[w] # NoTask => FreeSlots(w) # {}

\* A worker works on a task: claimed, in a thread, or its outcome unrecorded.
Working(w, t) ==
    \/ claimed[w] = t
    \/ \E s \in Slots : slot[w][s] = t
    \/ \E j \in jobs[w] : j.by \in Slots /\ j.next # "schedule" /\ j.task = t

(* The row of a task some worker works on is held, by that worker.  This   *)
(* is what makes the unguarded UPDATEs of markTerminalFailure and          *)
(* releaseForRetry safe: they never hit a row that has moved on.           *)
WorkIsOwned ==
    \A w \in Workers, t \in Tasks :
        Working(w, t) => status[t] \in Held /\ owner[t] = w

(* "exactly one worker can win": a task is never executed in two places,   *)
(* a row on its way to a pool counting as one.                             *)
OneExecution ==
    \A v, w \in Workers, t \in Tasks :
        /\ claimed[v] = t => /\ \A s \in Slots : slot[w][s] # t
                             /\ claimed[w] = t => v = w
        /\ \A a, b \in Slots :
             slot[v][a] = t /\ slot[w][b] = t => v = w /\ a = b

(* "One initial attempt plus three retries": a task is claimed at most     *)
(* MaxAttempts times between manual retries, although the decision is made *)
(* on a copy of the row, and only a spent budget is dead-lettered.         *)
RetryBudget ==
    \A t \in Tasks :
        /\ attempts[t] <= MaxAttempts
        /\ status[t] = "queued" => attempts[t] < MaxAttempts
        /\ status[t] = "dead_letter" => attempts[t] = MaxAttempts

\* Somebody is about to put the task into its ready queue, or to cancel it.
OnItsWay(t) ==
    \/ \E w \in Workers : popped[w] = t
    \/ Withheld(t)
    \/ \E r \in Requests :
         /\ subject[r] = t
         /\ stage[r] \in {"create_enqueue", "cancel_if_queued", "retry_enqueue"}

(* README, Crash recovery: the reconciler covers MySQL and Redis           *)
(* disagreeing, the reaper a dying worker.  Where nothing fails neither is *)
(* needed: a queued task is in its queue or on its way, and a held task is *)
(* being worked on, however cancellations and retries interleave.          *)
NothingStranded ==
    \A t \in Tasks :
        /\ status[t] = "queued" => t \in ready \/ OnItsWay(t)
        /\ status[t] \in Held => \E w \in Workers : Working(w, t)

Trouble ==
    \/ Flush
    \/ \E r \in Requests : RequestError(r)
    \/ \E w \in Workers :
         \/ Crash(w) \/ DispatchError(w) \/ ReconcileError(w)
         \/ \E j \in jobs[w] : SettleError(w, j)
         \/ \E k \in Sweeps : SweepError(w, k)
         \/ \E m \in timers[w] : TimerError(w, m)

(* "Stop Redis entirely and the system does not lose work" (ARCHITECTURE   *)
(* 6.3): once crashes, flushes and errors cease, whatever they interrupted *)
(* and wherever, a submitted task reaches a terminal status.               *)
EventuallySettled ==
    <>[][~ Trouble]_vars =>
        \A t \in Tasks :
            (status[t] \in Held \cup {"queued"}) ~> (status[t] \in Terminal)

(* The status machine of ARCHITECTURE 3, over the same columns.            *)
Lifecycle == INSTANCE TaskLifecycle WITH
    Tasks <- Tasks, MaxAttempts <- MaxAttempts,
    status <- status, attempts <- attempts
ImplementsLifecycle == Lifecycle!Spec

(* ARCHITECTURE 6, retry policy: a cancelled task is not retried.          *)
CancellationNotRetried ==
    [][\A t \in Tasks : status[t] = "cancelling" => status'[t] # "queued"]_vars

=============================================================================

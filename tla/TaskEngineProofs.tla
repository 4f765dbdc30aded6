-------------------------- MODULE TaskEngineProofs --------------------------
(***************************************************************************)
(* Proofs about TaskEngine for any number of tasks, workers, slots, sweeps *)
(* and requests, and for every environment, late heartbeats included.      *)
(***************************************************************************)
EXTENDS TaskEngine, TLAPS

-----------------------------------------------------------------------------
(* The table: what a statement writes has the types of its columns, and a  *)
(* row carries a worker and a lease exactly while it is held.              *)

RowOK(t) ==
    /\ status[t] \in Held <=> lease[t] # "none"
    /\ status[t] \in Held <=> owner[t] # NoWorker

TableOK == TableTypeOK /\ \A t \in Tasks : RowOK(t)

LEMMA WriteOK ==
    ASSUME TableOK,
           NEW t \in Tasks, NEW s \in Statuses, NEW n \in Nat,
           NEW w \in Workers \cup {NoWorker}, NEW l \in Leases,
           s \in Held <=> l # "none", s \in Held <=> w # NoWorker,
           Write(t, s, n, w, l)
    PROVE  TableOK'
BY DEF TableOK, TableTypeOK, RowOK, Write

LEMMA TableUnchanged ==
    ASSUME TableOK, UNCHANGED tableVars
    PROVE  TableOK'
BY DEF TableOK, TableTypeOK, RowOK, tableVars

LEMMA ReleaseOK ==
    ASSUME TableOK, NEW t \in Tasks, NEW s \in Statuses \ Held, Release(t, s)
    PROVE  TableOK'
<1>1. attempts[t] \in Nat /\ "none" \in Leases
  BY DEF TableOK, TableTypeOK, Leases
<1>2. Write(t, s, attempts[t], NoWorker, "none")
  BY DEF Release
<1> QED
  BY <1>1, <1>2, WriteOK

LEMMA InsertOK ==
    ASSUME TableOK, NEW t \in Tasks, Insert(t)
    PROVE  TableOK'
<1>1. "queued" \in Statuses \ Held /\ "none" \in Leases
  BY DEF Statuses, Held, Leases
<1> QED
  BY <1>1, WriteOK DEF Insert

LEMMA ClaimRowOK ==
    ASSUME TableOK, NEW t \in Tasks, NEW w \in Workers, ClaimRow(t, w)
    PROVE  TableOK'
<1>1. "running" \in Statuses \cap Held /\ "live" \in Leases \ {"none"}
  BY DEF Statuses, Held, Leases
<1>2. attempts[t] + 1 \in Nat
  BY DEF TableOK, TableTypeOK
<1>3. w # NoWorker
  BY NoWorkerAssumption
<1> QED
  BY <1>1, <1>2, <1>3, WriteOK DEF ClaimRow

LEMMA RenewLeaseOK ==
    ASSUME TableOK, NEW t \in Tasks, RenewLease(t)
    PROVE  TableOK'
<1>1. CASE status[t] \in Held
  <2>1. Write(t, status[t], attempts[t], owner[t], "live")
    BY <1>1 DEF RenewLease
  <2>2. /\ status[t] \in Statuses /\ attempts[t] \in Nat
        /\ owner[t] \in Workers \cup {NoWorker} /\ owner[t] # NoWorker
        /\ "live" \in Leases /\ "live" # "none"
    BY <1>1 DEF TableOK, TableTypeOK, RowOK, Leases
  <2> QED
    BY <1>1, <2>1, <2>2, WriteOK
<1>2. CASE status[t] \notin Held
  BY <1>2, TableUnchanged DEF RenewLease
<1> QED
  BY <1>1, <1>2

LEMMA MarkCompletedOK ==
    ASSUME TableOK, NEW t \in Tasks, MarkCompleted(t)
    PROVE  TableOK'
<1>1. "completed" \in Statuses \ Held
  BY DEF Statuses, Held
<1> QED
  BY <1>1, ReleaseOK, TableUnchanged DEF MarkCompleted

LEMMA MarkTerminalFailureOK ==
    ASSUME TableOK, NEW t \in Tasks, NEW s \in {"failed", "dead_letter"},
           MarkTerminalFailure(t, s)
    PROVE  TableOK'
<1>1. s \in Statuses \ Held
  BY DEF Statuses, Held
<1> QED
  BY <1>1, ReleaseOK DEF MarkTerminalFailure

LEMMA CancelQueuedRowOK ==
    ASSUME TableOK, NEW t \in Tasks, CancelQueuedRow(t)
    PROVE  TableOK'
<1>1. "queued" \notin Held /\ "cancelled" \in Statuses \ Held
  BY DEF Statuses, Held
<1>2. /\ attempts[t] \in Nat
      /\ owner[t] \in Workers \cup {NoWorker} /\ owner[t] = NoWorker
      /\ lease[t] \in Leases /\ lease[t] = "none"
  BY <1>1 DEF CancelQueuedRow, TableOK, TableTypeOK, RowOK
<1> QED
  BY <1>1, <1>2, WriteOK DEF CancelQueuedRow

LEMMA MarkCancellingOK ==
    ASSUME TableOK, NEW t \in Tasks, MarkCancelling(t)
    PROVE  TableOK'
<1>1. CASE status[t] = "running"
  <2>1. "running" \in Held /\ "cancelling" \in Statuses \cap Held
    BY DEF Statuses, Held
  <2>2. /\ attempts[t] \in Nat
        /\ owner[t] \in Workers \cup {NoWorker} /\ owner[t] # NoWorker
        /\ lease[t] \in Leases /\ lease[t] # "none"
    BY <1>1, <2>1 DEF TableOK, TableTypeOK, RowOK
  <2> QED
    BY <1>1, <2>1, <2>2, WriteOK DEF MarkCancelling
<1>2. CASE status[t] # "running"
  BY <1>2, TableUnchanged DEF MarkCancelling
<1> QED
  BY <1>1, <1>2

LEMMA MarkCancelledOK ==
    ASSUME TableOK, NEW t \in Tasks, MarkCancelled(t)
    PROVE  TableOK'
<1>1. "cancelled" \in Statuses \ Held
  BY DEF Statuses, Held
<1> QED
  BY <1>1, ReleaseOK, TableUnchanged DEF MarkCancelled

LEMMA ReleaseForRetryOK ==
    ASSUME TableOK, NEW t \in Tasks, ReleaseForRetry(t)
    PROVE  TableOK'
<1>1. "queued" \in Statuses \ Held
  BY DEF Statuses, Held
<1> QED
  BY <1>1, ReleaseOK DEF ReleaseForRetry

LEMMA ResetForManualRetryOK ==
    ASSUME TableOK, NEW t \in Tasks, ResetForManualRetry(t)
    PROVE  TableOK'
<1>1. "queued" \in Statuses \ Held /\ "none" \in Leases
  BY DEF Statuses, Held, Leases
<1> QED
  BY <1>1, WriteOK, TableUnchanged DEF ResetForManualRetry

-----------------------------------------------------------------------------
(* The memory of the processes and Redis.  A request at work knows its     *)
(* task, which is what keeps ready and the rows it writes within Tasks.    *)

RedisOK ==
    /\ ready \subseteq Tasks
    /\ control \in [Workers -> SUBSET Tasks]

DispatchOK ==
    /\ popped \in [Workers -> Tasks \cup {NoTask}]
    /\ claimed \in [Workers -> Tasks \cup {NoTask}]

PoolOK ==
    /\ slot \in [Workers -> [Slots -> Tasks \cup {NoTask}]]
    /\ asked \in [Workers -> [Slots -> BOOLEAN]]

RecoveryOK ==
    /\ jobs \in [Workers -> SUBSET Jobs]
    /\ timers \in [Workers -> SUBSET Timers]

ReconcilerOK ==
    /\ toRestore \in [Workers -> SUBSET Tasks]
    /\ unread \in [Workers -> SUBSET Clients]

RequestOK ==
    /\ stage \in [Requests -> Stages]
    /\ subject \in [Requests -> Tasks \cup {NoTask}]
    /\ \A r \in Requests : stage[r] # "idle" => subject[r] \in Tasks

WorkerOK ==
    /\ up \in [Workers -> BOOLEAN]
    /\ DispatchOK /\ PoolOK /\ RecoveryOK /\ ReconcilerOK

IInv == TableOK /\ RedisOK /\ WorkerOK /\ RequestOK

LEMMA InitOK == Init => IInv
<1> SUFFICES ASSUME Init PROVE IInv
  OBVIOUS
<1>1. TableOK
  <2>1. "absent" \in Statuses \ Held /\ "none" \in Leases
    BY DEF Statuses, Held, Leases
  <2> QED
    BY <2>1 DEF Init, TableInit, TableOK, TableTypeOK, RowOK
<1>2. RedisOK /\ WorkerOK
  BY DEF Init, RedisOK, WorkerOK, DispatchOK, PoolOK, RecoveryOK, ReconcilerOK
<1>3. RequestOK
  BY DEF Init, RequestOK, Stages
<1> QED
  BY <1>1, <1>2, <1>3 DEF IInv

LEMMA WorkerUnchanged ==
    ASSUME WorkerOK, UNCHANGED workerVars
    PROVE  WorkerOK'
BY DEF WorkerOK, DispatchOK, PoolOK, RecoveryOK, ReconcilerOK, workerVars,
       dispatchVars, poolVars, recoveryVars, reconcilerVars

-----------------------------------------------------------------------------
(* The api process.                                                        *)

LEMMA BeginOK ==
    ASSUME RequestOK, NEW r \in Requests, NEW t \in Tasks, NEW s \in Stages,
           Begin(r, t, s)
    PROVE  RequestOK'
BY DEF RequestOK, Begin

LEMMA GotoOK ==
    ASSUME RequestOK, NEW r \in Requests, NEW s \in Stages,
           stage[r] # "idle", Goto(r, s)
    PROVE  RequestOK'
BY DEF RequestOK, Goto

LEMMA FinishOK ==
    ASSUME RequestOK, NEW r \in Requests, Finish(r)
    PROVE  RequestOK'
BY DEF RequestOK, Finish, Stages

LEMMA RequestStepOK ==
    ASSUME IInv, NEW r \in Requests, RequestStep(r)
    PROVE  IInv'
<1> USE DEF IInv
<1>0. stage[r] # "idle" => subject[r] \in Tasks
  BY DEF RequestOK
<1>1. ASSUME NEW t \in Tasks, Create(r, t) PROVE IInv'
  BY <1>1, InsertOK, BeginOK, WorkerUnchanged DEF Create, Stages, RedisOK, redisVars
<1>2. ASSUME NEW t \in Tasks, Cancel(r, t) PROVE IInv'
  <2>1. RequestOK'
    BY <1>2, BeginOK DEF Cancel, Stages
  <2> QED
    BY <1>2, <2>1, TableUnchanged, WorkerUnchanged DEF Cancel, RedisOK, redisVars
<1>3. ASSUME NEW t \in Tasks, Retry(r, t) PROVE IInv'
  BY <1>3, BeginOK, TableUnchanged, WorkerUnchanged
     DEF Retry, Stages, RedisOK, redisVars
<1>4. CASE CreateEnqueue(r)
  BY <1>0, <1>4, FinishOK, TableUnchanged, WorkerUnchanged
     DEF CreateEnqueue, RedisOK
<1>5. CASE CancelRemove(r)
  BY <1>5, GotoOK, TableUnchanged, WorkerUnchanged
     DEF CancelRemove, Stages, RedisOK
<1>6. CASE CancelQueued(r)
  BY <1>0, <1>6, FinishOK, CancelQueuedRowOK, WorkerUnchanged
     DEF CancelQueued, RedisOK, redisVars
<1>7. CASE CancelFallsThrough(r)
  BY <1>7, GotoOK, TableUnchanged, WorkerUnchanged
     DEF CancelFallsThrough, Stages, RedisOK, redisVars
<1>8. CASE CancelMark(r)
  BY <1>0, <1>8, GotoOK, MarkCancellingOK, WorkerUnchanged
     DEF CancelMark, Stages, RedisOK, redisVars
<1>9. CASE CancelPublish(r)
  <2>1. RedisOK'
    BY <1>0, <1>9 DEF CancelPublish, RedisOK
  <2> QED
    BY <1>9, <2>1, FinishOK, TableUnchanged, WorkerUnchanged DEF CancelPublish
<1>10. CASE RetryReset(r)
  BY <1>0, <1>10, GotoOK, ResetForManualRetryOK, WorkerUnchanged
     DEF RetryReset, Stages, RedisOK, redisVars
<1>11. CASE RetryEnqueue(r)
  BY <1>0, <1>11, FinishOK, TableUnchanged, WorkerUnchanged
     DEF RetryEnqueue, RedisOK
<1>12. CASE RequestError(r)
  BY <1>12, FinishOK, TableUnchanged, WorkerUnchanged
     DEF RequestError, RedisOK, redisVars
<1> QED
  BY <1>1, <1>2, <1>3, <1>4, <1>5, <1>6, <1>7, <1>8, <1>9, <1>10, <1>11,
     <1>12 DEF RequestStep

-----------------------------------------------------------------------------
(* The worker processes.                                                   *)

LEMMA DispatcherStepOK ==
    ASSUME IInv, NEW w \in Workers, DispatcherStep(w)
    PROVE  IInv'
<1> USE DEF IInv, WorkerOK, dispatchVars, poolVars, recoveryVars,
            reconcilerVars, requestVars
<1>0. popped[w] \in Tasks \cup {NoTask} /\ claimed[w] \in Tasks \cup {NoTask}
  BY DEF DispatchOK
<1>1. ASSUME UNCHANGED <<up, poolVars, recoveryVars, reconcilerVars,
                         requestVars>>
      PROVE  /\ up' \in [Workers -> BOOLEAN] /\ PoolOK' /\ RecoveryOK'
             /\ ReconcilerOK' /\ RequestOK'
  BY <1>1 DEF PoolOK, RecoveryOK, ReconcilerOK, RequestOK
<1>2. CASE Pop(w)
  <2>1. RedisOK' /\ DispatchOK'
    BY <1>2 DEF Pop, RedisOK, DispatchOK
  <2> QED
    BY <1>1, <1>2, <2>1, TableUnchanged DEF Pop
<1>3. CASE Claim(w)
  <2>1. RedisOK' /\ DispatchOK'
    BY <1>0, <1>3 DEF Claim, RedisOK, DispatchOK, redisVars
  <2>2. TableOK'
    BY <1>0, <1>3, ClaimRowOK DEF Claim
  <2> QED
    BY <1>1, <1>3, <2>1, <2>2 DEF Claim
<1>4. CASE ClaimLost(w)
  <2>1. RedisOK' /\ DispatchOK'
    BY <1>4 DEF ClaimLost, RedisOK, DispatchOK, redisVars
  <2> QED
    BY <1>1, <1>4, <2>1, TableUnchanged DEF ClaimLost
<1>5. CASE Run(w)
  <2>1. RedisOK' /\ DispatchOK'
    BY <1>5 DEF Run, RedisOK, DispatchOK, redisVars
  <2>2. PoolOK'
    BY <1>0, <1>5 DEF Run, PoolOK, FreeSlots
  <2> QED
    BY <1>5, <2>1, <2>2, TableUnchanged
       DEF Run, RecoveryOK, ReconcilerOK, RequestOK
<1>6. CASE DispatchError(w)
  <2>1. RedisOK' /\ DispatchOK'
    BY <1>6 DEF DispatchError, RedisOK, DispatchOK, redisVars
  <2> QED
    BY <1>1, <1>6, <2>1, TableUnchanged DEF DispatchError
<1> QED
  BY <1>2, <1>3, <1>4, <1>5, <1>6 DEF DispatcherStep

LEMMA PoolStepOK ==
    ASSUME IInv, NEW w \in Workers, PoolStep(w)
    PROVE  IInv'
<1> USE DEF IInv
<1>1. CASE DeliverCancel(w)
  <2>1. RedisOK'
    BY <1>1 DEF DeliverCancel, RedisOK
  <2>2. PoolOK'
    <3>1. slot' = slot
      BY <1>1 DEF DeliverCancel
    <3>2. \/ asked' = asked
          \/ \E s \in Slots : asked' = [asked EXCEPT ![w][s] = TRUE]
      BY <1>1 DEF DeliverCancel
    <3>3. PoolOK
      BY DEF WorkerOK
    <3>4. CASE asked' = asked
      BY <3>1, <3>3, <3>4 DEF PoolOK
    <3>5. ASSUME NEW s \in Slots, asked' = [asked EXCEPT ![w][s] = TRUE]
          PROVE  PoolOK'
      BY <3>1, <3>3, <3>5 DEF PoolOK
    <3> QED
      BY <3>2, <3>4, <3>5
  <2> QED
    BY <1>1, <2>1, <2>2, TableUnchanged
       DEF DeliverCancel, WorkerOK, DispatchOK, RecoveryOK, ReconcilerOK,
           RequestOK, dispatchVars, recoveryVars, reconcilerVars, requestVars
<1>2. ASSUME NEW s \in Slots, Settle(w, s) PROVE IInv'
  <2>1. slot[w][s] \in Tasks
    BY <1>2 DEF Settle, WorkerOK, PoolOK
  <2>2. PoolOK'
    BY <1>2 DEF Settle, WorkerOK, PoolOK
  <2>3. RecoveryOK'
    <3>1. PICK o \in ThreadOutcomes :
            jobs' = [jobs EXCEPT ![w] = @ \cup
                       {[by |-> s, task |-> slot[w][s], outcome |-> o,
                         next |-> "read", attempts |-> 0]}]
      BY <1>2 DEF Settle
    <3>2. [by |-> s, task |-> slot[w][s], outcome |-> o,
           next |-> "read", attempts |-> 0] \in Jobs
      BY <2>1 DEF Jobs
    <3>3. timers' = timers
      BY <1>2 DEF Settle
    <3> QED
      BY <3>1, <3>2, <3>3 DEF WorkerOK, RecoveryOK
  <2> QED
    BY <1>2, <2>2, <2>3, TableUnchanged
       DEF Settle, WorkerOK, RedisOK, DispatchOK, ReconcilerOK, RequestOK,
           redisVars, dispatchVars, reconcilerVars, requestVars
<1>3. ASSUME NEW s \in Slots, Heartbeat(w, s) PROVE IInv'
  <2>1. slot[w][s] \in Tasks
    BY <1>3 DEF Heartbeat, WorkerOK, PoolOK
  <2> QED
    BY <1>3, <2>1, RenewLeaseOK, WorkerUnchanged
       DEF Heartbeat, RedisOK, RequestOK, redisVars, requestVars
<1> QED
  BY <1>1, <1>2, <1>3 DEF PoolStep

LEMMA ReconcilerStepOK ==
    ASSUME IInv, NEW w \in Workers, ReconcilerStep(w)
    PROVE  IInv'
<1> USE DEF IInv
<1>1. ASSUME UNCHANGED reconcilerKeeps, RedisOK', ReconcilerOK'
      PROVE  IInv'
  BY <1>1, TableUnchanged
     DEF reconcilerKeeps, WorkerOK, DispatchOK, PoolOK, RecoveryOK, RequestOK,
         dispatchVars, poolVars, recoveryVars, requestVars
<1>2. CASE Reconcile(w)
  <2>1. ReconcilerOK'
    BY <1>2, ClientAssumption
       DEF Reconcile, WorkerOK, ReconcilerOK, SettledQueued
  <2>2. RedisOK'
    BY <1>2 DEF Reconcile, RedisOK, reconcilerKeeps
  <2> QED
    BY <1>1, <1>2, <2>1, <2>2 DEF Reconcile
<1>3. CASE ReadQueue(w)
  <2>1. ReconcilerOK'
    BY <1>3 DEF ReadQueue, WorkerOK, ReconcilerOK
  <2>2. RedisOK'
    BY <1>3 DEF ReadQueue, RedisOK, reconcilerKeeps
  <2> QED
    BY <1>1, <1>3, <2>1, <2>2 DEF ReadQueue
<1>4. CASE Restore(w)
  <2>1. ReconcilerOK'
    BY <1>4 DEF Restore, WorkerOK, ReconcilerOK
  <2>2. RedisOK'
    BY <1>4 DEF Restore, RedisOK, reconcilerKeeps, WorkerOK, ReconcilerOK
  <2> QED
    BY <1>1, <1>4, <2>1, <2>2 DEF Restore
<1>5. CASE ReconcileError(w)
  <2>1. ReconcilerOK'
    BY <1>5 DEF ReconcileError, WorkerOK, ReconcilerOK
  <2>2. RedisOK'
    BY <1>5 DEF ReconcileError, RedisOK, reconcilerKeeps
  <2> QED
    BY <1>1, <1>5, <2>1, <2>2 DEF ReconcileError
<1> QED
  BY <1>2, <1>3, <1>4, <1>5 DEF ReconcilerStep

LEMMA RecoveryStepOK ==
    ASSUME IInv, NEW w \in Workers, RecoveryStep(w)
    PROVE  IInv'
<1> USE DEF IInv
<1>1. ASSUME UNCHANGED restUnchanged, TableOK', RecoveryOK' PROVE IInv'
  BY <1>1
     DEF restUnchanged, WorkerOK, RedisOK, DispatchOK, PoolOK, ReconcilerOK,
         RequestOK, redisVars, dispatchVars, poolVars, reconcilerVars,
         requestVars
<1>2. ASSUME NEW j \in jobs[w], NEW rest \in SUBSET Jobs,
             Advance(w, j, rest), UNCHANGED timers
      PROVE  RecoveryOK'
  BY <1>2 DEF Advance, WorkerOK, RecoveryOK
<1>3. ASSUME NEW j \in jobs[w], JobStep(w, j) \/ SettleError(w, j) PROVE IInv'
  <2>0. j \in Jobs /\ j.task \in Tasks /\ j.attempts \in Nat
    BY DEF WorkerOK, RecoveryOK, Jobs
  <2>1. CASE SettleRead(w, j)
    <3>1. [j EXCEPT !.next = "write", !.attempts = attempts[j.task]] \in Jobs
      BY <2>0 DEF Jobs, TableOK, TableTypeOK
    <3>2. RecoveryOK'
      BY <1>2, <2>1, <3>1 DEF SettleRead
    <3> QED
      BY <1>1, <2>1, <3>2, TableUnchanged DEF SettleRead
  <2>2. CASE SettleFinal(w, j)
    <3>1. TableOK'
      BY <2>0, <2>2, MarkCompletedOK, MarkCancelledOK, MarkTerminalFailureOK
         DEF SettleFinal
    <3> QED
      BY <1>1, <1>2, <2>2, <3>1 DEF SettleFinal
  <2>3. CASE DeadLetter(w, j)
    <3>1. TableOK'
      BY <2>0, <2>3, MarkTerminalFailureOK DEF DeadLetter
    <3> QED
      BY <1>1, <1>2, <2>3, <3>1 DEF DeadLetter
  <2>4. CASE ReleaseRow(w, j)
    <3>1. TableOK'
      BY <2>0, <2>4, ReleaseForRetryOK DEF ReleaseRow
    <3>2. [j EXCEPT !.next = "schedule"] \in Jobs
      BY <2>0 DEF Jobs
    <3> QED
      BY <1>1, <1>2, <2>4, <3>1, <3>2 DEF ReleaseRow
  <2>5. CASE Schedule(w, j)
    <3>1. [task |-> j.task, attempts |-> j.attempts] \in Timers
      BY <2>0 DEF Timers
    <3>2. RecoveryOK'
      BY <2>5, <3>1 DEF Schedule, Advance, WorkerOK, RecoveryOK
    <3> QED
      BY <1>1, <2>5, <3>2, TableUnchanged DEF Schedule
  <2>6. CASE SettleError(w, j)
    BY <1>1, <1>2, <2>6, TableUnchanged DEF SettleError
  <2> QED
    BY <1>3, <2>1, <2>2, <2>3, <2>4, <2>5, <2>6 DEF JobStep
<1>4. ASSUME NEW k \in Sweeps, Sweep(w, k) PROVE IInv'
  <2>1. \A t \in ExpiredLeases : Expired(k, t) \in Jobs
    BY DEF ExpiredLeases, Expired, Jobs, TableOK, TableTypeOK
  <2>2. RecoveryOK'
    BY <1>4, <2>1 DEF Sweep, WorkerOK, RecoveryOK
  <2> QED
    BY <1>1, <1>4, <2>2, TableUnchanged DEF Sweep
<1>5. ASSUME NEW k \in Sweeps, SweepError(w, k) PROVE IInv'
  <2>1. RecoveryOK'
    BY <1>5 DEF SweepError, WorkerOK, RecoveryOK
  <2> QED
    BY <1>1, <1>5, <2>1, TableUnchanged DEF SweepError
<1>6. ASSUME NEW m \in timers[w], TimerFires(w, m) PROVE IInv'
  <2>1. m.task \in Tasks
    BY DEF WorkerOK, RecoveryOK, Timers
  <2>2. RecoveryOK' /\ RedisOK'
    BY <1>6, <2>1 DEF TimerFires, WorkerOK, RecoveryOK, RedisOK
  <2> QED
    BY <1>6, <2>2, TableUnchanged
       DEF TimerFires, WorkerOK, DispatchOK, PoolOK, ReconcilerOK, RequestOK,
           dispatchVars, poolVars, reconcilerVars, requestVars
<1>7. ASSUME NEW m \in timers[w], TimerError(w, m) PROVE IInv'
  <2>1. RecoveryOK'
    BY <1>7 DEF TimerError, WorkerOK, RecoveryOK
  <2> QED
    BY <1>7, <2>1, TableUnchanged
       DEF TimerError, WorkerOK, RedisOK, DispatchOK, PoolOK, ReconcilerOK,
           RequestOK, redisVars, dispatchVars, poolVars, reconcilerVars,
           requestVars
<1> QED
  BY <1>3, <1>4, <1>5, <1>6, <1>7 DEF RecoveryStep

-----------------------------------------------------------------------------
(* Time, crashes, and the invariant.                                       *)

LEMMA EnvironmentOK ==
    ASSUME IInv,
           \/ Flush
           \/ \E t \in Tasks : LeaseLapses(t) \/ RowSettles(t)
           \/ \E w \in Workers : Crash(w) \/ Start(w)
    PROVE  IInv'
<1> USE DEF IInv
<1>1. CASE Flush
  BY <1>1, TableUnchanged, WorkerUnchanged
     DEF Flush, RedisOK, RequestOK, requestVars
<1>2. ASSUME NEW t \in Tasks, LeaseLapses(t) PROVE IInv'
  <2>1. TableOK'
    BY <1>2 DEF LeaseLapses, TableOK, TableTypeOK, RowOK, Leases
  <2> QED
    BY <1>2, <2>1, WorkerUnchanged
       DEF LeaseLapses, RedisOK, RequestOK, redisVars, requestVars
<1>3. ASSUME NEW t \in Tasks, RowSettles(t) PROVE IInv'
  <2>1. TableOK'
    BY <1>3 DEF RowSettles, TableOK, TableTypeOK, RowOK
  <2> QED
    BY <1>3, <2>1, WorkerUnchanged
       DEF RowSettles, RedisOK, RequestOK, redisVars, requestVars
<1>4. ASSUME NEW w \in Workers, Crash(w) PROVE IInv'
  <2>1. RedisOK' /\ WorkerOK'
    BY <1>4 DEF Crash, RedisOK, WorkerOK, DispatchOK, PoolOK, RecoveryOK,
                ReconcilerOK
  <2> QED
    BY <1>4, <2>1, TableUnchanged DEF Crash, RequestOK, requestVars
<1>5. ASSUME NEW w \in Workers, Start(w) PROVE IInv'
  BY <1>5, TableUnchanged
     DEF Start, RedisOK, WorkerOK, DispatchOK, PoolOK, RecoveryOK,
         ReconcilerOK, RequestOK, redisVars, dispatchVars, poolVars,
         recoveryVars, reconcilerVars, requestVars
<1> QED
  BY <1>1, <1>2, <1>3, <1>4, <1>5

LEMMA NextOK == IInv /\ [Next]_vars => IInv'
<1> SUFFICES ASSUME IInv, [Next]_vars PROVE IInv'
  OBVIOUS
<1>1. CASE UNCHANGED vars
  BY <1>1, TableUnchanged
     DEF vars, IInv, RedisOK, WorkerOK, DispatchOK, PoolOK, RecoveryOK,
         ReconcilerOK, RequestOK, redisVars, dispatchVars, poolVars,
         recoveryVars, reconcilerVars, requestVars
<1>2. CASE Next
  BY <1>2, RequestStepOK, DispatcherStepOK, PoolStepOK, RecoveryStepOK,
     ReconcilerStepOK, EnvironmentOK DEF Next
<1> QED
  BY <1>1, <1>2

THEOREM Invariance == Spec => []IInv
BY InitOK, NextOK, PTL DEF Spec

(* Every variable keeps its type: whatever the interleaving, no record of  *)
(* the engine is ever about anything but a submitted task.                 *)
THEOREM TypeCorrect == Spec => []TypeOK
<1>1. IInv => TypeOK
  BY DEF IInv, TypeOK, TableOK, RedisOK, WorkerOK, DispatchOK, PoolOK,
         RecoveryOK, ReconcilerOK, RequestOK
<1> QED
  BY <1>1, Invariance, PTL

(* The row level half of recovery: a running or cancelling row always has  *)
(* a worker and a lease, so the reaper can see it, and no other row has.   *)
THEOREM LeaseOfHeldRows == Spec => []LeaseIffHeld
<1>1. IInv => LeaseIffHeld
  BY DEF IInv, TableOK, RowOK, LeaseIffHeld
<1> QED
  BY <1>1, Invariance, PTL

-----------------------------------------------------------------------------
(* The slot of a claimed task.  The free slot that the tick saw survives   *)
(* both awaits, because only Run fills slots and a dispatcher has at most  *)
(* one task in hand.                                                       *)

HandOver(w) ==
    /\ popped[w] = NoTask \/ claimed[w] = NoTask
    /\ popped[w] # NoTask \/ claimed[w] # NoTask =>
         \E s \in Slots : slot[w][s] = NoTask

HandOvers == \A w \in Workers : HandOver(w)

\* Steps that leave the dispatcher alone and at most empty a slot.
LEMMA HandOverKept ==
    ASSUME HandOvers, UNCHANGED dispatchVars,
           \A w \in Workers, s \in Slots :
               slot[w][s] = NoTask => slot'[w][s] = NoTask
    PROVE  HandOvers'
BY DEF HandOvers, HandOver, dispatchVars

LEMMA HandOversNext == TypeOK /\ HandOvers /\ [Next]_vars => HandOvers'
<1> SUFFICES ASSUME TypeOK, HandOvers, [Next]_vars PROVE HandOvers'
  OBVIOUS
<1>0. /\ popped \in [Workers -> Tasks \cup {NoTask}]
      /\ claimed \in [Workers -> Tasks \cup {NoTask}]
      /\ slot \in [Workers -> [Slots -> Tasks \cup {NoTask}]]
  BY DEF TypeOK
<1>1. CASE UNCHANGED <<dispatchVars, slot>>
  BY <1>1, HandOverKept
<1>2. ASSUME NEW w \in Workers, DispatcherStep(w) PROVE HandOvers'
  <2> USE <1>0 DEF HandOvers, HandOver, poolVars
  <2>1. CASE Pop(w)
    <3>1. \E s \in Slots : slot[w][s] = NoTask
      BY <2>1 DEF Pop, FreeSlots
    <3>2. slot' = slot /\ claimed' = claimed /\ claimed[w] = NoTask
      BY <2>1 DEF Pop
    <3>3. \A v \in Workers \ {w} : popped'[v] = popped[v]
      BY <2>1 DEF Pop
    <3> QED
      BY <3>1, <3>2, <3>3
  <2>2. CASE Claim(w)
    BY <2>2 DEF Claim
  <2>3. CASE ClaimLost(w)
    BY <2>3 DEF ClaimLost
  <2>4. CASE Run(w)
    <3>1. PICK s \in Slots : slot' = [slot EXCEPT ![w][s] = claimed[w]]
      BY <2>4 DEF Run, FreeSlots
    <3>2. \A v \in Workers \ {w} : slot'[v] = slot[v]
      BY <3>1
    <3>3. /\ popped' = popped /\ claimed' = [claimed EXCEPT ![w] = NoTask]
          /\ claimed[w] # NoTask
      BY <2>4 DEF Run
    <3> QED
      BY <3>2, <3>3
  <2>5. CASE DispatchError(w)
    BY <2>5 DEF DispatchError
  <2> QED
    BY <1>2, <2>1, <2>2, <2>3, <2>4, <2>5 DEF DispatcherStep
<1>3. ASSUME NEW w \in Workers, PoolStep(w) PROVE HandOvers'
  <2>1. CASE DeliverCancel(w)
    BY <1>1, <2>1 DEF DeliverCancel
  <2>2. ASSUME NEW s \in Slots, Settle(w, s) PROVE HandOvers'
    <3>1. slot' = [slot EXCEPT ![w][s] = NoTask]
      BY <2>2 DEF Settle
    <3>2. \A v \in Workers, z \in Slots :
             slot[v][z] = NoTask => slot'[v][z] = NoTask
      BY <1>0, <3>1
    <3> QED
      BY <2>2, <3>2, HandOverKept DEF Settle
  <2>3. ASSUME NEW s \in Slots, Heartbeat(w, s) PROVE HandOvers'
    BY <1>1, <2>3 DEF Heartbeat, workerVars, poolVars
  <2> QED
    BY <1>3, <2>1, <2>2, <2>3 DEF PoolStep
<1>4. ASSUME NEW w \in Workers, Crash(w) PROVE HandOvers'
  BY <1>0, <1>4 DEF Crash, HandOvers, HandOver
<1>5. ASSUME NEW w \in Workers, RecoveryStep(w) PROVE HandOvers'
  BY <1>1, <1>5
     DEF RecoveryStep, JobStep, SettleRead, SettleFinal, DeadLetter, ReleaseRow,
         Schedule, SettleError, Sweep, SweepError, TimerFires, TimerError,
         restUnchanged, poolVars
<1>6. ASSUME NEW w \in Workers, ReconcilerStep(w) PROVE HandOvers'
  BY <1>1, <1>6
     DEF ReconcilerStep, Reconcile, ReadQueue, Restore, ReconcileError,
         reconcilerKeeps, poolVars
<1>7. ASSUME NEW r \in Requests, RequestStep(r) PROVE HandOvers'
  BY <1>1, <1>7
     DEF RequestStep, Create, CreateEnqueue, Cancel, CancelRemove, CancelQueued,
         CancelFallsThrough, CancelMark, CancelPublish, Retry, RetryReset,
         RetryEnqueue, RequestError, workerVars, poolVars
<1>8. CASE \/ Flush
           \/ \E t \in Tasks : LeaseLapses(t) \/ RowSettles(t)
           \/ \E w \in Workers : Start(w)
  BY <1>1, <1>8 DEF Flush, LeaseLapses, RowSettles, Start, workerVars, poolVars
<1>9. CASE UNCHANGED vars
  BY <1>1, <1>9 DEF vars, poolVars
<1> QED
  BY <1>2, <1>3, <1>4, <1>5, <1>6, <1>7, <1>8, <1>9 DEF Next

LEMMA HandOversInvariance == Spec => []HandOvers
<1>1. Init => HandOvers
  BY DEF Init, HandOvers, HandOver
<1> QED
  BY <1>1, HandOversNext, TypeCorrect, PTL DEF Spec

(* The branch of the dispatcher that puts a claimed task back for want of  *)
(* a worker is dead code, with any number of workers and slots.            *)
THEOREM SlotAlwaysFound == Spec => []SlotForClaimed
<1>1. HandOvers => SlotForClaimed
  BY DEF HandOvers, HandOver, SlotForClaimed, FreeSlots
<1> QED
  BY <1>1, HandOversInvariance, PTL

=============================================================================

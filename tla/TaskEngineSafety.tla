-------------------------- MODULE TaskEngineSafety --------------------------
(***************************************************************************)
(* Proofs of the safety of TaskEngine where leases outlive the work they   *)
(* cover and no row is reaped twice: either a single reaper sweeps at a    *)
(* time (the deployment the repository describes, one worker process, in   *)
(* every environment), or nothing dies or fails and no reaper has anything *)
(* to do (any number of workers).  Any number of tasks, slots, requests.   *)
(*                                                                         *)
(* The argument.  Whoever may still write the row of a held task without a *)
(* status predicate is one of: the dispatcher that claimed it, the slot    *)
(* that runs it, the settlement of its outcome, or the reaper that found   *)
(* its lease expired.  There is never more than one of them, the first     *)
(* three only while the lease is live, the last only once it has expired,  *)
(* and the copies of `attempts` they carry are current.                    *)
(***************************************************************************)
EXTENDS TaskEngineProofs

\* One sweep at a time, in one worker.
SoleReaper == \A v, w \in Workers : v = w /\ \A k, l \in Sweeps : k = l

\* No worker dies and no statement or command fails.
Reliable == Environment \cap {"crash", "error"} = {}

\* Outcomes that still have to be recorded, and rows of a batch to be released.
Settling(w) == {j \in jobs[w] : j.by \in Slots /\ j.next # "schedule"}
Reaping(w) == {j \in jobs[w] : j.by \in Sweeps /\ j.next # "schedule"}

Worked(w, t) == status[t] \in Held /\ owner[t] = w /\ lease[t] = "live"

\* The row agrees with what its worker is doing.
RowsAgree ==
    \A w \in Workers :
        /\ claimed[w] # NoTask => Worked(w, claimed[w])
        /\ \A s \in Slots : slot[w][s] # NoTask => Worked(w, slot[w][s])
        /\ \A j \in Settling(w) :
             /\ Worked(w, j.task)
             /\ j.next = "write" => j.attempts = attempts[j.task]
        /\ \A j \in Reaping(w) :
             /\ status[j.task] \in Held /\ lease[j.task] = "expired"
             /\ j.next = "write" /\ j.attempts = attempts[j.task]

\* No task is in two of these places.  The owner of the row keeps workers apart
\* as long as a lease is live, nothing but this keeps their reapers apart.
Disjoint ==
    \A w \in Workers :
        /\ claimed[w] # NoTask =>
             /\ \A s \in Slots : slot[w][s] # claimed[w]
             /\ \A j \in Settling(w) : j.task # claimed[w]
        /\ \A a, b \in Slots :
             slot[w][a] # NoTask /\ slot[w][a] = slot[w][b] => a = b
        /\ \A s \in Slots, j \in Settling(w) : j.task # slot[w][s]
        /\ \A i, j \in Settling(w) : i.task = j.task => i = j
        /\ \A v \in Workers : \A i \in Reaping(v), j \in Reaping(w) :
             i.task = j.task => v = w /\ i = j

\* A row that does not exist yet has spent nothing.
Fresh == \A t \in Tasks : status[t] = "absent" => attempts[t] = 0

Safe == RowsAgree /\ Disjoint /\ RetryBudget /\ Fresh

\* Where no work is ever lost, no lease expires and no reaper acts.
Steady ==
    \A t \in Tasks : status[t] \in Held =>
        lease[t] = "live" /\ \E w \in Workers : Working(w, t)

-----------------------------------------------------------------------------
(* What a statement does to the other rows, and to the attempt counters.   *)

Same(t) ==
    /\ status'[t] = status[t] /\ attempts'[t] = attempts[t]
    /\ owner'[t] = owner[t] /\ lease'[t] = lease[t]

LEMMA WriteRow ==
    ASSUME TableTypeOK, NEW t \in Tasks, NEW s, NEW n, NEW w, NEW l,
           Write(t, s, n, w, l)
    PROVE  /\ status'[t] = s /\ attempts'[t] = n
           /\ owner'[t] = w /\ lease'[t] = l
           /\ \A u \in Tasks \ {t} : Same(u)
BY DEF TableTypeOK, Write, Same

LEMMA BudgetKept ==
    ASSUME TableTypeOK, RetryBudget, Fresh, NEW t \in Tasks, NEW s, NEW n,
           NEW w, NEW l, Write(t, s, n, w, l),
           n <= MaxAttempts, s # "absent",
           s = "queued" => n < MaxAttempts,
           s = "dead_letter" => n = MaxAttempts
    PROVE  RetryBudget' /\ Fresh'
<1>1. /\ status'[t] = s /\ attempts'[t] = n
      /\ \A u \in Tasks \ {t} : Same(u)
  BY WriteRow
<1> QED
  BY <1>1 DEF RetryBudget, Fresh, Same

LEMMA BudgetSame ==
    ASSUME RetryBudget, Fresh, UNCHANGED <<status, attempts>>
    PROVE  RetryBudget' /\ Fresh'
BY DEF RetryBudget, Fresh

-----------------------------------------------------------------------------
(* Steps that give nobody new work.  What is still handled afterwards has  *)
(* kept its row, so the row still agrees with its handler.                 *)

Handled(t) ==
    \E w \in Workers :
        \/ claimed[w] = t
        \/ \E s \in Slots : slot[w][s] = t
        \/ \E j \in Settling(w) \cup Reaping(w) : j.task = t

\* What MarkCancelling leaves of a row is enough for its handler.
Kept(t) ==
    /\ status[t] \in Held => status'[t] \in Held
    /\ attempts'[t] = attempts[t]
    /\ owner'[t] = owner[t] /\ lease'[t] = lease[t]

NoNewWork ==
    \A w \in Workers :
        /\ claimed'[w] \in {claimed[w], NoTask}
        /\ \A s \in Slots : slot'[w][s] \in {slot[w][s], NoTask}
        /\ Settling(w)' \subseteq Settling(w)
        /\ Reaping(w)' \subseteq Reaping(w)

LEMMA NoNewWorkOK ==
    ASSUME TypeOK, TypeOK', RowsAgree, Disjoint, NoNewWork,
           \A t \in Tasks : Handled(t)' => Kept(t)
    PROVE  RowsAgree' /\ Disjoint'
<1>1. ASSUME NEW w \in Workers
      PROVE  /\ claimed'[w] \in Tasks \cup {NoTask}
             /\ \A s \in Slots : slot'[w][s] \in Tasks \cup {NoTask}
             /\ \A j \in Settling(w)' \cup Reaping(w)' : j.task \in Tasks
  BY DEF TypeOK, Settling, Reaping, Jobs
<1>2. ASSUME NEW w \in Workers, claimed'[w] # NoTask
      PROVE  Worked(w, claimed[w])' /\ claimed'[w] = claimed[w]
  <2>1. claimed'[w] = claimed[w] /\ claimed'[w] \in Tasks
    BY <1>1, <1>2 DEF NoNewWork
  <2>2. Kept(claimed[w])
    BY <2>1 DEF Handled
  <2> QED
    BY <1>2, <2>1, <2>2 DEF RowsAgree, Worked, Kept
<1>3. ASSUME NEW w \in Workers, NEW s \in Slots, slot'[w][s] # NoTask
      PROVE  Worked(w, slot[w][s])' /\ slot'[w][s] = slot[w][s]
  <2>1. slot'[w][s] = slot[w][s] /\ slot'[w][s] \in Tasks
    BY <1>1, <1>3 DEF NoNewWork
  <2>2. Kept(slot[w][s])
    BY <2>1 DEF Handled
  <2> QED
    BY <1>3, <2>1, <2>2 DEF RowsAgree, Worked, Kept
<1>4. ASSUME NEW w \in Workers, NEW j \in Settling(w)'
      PROVE  /\ Worked(w, j.task)' /\ j \in Settling(w)
             /\ j.next = "write" => j.attempts = attempts'[j.task]
  <2>1. j \in Settling(w) /\ j.task \in Tasks
    BY <1>1 DEF NoNewWork
  <2>2. Kept(j.task)
    BY <2>1 DEF Handled
  <2> QED
    BY <2>1, <2>2 DEF RowsAgree, Worked, Kept
<1>5. ASSUME NEW w \in Workers, NEW j \in Reaping(w)'
      PROVE  /\ status'[j.task] \in Held /\ lease'[j.task] = "expired"
             /\ j.next = "write" /\ j.attempts = attempts'[j.task]
             /\ j \in Reaping(w)
  <2>1. j \in Reaping(w) /\ j.task \in Tasks
    BY <1>1 DEF NoNewWork
  <2>2. Kept(j.task)
    BY <2>1 DEF Handled
  <2> QED
    BY <2>1, <2>2 DEF RowsAgree, Kept
<1>6. RowsAgree'
  BY <1>2, <1>3, <1>4, <1>5 DEF RowsAgree
<1>7. Disjoint'
  <2> SUFFICES ASSUME NEW w \in Workers
               PROVE  /\ claimed'[w] # NoTask =>
                           /\ \A s \in Slots : slot'[w][s] # claimed'[w]
                           /\ \A j \in Settling(w)' : j.task # claimed'[w]
                      /\ \A a, b \in Slots :
                           slot'[w][a] # NoTask /\ slot'[w][a] = slot'[w][b]
                             => a = b
                      /\ \A s \in Slots, j \in Settling(w)' :
                           j.task # slot'[w][s]
                      /\ \A i, j \in Settling(w)' : i.task = j.task => i = j
                      /\ \A v \in Workers : \A i \in Reaping(v)', j \in Reaping(w)' :
                           i.task = j.task => v = w /\ i = j
    BY DEF Disjoint
  <2>1. \A j \in Settling(w)' : j.task # NoTask
    BY <1>1, NoTaskAssumption
  <2> QED
    BY <1>2, <1>3, <1>4, <1>5, <2>1 DEF Disjoint
<1> QED
  BY <1>6, <1>7

workVars == <<claimed, slot, jobs>>

LEMMA WorkUnchanged ==
    ASSUME UNCHANGED workVars
    PROVE  NoNewWork /\ \A t \in Tasks : Handled(t)' => Handled(t)
BY DEF workVars, NoNewWork, Handled, Settling, Reaping

LEMMA HandledIsHeld ==
    ASSUME RowsAgree, NEW t \in Tasks, Handled(t)
    PROVE  status[t] \in Held
BY NoTaskAssumption DEF RowsAgree, Handled, Worked

\* The table is left alone.
LEMMA SafeTableSame ==
    ASSUME TypeOK, TypeOK', Safe, NoNewWork, UNCHANGED tableVars
    PROVE  Safe'
<1>1. \A t \in Tasks : Kept(t)
  BY DEF tableVars, Kept
<1> QED
  BY <1>1, NoNewWorkOK, BudgetSame DEF Safe, tableVars

\* One row is written and nobody handles it any more.
LEMMA SafeWrite ==
    ASSUME TypeOK, TypeOK', Safe, NoNewWork,
           NEW t \in Tasks, NEW s, NEW n, NEW w, NEW l, Write(t, s, n, w, l),
           n <= MaxAttempts, s # "absent",
           s = "queued" => n < MaxAttempts,
           s = "dead_letter" => n = MaxAttempts,
           ~ Handled(t)'
    PROVE  Safe'
<1>1. TableTypeOK
  BY DEF TypeOK
<1>2. \A u \in Tasks : Handled(u)' => Kept(u)
  BY <1>1, WriteRow DEF Same, Kept
<1> QED
  BY <1>1, <1>2, NoNewWorkOK, BudgetKept DEF Safe

-----------------------------------------------------------------------------
(* The api process writes queued, cancelled and dead letters, which nobody *)
(* handles, and takes running to cancelling, which its handler survives.   *)

LEMMA RequestStepSafe ==
    ASSUME IInv, TypeOK, TypeOK', Safe, NEW r \in Requests, RequestStep(r)
    PROVE  Safe'
<1>0. /\ stage[r] # "idle" => subject[r] \in Tasks
      /\ TableTypeOK /\ RetryBudget /\ Fresh /\ RowsAgree
  BY DEF IInv, RequestOK, TypeOK, Safe
<1>1. UNCHANGED workVars
  BY DEF RequestStep, Create, CreateEnqueue, Cancel, CancelRemove, CancelQueued,
         CancelFallsThrough, CancelMark, CancelPublish, Retry, RetryReset,
         RetryEnqueue, RequestError, workerVars, poolVars, dispatchVars,
         recoveryVars, workVars
<1>2. NoNewWork /\ \A t \in Tasks : status[t] \notin Held => ~ Handled(t)'
  BY <1>0, <1>1, WorkUnchanged, HandledIsHeld
<1>3. CASE UNCHANGED tableVars
  BY <1>2, <1>3, SafeTableSame
<1>4. ASSUME NEW t \in Tasks, Create(r, t) PROVE Safe'
  <2>1. Write(t, "queued", 0, NoWorker, "none") /\ ~ Handled(t)'
    BY <1>2, <1>4 DEF Create, Insert, Held
  <2> QED
    BY <1>2, <2>1, SafeWrite, MaxAttemptsAssumption
<1>5. CASE CancelQueued(r)
  <2>0. PICK t \in Tasks : t = subject[r]
    BY <1>0, <1>5 DEF CancelQueued
  <2>1. status[t] = "queued"
    BY <1>5, <2>0 DEF CancelQueued, CancelQueuedRow
  <2>2. ~ Handled(t)' /\ attempts[t] <= MaxAttempts
    BY <1>0, <1>2, <2>1 DEF Held, RetryBudget
  <2>3. Write(t, "cancelled", attempts[t], owner[t], lease[t])
    BY <1>5, <2>0 DEF CancelQueued, CancelQueuedRow
  <2> QED
    BY <1>2, <2>2, <2>3, SafeWrite
<1>6. CASE CancelMark(r)
  <2>1. PICK t \in Tasks : t = subject[r]
    BY <1>0, <1>6 DEF CancelMark
  <2>2. CASE status[t] = "running"
    <3>1. Write(t, "cancelling", attempts[t], owner[t], lease[t])
      BY <1>6, <2>1, <2>2 DEF CancelMark, MarkCancelling
    <3>2. \A u \in Tasks : Kept(u)
      BY <1>0, <2>2, <3>1, WriteRow DEF Same, Kept, Held
    <3>3. RetryBudget' /\ Fresh'
      BY <1>0, <3>1, BudgetKept DEF RetryBudget
    <3> QED
      BY <1>2, <3>2, <3>3, NoNewWorkOK DEF Safe
  <2>3. CASE status[t] # "running"
    BY <1>3, <1>6, <2>1, <2>3 DEF CancelMark, MarkCancelling
  <2> QED
    BY <2>2, <2>3
<1>7. CASE RetryReset(r)
  <2>1. PICK t \in Tasks : t = subject[r]
    BY <1>0, <1>7 DEF RetryReset
  <2>2. CASE status[t] = "dead_letter"
    <3>1. Write(t, "queued", 0, NoWorker, "none") /\ ~ Handled(t)'
      BY <1>2, <1>7, <2>1, <2>2 DEF RetryReset, ResetForManualRetry, Held
    <3> QED
      BY <1>2, <3>1, SafeWrite, MaxAttemptsAssumption
  <2>3. CASE status[t] # "dead_letter"
    BY <1>3, <1>7, <2>1, <2>3 DEF RetryReset, ResetForManualRetry
  <2> QED
    BY <2>2, <2>3
<1> QED
  BY <1>3, <1>4, <1>5, <1>6, <1>7
     DEF RequestStep, CreateEnqueue, Cancel, CancelRemove, CancelFallsThrough,
         CancelPublish, Retry, RetryEnqueue, RequestError

-----------------------------------------------------------------------------
(* Time, crashes, the reconciler.  A punctual lease lapses only when its   *)
(* handler is gone; a lapsed one belongs to the reaper.                    *)

LEMMA LeaseLapsesSafe ==
    ASSUME Punctual, TypeOK, TypeOK', Safe, NEW t \in Tasks, LeaseLapses(t)
    PROVE  Safe'
<1>1. UNCHANGED workVars
  BY DEF LeaseLapses, workerVars, dispatchVars, poolVars, recoveryVars, workVars
<1>2. ~ Handled(t)
  BY DEF LeaseLapses, Attended, Handled, Settling, Reaping, Safe, RowsAgree
<1>3. \A u \in Tasks \ {t} : Same(u)
  BY DEF LeaseLapses, Same, TypeOK, TableTypeOK
<1>4. NoNewWork /\ \A u \in Tasks : Handled(u)' => Kept(u)
  BY <1>1, <1>2, <1>3, WorkUnchanged DEF Same, Kept
<1>5. UNCHANGED <<status, attempts>>
  BY DEF LeaseLapses
<1> QED
  BY <1>4, <1>5, NoNewWorkOK, BudgetSame DEF Safe

LEMMA EnvironmentSafe ==
    ASSUME Punctual, TypeOK, TypeOK', Safe,
           \/ Flush
           \/ \E t \in Tasks : LeaseLapses(t) \/ RowSettles(t)
           \/ \E w \in Workers : Crash(w) \/ Start(w)
    PROVE  Safe'
<1>1. CASE Flush
  BY <1>1, WorkUnchanged, SafeTableSame
     DEF Flush, workerVars, dispatchVars, poolVars, recoveryVars, workVars
<1>2. ASSUME NEW t \in Tasks, LeaseLapses(t) PROVE Safe'
  BY <1>2, LeaseLapsesSafe
<1>3. ASSUME NEW t \in Tasks, RowSettles(t) PROVE Safe'
  <2>1. NoNewWork
    BY <1>3, WorkUnchanged
       DEF RowSettles, workerVars, dispatchVars, poolVars, recoveryVars, workVars
  <2>2. UNCHANGED <<status, attempts, owner, lease>>
    BY <1>3 DEF RowSettles
  <2>3. \A u \in Tasks : Kept(u)
    BY <2>2 DEF Kept
  <2> QED
    BY <2>1, <2>2, <2>3, NoNewWorkOK, BudgetSame DEF Safe
<1>4. ASSUME NEW w \in Workers, Crash(w) PROVE Safe'
  <2>1. NoNewWork
    BY <1>4 DEF Crash, NoNewWork, Settling, Reaping, TypeOK
  <2> QED
    BY <1>4, <2>1, SafeTableSame DEF Crash
<1>5. ASSUME NEW w \in Workers, Start(w) PROVE Safe'
  BY <1>5, WorkUnchanged, SafeTableSame
     DEF Start, dispatchVars, poolVars, recoveryVars, workVars
<1> QED
  BY <1>1, <1>2, <1>3, <1>4, <1>5

LEMMA ReconcilerStepSafe ==
    ASSUME TypeOK, TypeOK', Safe, NEW w \in Workers, ReconcilerStep(w)
    PROVE  Safe'
<1>1. UNCHANGED <<tableVars, workVars>>
  BY DEF ReconcilerStep, Reconcile, ReadQueue, Restore, ReconcileError,
         reconcilerKeeps, dispatchVars, poolVars, recoveryVars, workVars
<1> QED
  BY <1>1, WorkUnchanged, SafeTableSame

-----------------------------------------------------------------------------
(* The dispatcher.  Nobody handles a queued row, so a claimed task is only *)
(* in the hands of the worker that claimed it.                             *)

LEMMA ClaimSafe ==
    ASSUME TypeOK, TypeOK', Safe, NEW w \in Workers, Claim(w)
    PROVE  Safe'
<1>0. PICK t \in Tasks : t = popped[w]
  BY DEF Claim, TypeOK
<1>1. /\ status[t] = "queued" /\ ~ Handled(t)
      /\ Write(t, "running", attempts[t] + 1, w, "live")
  BY <1>0, HandledIsHeld DEF Claim, ClaimRow, Safe, Held
<1>2. /\ claimed'[w] = t /\ slot' = slot
      /\ \A v \in Workers : v # w => claimed'[v] = claimed[v]
      /\ \A v \in Workers : Settling(v)' = Settling(v) /\ Reaping(v)' = Reaping(v)
  BY <1>0 DEF Claim, TypeOK, poolVars, recoveryVars, Settling, Reaping
<1>3. /\ status'[t] = "running" /\ owner'[t] = w /\ lease'[t] = "live"
      /\ \A u \in Tasks \ {t} : Same(u)
  BY <1>1, WriteRow DEF TypeOK
<1>4. ASSUME NEW v \in Workers
      PROVE  /\ claimed[v] # t /\ claimed[v] \in Tasks \cup {NoTask}
             /\ \A s \in Slots : slot[v][s] # t /\ slot[v][s] \in Tasks \cup {NoTask}
             /\ \A j \in Settling(v) \cup Reaping(v) : j.task # t /\ j.task \in Tasks
  BY <1>1 DEF Handled, TypeOK, Settling, Reaping, Jobs
<1>5. ASSUME NEW v \in Workers
      PROVE  /\ claimed'[v] # NoTask => Worked(v, claimed[v])'
             /\ \A s \in Slots : slot'[v][s] # NoTask => Worked(v, slot[v][s])'
             /\ \A j \in Settling(v)' :
                  /\ Worked(v, j.task)'
                  /\ j.next = "write" => j.attempts = attempts'[j.task]
             /\ \A j \in Reaping(v)' :
                  /\ status'[j.task] \in Held /\ lease'[j.task] = "expired"
                  /\ j.next = "write" /\ j.attempts = attempts'[j.task]
  <2>1. claimed'[v] # NoTask => Worked(v, claimed[v])'
    <3>1. CASE v = w
      BY <1>2, <1>3, <3>1 DEF Worked, Held
    <3>2. CASE v # w
      BY <1>2, <1>3, <1>4, <3>2 DEF Safe, RowsAgree, Worked, Same
    <3> QED
      BY <3>1, <3>2
  <2>2. \A s \in Slots : slot'[v][s] # NoTask => Worked(v, slot[v][s])'
    BY <1>2, <1>3, <1>4 DEF Safe, RowsAgree, Worked, Same
  <2>3. \A j \in Settling(v)' :
          /\ Worked(v, j.task)'
          /\ j.next = "write" => j.attempts = attempts'[j.task]
    BY <1>2, <1>3, <1>4 DEF Safe, RowsAgree, Worked, Same
  <2>4. \A j \in Reaping(v)' :
          /\ status'[j.task] \in Held /\ lease'[j.task] = "expired"
          /\ j.next = "write" /\ j.attempts = attempts'[j.task]
    BY <1>2, <1>3, <1>4 DEF Safe, RowsAgree, Same
  <2> QED
    BY <2>1, <2>2, <2>3, <2>4
<1>6. RowsAgree'
  BY <1>5 DEF RowsAgree
<1>7. Disjoint'
  BY <1>2, <1>4 DEF Safe, Disjoint
<1>8. RetryBudget' /\ Fresh'
  <2>1. attempts[t] < MaxAttempts /\ attempts[t] \in Nat
    BY <1>1 DEF Safe, RetryBudget, TypeOK, TableTypeOK
  <2>2. attempts[t] + 1 <= MaxAttempts
    BY <2>1, MaxAttemptsAssumption
  <2> QED
    BY <1>1, <2>2, BudgetKept DEF Safe, TypeOK
<1> QED
  BY <1>6, <1>7, <1>8 DEF Safe

LEMMA RunSafe ==
    ASSUME TypeOK, TypeOK', Safe, NEW w \in Workers, Run(w)
    PROVE  Safe'
<1>1. PICK s \in Slots : /\ slot[w][s] = NoTask
                         /\ slot' = [slot EXCEPT ![w][s] = claimed[w]]
  BY DEF Run, FreeSlots
<1>2. /\ claimed[w] # NoTask /\ claimed'[w] = NoTask
      /\ UNCHANGED <<status, attempts, owner, lease>>
      /\ \A v \in Workers : Settling(v)' = Settling(v) /\ Reaping(v)' = Reaping(v)
  BY DEF Run, TypeOK, recoveryVars, tableVars, Settling, Reaping
<1>3. /\ slot'[w][s] = claimed[w]
      /\ \A z \in Slots \ {s} : slot'[w][z] = slot[w][z]
      /\ \A v \in Workers : v # w => claimed'[v] = claimed[v] /\ slot'[v] = slot[v]
  BY <1>1 DEF TypeOK, Run
<1>4. RowsAgree'
  BY <1>2, <1>3 DEF Safe, RowsAgree, Worked
<1>5. Disjoint'
  BY <1>2, <1>3 DEF Safe, Disjoint
<1>6. RetryBudget' /\ Fresh'
  BY <1>2, BudgetSame DEF Safe
<1> QED
  BY <1>4, <1>5, <1>6 DEF Safe

LEMMA DispatcherStepSafe ==
    ASSUME TypeOK, TypeOK', Safe, NEW w \in Workers, DispatcherStep(w)
    PROVE  Safe'
<1>1. CASE Pop(w) \/ ClaimLost(w)
  BY <1>1, WorkUnchanged, SafeTableSame
     DEF Pop, ClaimLost, poolVars, recoveryVars, workVars
<1>2. CASE DispatchError(w)
  <2>1. NoNewWork
    BY <1>2 DEF DispatchError, NoNewWork, Settling, Reaping, TypeOK,
                poolVars, recoveryVars
  <2> QED
    BY <1>2, <2>1, SafeTableSame DEF DispatchError
<1> QED
  BY <1>1, <1>2, ClaimSafe, RunSafe DEF DispatcherStep

-----------------------------------------------------------------------------
(* The pool.  A settled slot passes its task on to the settlement.         *)

LEMMA SettleSafe ==
    ASSUME TypeOK, TypeOK', Safe, NEW w \in Workers, NEW s \in Slots,
           Settle(w, s)
    PROVE  Safe'
<1>1. PICK o \in ThreadOutcomes :
        jobs' = [jobs EXCEPT ![w] = @ \cup
                   {[by |-> s, task |-> slot[w][s], outcome |-> o,
                     next |-> "read", attempts |-> 0]}]
  BY DEF Settle
<1>2. PICK n : n = [by |-> s, task |-> slot[w][s], outcome |-> o,
                    next |-> "read", attempts |-> 0]
  OBVIOUS
<1>3. /\ n.by \in Slots \ Sweeps /\ n.task = slot[w][s] /\ n.next = "read"
      /\ slot[w][s] # NoTask
  BY <1>2, SlotsAndSweepsAssumption DEF Settle
<1>4. jobs'[w] = jobs[w] \cup {n} /\ \A v \in Workers : v # w => jobs'[v] = jobs[v]
  BY <1>1, <1>2 DEF TypeOK
<1>5. /\ Settling(w)' = Settling(w) \cup {n}
      /\ \A v \in Workers : v # w => Settling(v)' = Settling(v)
      /\ \A v \in Workers : Reaping(v)' = Reaping(v)
  BY <1>3, <1>4 DEF Settling, Reaping
<1>6. /\ claimed' = claimed /\ UNCHANGED <<status, attempts, owner, lease>>
      /\ slot'[w][s] = NoTask
      /\ \A z \in Slots \ {s} : slot'[w][z] = slot[w][z]
      /\ \A v \in Workers : v # w => slot'[v] = slot[v]
  BY DEF Settle, TypeOK, dispatchVars, tableVars
<1>7. RowsAgree'
  BY <1>3, <1>5, <1>6 DEF Safe, RowsAgree, Worked
<1>8. Disjoint'
  <2>1. \A j \in Settling(w) : j.task # NoTask /\ j.task # n.task
    BY <1>3, NoTaskAssumption DEF Safe, Disjoint, Settling, TypeOK, Jobs
  <2>2. \A i, j \in Settling(w)' : i.task = j.task => i = j
    BY <1>5, <2>1 DEF Safe, Disjoint
  <2>3. \A z \in Slots, j \in Settling(w)' : j.task # slot'[w][z]
    <3>1. \A z \in Slots \ {s} : slot[w][z] # n.task
      BY <1>3 DEF Safe, Disjoint
    <3> QED
      BY <1>3, <1>5, <1>6, <2>1, <3>1 DEF Safe, Disjoint
  <2>4. \A a, b \in Slots :
          slot'[w][a] # NoTask /\ slot'[w][a] = slot'[w][b] => a = b
    BY <1>6 DEF Safe, Disjoint
  <2>5. claimed'[w] # NoTask =>
          /\ \A z \in Slots : slot'[w][z] # claimed'[w]
          /\ \A j \in Settling(w)' : j.task # claimed'[w]
    BY <1>3, <1>5, <1>6 DEF Safe, Disjoint
  <2>6. \A u, v \in Workers : \A i \in Reaping(u)', j \in Reaping(v)' :
          i.task = j.task => u = v /\ i = j
    BY <1>5 DEF Safe, Disjoint
  <2>7. ASSUME NEW v \in Workers, v # w
        PROVE  /\ claimed'[v] # NoTask =>
                    /\ \A z \in Slots : slot'[v][z] # claimed'[v]
                    /\ \A j \in Settling(v)' : j.task # claimed'[v]
               /\ \A a, b \in Slots :
                    slot'[v][a] # NoTask /\ slot'[v][a] = slot'[v][b] => a = b
               /\ \A z \in Slots, j \in Settling(v)' : j.task # slot'[v][z]
               /\ \A i, j \in Settling(v)' : i.task = j.task => i = j
    BY <1>5, <1>6, <2>7 DEF Safe, Disjoint
  <2> QED
    BY <2>2, <2>3, <2>4, <2>5, <2>6, <2>7 DEF Disjoint
<1>9. RetryBudget' /\ Fresh'
  BY <1>6, BudgetSame DEF Safe
<1> QED
  BY <1>7, <1>8, <1>9 DEF Safe

\* A heartbeat finds a row that is held with a live lease, and changes nothing.
LEMMA HeartbeatSame ==
    ASSUME TypeOK, Safe, NEW w \in Workers, NEW s \in Slots, Heartbeat(w, s)
    PROVE  /\ UNCHANGED <<status, attempts, owner, lease>>
           /\ UNCHANGED <<redisVars, workerVars, requestVars>>
<1> DEFINE t == slot[w][s]
<1>1. /\ t # NoTask /\ RenewLease(t)
      /\ UNCHANGED <<redisVars, workerVars, requestVars>>
  BY DEF Heartbeat
<1>2. Worked(w, t) /\ t \in Tasks
  BY <1>1 DEF Safe, RowsAgree, TypeOK
<1> HIDE DEF t
<1>3. Write(t, status[t], attempts[t], owner[t], "live") /\ lease[t] = "live"
  BY <1>1, <1>2 DEF RenewLease, Worked
<1>4. UNCHANGED <<status, attempts, owner, lease>>
  BY <1>2, <1>3 DEF Write, TypeOK, TableTypeOK
<1> QED
  BY <1>1, <1>4

LEMMA PoolStepSafe ==
    ASSUME TypeOK, TypeOK', Safe, NEW w \in Workers, PoolStep(w)
    PROVE  Safe'
<1>1. CASE DeliverCancel(w)
  BY <1>1, WorkUnchanged, SafeTableSame
     DEF DeliverCancel, dispatchVars, recoveryVars, workVars
<1>2. ASSUME NEW s \in Slots, Heartbeat(w, s) PROVE Safe'
  <2>1. UNCHANGED <<status, attempts, owner, lease>> /\ UNCHANGED workVars
    BY <1>2, HeartbeatSame DEF workerVars, dispatchVars, poolVars, recoveryVars, workVars
  <2>2. \A t \in Tasks : Kept(t)
    BY <2>1 DEF Kept
  <2> QED
    BY <2>1, <2>2, WorkUnchanged, NoNewWorkOK, BudgetSame DEF Safe
<1> QED
  BY <1>1, <1>2, SettleSafe DEF PoolStep

-----------------------------------------------------------------------------
(* Settling and recovery.  The write of a settlement or of a reaper finds  *)
(* the row as it was read and takes it from its last handler.              *)

\* The job of a task is the only one who handles it, on any worker.
LEMMA JobHandles ==
    ASSUME TypeOK, Safe, NEW w \in Workers,
           NEW j \in jobs[w], j.next # "schedule"
    PROVE  /\ j \in Settling(w) \cup Reaping(w)
           /\ j.task \in Tasks /\ j.task # NoTask
           /\ \A v \in Workers :
                /\ claimed[v] # j.task /\ \A s \in Slots : slot[v][s] # j.task
                /\ \A i \in Settling(v) \cup Reaping(v) :
                     i.task = j.task => v = w /\ i = j
           /\ status[j.task] \in Held
           /\ j.next = "write" => j.attempts = attempts[j.task]
<1>1. j \in Settling(w) \cup Reaping(w) /\ j.task \in Tasks
  BY DEF TypeOK, Jobs, Settling, Reaping
<1>2. j.task # NoTask
  BY <1>1, NoTaskAssumption
<1>3. CASE j \in Settling(w)
  <2>1. Worked(w, j.task) /\ (j.next = "write" => j.attempts = attempts[j.task])
    BY <1>3 DEF Safe, RowsAgree
  <2>2. ASSUME NEW v \in Workers, v # w
        PROVE  /\ claimed[v] # j.task /\ \A s \in Slots : slot[v][s] # j.task
               /\ \A i \in Settling(v) : i.task # j.task
    BY <1>2, <2>1, <2>2 DEF Safe, RowsAgree, Worked
  <2>3. /\ claimed[w] # j.task /\ \A s \in Slots : slot[w][s] # j.task
        /\ \A i \in Settling(w) : i.task = j.task => i = j
    BY <1>2, <1>3 DEF Safe, Disjoint
  <2>4. \A v \in Workers : \A i \in Reaping(v) : i.task # j.task
    BY <2>1 DEF Safe, RowsAgree, Worked
  <2> QED
    BY <1>1, <1>2, <2>1, <2>2, <2>3, <2>4 DEF Worked
<1>4. CASE j \in Reaping(w)
  <2>1. /\ status[j.task] \in Held /\ lease[j.task] # "live"
        /\ j.attempts = attempts[j.task]
    BY <1>4 DEF Safe, RowsAgree
  <2>2. ASSUME NEW v \in Workers
        PROVE  /\ claimed[v] # j.task /\ \A s \in Slots : slot[v][s] # j.task
               /\ \A i \in Settling(v) : i.task # j.task
    BY <1>2, <2>1 DEF Safe, RowsAgree, Worked
  <2>3. \A v \in Workers : \A i \in Reaping(v) : i.task = j.task => v = w /\ i = j
    BY <1>4 DEF Safe, Disjoint
  <2> QED
    BY <1>1, <1>2, <2>1, <2>2, <2>3
<1> QED
  BY <1>1, <1>3, <1>4

LEMMA JobWriteSafe ==
    ASSUME TypeOK, TypeOK', Safe, NEW w \in Workers,
           NEW j \in jobs[w], j.next = "write",
           NEW rest \in SUBSET Jobs, \A i \in rest : i.next = "schedule",
           Advance(w, j, rest), UNCHANGED <<claimed, slot>>,
           NEW s \in {"queued", "completed", "failed", "cancelled",
                      "dead_letter"}, Release(j.task, s),
           s = "queued" => j.attempts < MaxAttempts,
           s = "dead_letter" => j.attempts >= MaxAttempts
    PROVE  Safe'
<1>0. PICK t \in Tasks : t = j.task
  BY JobHandles
<1>1. /\ Settling(w)' = Settling(w) \ {j} /\ Reaping(w)' = Reaping(w) \ {j}
      /\ \A v \in Workers : v # w => /\ Settling(v)' = Settling(v)
                                     /\ Reaping(v)' = Reaping(v)
  BY DEF Advance, TypeOK, Settling, Reaping
<1>2. NoNewWork
  BY <1>1 DEF NoNewWork
<1>3. ~ Handled(t)'
  <2>1. \A v \in Workers :
          /\ claimed[v] # t /\ \A z \in Slots : slot[v][z] # t
          /\ \A i \in Settling(v) \cup Reaping(v) : i.task = t => v = w /\ i = j
    BY <1>0, JobHandles
  <2>2. \A v \in Workers : \A i \in Settling(v)' \cup Reaping(v)' : i.task # t
    BY <1>1, <2>1
  <2> QED
    BY <2>1, <2>2 DEF Handled
<1>4. attempts[t] <= MaxAttempts /\ j.attempts = attempts[t]
  BY <1>0, JobHandles DEF Safe, RetryBudget
<1>5. s = "dead_letter" => attempts[t] = MaxAttempts
  <2>1. attempts[t] \in Nat
    BY DEF TypeOK, TableTypeOK
  <2>2. CASE s = "dead_letter"
    <3>1. attempts[t] >= MaxAttempts
      BY <1>4, <2>2
    <3> QED
      BY <1>4, <2>1, <3>1, MaxAttemptsAssumption
  <2> QED
    BY <2>2
<1>6. Write(t, s, attempts[t], NoWorker, "none")
  BY <1>0 DEF Release
<1> QED
  BY <1>2, <1>3, <1>4, <1>5, <1>6, SafeWrite

LEMMA JobStepSafe ==
    ASSUME TypeOK, TypeOK', Safe, NEW w \in Workers,
           NEW j \in jobs[w], JobStep(w, j) \/ SettleError(w, j)
    PROVE  Safe'
<1>0. j \in Jobs /\ jobs \in [Workers -> SUBSET Jobs]
  BY DEF TypeOK
<1>1. UNCHANGED <<claimed, slot>>
  BY DEF JobStep, SettleRead, SettleFinal, DeadLetter, ReleaseRow, Schedule,
         SettleError, restUnchanged, dispatchVars, poolVars
<1>2. CASE SettleRead(w, j)
  <2>1. j.by \in Slots \ Sweeps /\ j \in Settling(w)
    BY <1>0, <1>2, SlotsAndSweepsAssumption
       DEF SettleRead, Safe, RowsAgree, Settling, Reaping, Jobs
  <2>2. PICK n : n = [j EXCEPT !.next = "write", !.attempts = attempts[j.task]]
    OBVIOUS
  <2>3. /\ n.by = j.by /\ n.task = j.task /\ n.next = "write"
        /\ n.attempts = attempts[n.task]
    BY <1>0, <2>2 DEF Jobs
  <2>4. /\ jobs'[w] = (jobs[w] \ {j}) \cup {n}
        /\ \A v \in Workers : v # w => jobs'[v] = jobs[v]
    BY <1>0, <1>2, <2>2 DEF SettleRead, Advance
  <2>5. /\ Settling(w)' = (Settling(w) \ {j}) \cup {n}
        /\ \A v \in Workers : v # w => Settling(v)' = Settling(v)
        /\ \A v \in Workers : Reaping(v)' = Reaping(v)
    BY <2>1, <2>3, <2>4 DEF Settling, Reaping
  <2>6. UNCHANGED <<status, attempts, owner, lease>>
    BY <1>2 DEF SettleRead, tableVars
  <2>7. RowsAgree'
    BY <1>1, <2>1, <2>3, <2>5, <2>6 DEF Safe, RowsAgree, Worked
  <2>8. Disjoint'
    BY <1>1, <2>1, <2>3, <2>5 DEF Safe, Disjoint
  <2> QED
    BY <2>6, <2>7, <2>8, BudgetSame DEF Safe
<1>3. CASE SettleFinal(w, j)
  <2>1. j.next = "write" /\ Advance(w, j, {}) /\ status[j.task] \in Held
    BY <1>3, JobHandles DEF SettleFinal
  <2>2. \E s \in {"completed", "cancelled", "failed"} : Release(j.task, s)
    BY <1>3, <2>1 DEF SettleFinal, MarkCompleted, MarkCancelled,
                      MarkTerminalFailure
  <2> QED
    BY <1>1, <2>1, <2>2, JobWriteSafe
<1>4. CASE DeadLetter(w, j)
  BY <1>1, <1>4, JobWriteSafe DEF DeadLetter, MarkTerminalFailure
<1>5. CASE ReleaseRow(w, j)
  <2>1. PICK n : n = [j EXCEPT !.next = "schedule"]
    OBVIOUS
  <2>2. n \in Jobs /\ n.next = "schedule"
    BY <1>0, <2>1 DEF Jobs
  <2>3. /\ j.next = "write" /\ j.attempts < MaxAttempts
        /\ Release(j.task, "queued") /\ Advance(w, j, {n})
    BY <1>5, <2>1 DEF ReleaseRow, ReleaseForRetry
  <2>4. {n} \in SUBSET Jobs /\ \A i \in {n} : i.next = "schedule"
    BY <2>2
  <2> QED
    BY <1>1, <2>3, <2>4, JobWriteSafe
<1>6. CASE Schedule(w, j) \/ SettleError(w, j)
  <2>1. jobs' = [jobs EXCEPT ![w] = @ \ {j}] /\ UNCHANGED tableVars
    BY <1>6 DEF Schedule, SettleError, Advance
  <2>2. NoNewWork
    BY <1>0, <1>1, <2>1 DEF NoNewWork, Settling, Reaping
  <2> QED
    BY <2>1, <2>2, SafeTableSame
<1> QED
  BY <1>2, <1>3, <1>4, <1>5, <1>6 DEF JobStep

LEMMA SweepSafe ==
    ASSUME SoleReaper \/ Steady, TypeOK, TypeOK', Safe, NEW w \in Workers,
           NEW k \in Sweeps, Sweep(w, k)
    PROVE  Safe'
<1>1. jobs'[w] = jobs[w] \cup {Expired(k, t) : t \in ExpiredLeases}
  BY DEF Sweep, TypeOK
<1>2. \A t \in ExpiredLeases :
        /\ Expired(k, t).by = k /\ Expired(k, t).task = t
        /\ Expired(k, t).next = "write" /\ Expired(k, t).attempts = attempts[t]
        /\ status[t] \in Held /\ lease[t] = "expired"
  BY DEF Expired, ExpiredLeases
<1>3. \A v \in Workers : v = w
  BY DEF SoleReaper, Sweep, Steady, ExpiredLeases
<1>4. Reaping(w) = {}
  BY DEF SoleReaper, Sweep, Steady, ExpiredLeases, Reaping
<1>5. Settling(w)' = Settling(w)
  BY <1>1, <1>2, SlotsAndSweepsAssumption DEF Settling
<1>6. Reaping(w)' = {Expired(k, t) : t \in ExpiredLeases}
  BY <1>1, <1>2, <1>4 DEF Reaping
<1>7. UNCHANGED <<claimed, slot, status, attempts, owner, lease>>
  BY DEF Sweep, restUnchanged, dispatchVars, poolVars, tableVars
<1>8. RowsAgree'
  <2>1. \A j \in Reaping(w)' :
          /\ status'[j.task] \in Held /\ lease'[j.task] = "expired"
          /\ j.next = "write" /\ j.attempts = attempts'[j.task]
    BY <1>2, <1>6, <1>7
  <2> QED
    BY <1>3, <1>5, <1>7, <2>1 DEF Safe, RowsAgree, Worked
<1>9. Disjoint'
  <2>1. \A i, j \in Reaping(w)' : i.task = j.task => i = j
    BY <1>2, <1>6
  <2> QED
    BY <1>3, <1>5, <1>7, <2>1 DEF Safe, Disjoint
<1> QED
  BY <1>7, <1>8, <1>9, BudgetSame DEF Safe

LEMMA RecoveryStepSafe ==
    ASSUME SoleReaper \/ Steady, TypeOK, TypeOK', Safe, NEW w \in Workers,
           RecoveryStep(w)
    PROVE  Safe'
<1>1. ASSUME NEW k \in Sweeps, SweepError(w, k) PROVE Safe'
  <2>1. NoNewWork
    BY <1>1 DEF SweepError, NoNewWork, Settling, Reaping, TypeOK,
                restUnchanged, dispatchVars, poolVars
  <2> QED
    BY <1>1, <2>1, SafeTableSame DEF SweepError
<1>2. ASSUME NEW m \in timers[w], TimerFires(w, m) \/ TimerError(w, m)
      PROVE  Safe'
  BY <1>2, WorkUnchanged, SafeTableSame
     DEF TimerFires, TimerError, dispatchVars, poolVars, workVars
<1> QED
  BY <1>1, <1>2, JobStepSafe, SweepSafe DEF RecoveryStep

-----------------------------------------------------------------------------
(* Without failures work is only ever handed on: from the claim to a slot, *)
(* to the settlement of its outcome, to a row that is released.            *)

LEMMA SteadyKept ==
    ASSUME Steady,
           \A t \in Tasks : status'[t] \in Held =>
               /\ status[t] \in Held /\ lease'[t] = lease[t]
               /\ \A w \in Workers : Working(w, t) => Working(w, t)'
    PROVE  Steady'
<1> SUFFICES ASSUME NEW t \in Tasks, status'[t] \in Held
             PROVE  lease'[t] = "live" /\ \E w \in Workers : Working(w, t)'
  BY DEF Steady
<1>1. lease[t] = "live" /\ \E w \in Workers : Working(w, t)
  BY DEF Steady
<1> QED
  BY <1>1

\* The work is left alone, and no row becomes held.
LEMMA SteadyWorkSame ==
    ASSUME Steady, UNCHANGED workVars,
           \A t \in Tasks : status'[t] \in Held =>
               status[t] \in Held /\ lease'[t] = lease[t]
    PROVE  Steady'
<1>1. \A w \in Workers, t \in Tasks : Working(w, t) => Working(w, t)'
  BY DEF Working, workVars
<1> QED
  BY <1>1, SteadyKept

LEMMA SteadyTableSame ==
    ASSUME Steady, UNCHANGED workVars, UNCHANGED tableVars
    PROVE  Steady'
BY SteadyWorkSame DEF tableVars

LEMMA SteadyRequest ==
    ASSUME IInv, TypeOK, Steady, NEW r \in Requests, RequestStep(r)
    PROVE  Steady'
<1>0. /\ stage[r] # "idle" => subject[r] \in Tasks
      /\ TableTypeOK
  BY DEF IInv, RequestOK, TypeOK
<1>1. UNCHANGED workVars
  BY DEF RequestStep, Create, CreateEnqueue, Cancel, CancelRemove, CancelQueued,
         CancelFallsThrough, CancelMark, CancelPublish, Retry, RetryReset,
         RetryEnqueue, RequestError, workerVars, poolVars, dispatchVars,
         recoveryVars, workVars
<1>2. CASE UNCHANGED tableVars
  BY <1>1, <1>2, SteadyTableSame
<1>3. ASSUME NEW t \in Tasks, NEW s \in Statuses, NEW n, NEW w, NEW l,
             Write(t, s, n, w, l),
             s \in Held => status[t] \in Held /\ l = lease[t]
      PROVE  Steady'
  <2>1. \A u \in Tasks : status'[u] \in Held =>
          status[u] \in Held /\ lease'[u] = lease[u]
    BY <1>0, <1>3, WriteRow DEF Same
  <2> QED
    BY <1>1, <2>1, SteadyWorkSame
<1>4. ASSUME NEW t \in Tasks, Create(r, t) PROVE Steady'
  BY <1>3, <1>4 DEF Create, Insert, Held, Statuses
<1>5. CASE CancelQueued(r)
  BY <1>0, <1>3, <1>5 DEF CancelQueued, CancelQueuedRow, Held, Statuses
<1>6. CASE CancelMark(r)
  BY <1>0, <1>2, <1>3, <1>6 DEF CancelMark, MarkCancelling, Held, Statuses
<1>7. CASE RetryReset(r)
  BY <1>0, <1>2, <1>3, <1>7 DEF RetryReset, ResetForManualRetry, Held, Statuses
<1> QED
  BY <1>2, <1>4, <1>5, <1>6, <1>7
     DEF RequestStep, CreateEnqueue, Cancel, CancelRemove, CancelFallsThrough,
         CancelPublish, Retry, RetryEnqueue, RequestError

LEMMA SteadyDispatch ==
    ASSUME Reliable, TypeOK, HandOvers, Steady, NEW w \in Workers,
           DispatcherStep(w)
    PROVE  Steady'
<1>1. CASE Pop(w) \/ ClaimLost(w)
  BY <1>1, SteadyTableSame DEF Pop, ClaimLost, poolVars, recoveryVars, workVars
<1>2. CASE Claim(w)
  <2>1. PICK t \in Tasks : t = popped[w]
    BY <1>2 DEF Claim, TypeOK
  <2>2. /\ status'[t] = "running" /\ lease'[t] = "live"
        /\ \A u \in Tasks \ {t} : Same(u)
    BY <1>2, <2>1, WriteRow DEF Claim, ClaimRow, TypeOK
  <2>3. claimed'[w] = t /\ \A v \in Workers : v # w => claimed'[v] = claimed[v]
    BY <1>2, <2>1 DEF Claim, TypeOK
  <2>4. UNCHANGED <<slot, jobs>>
    BY <1>2 DEF Claim, poolVars, recoveryVars
  <2> SUFFICES ASSUME NEW u \in Tasks, status'[u] \in Held
               PROVE  lease'[u] = "live" /\ \E v \in Workers : Working(v, u)'
    BY DEF Steady
  <2>5. CASE u = t
    BY <2>2, <2>3, <2>5 DEF Working
  <2>6. CASE u # t
    <3>1. PICK v \in Workers : lease[u] = "live" /\ Working(v, u)
      BY <2>2, <2>6 DEF Steady, Same
    <3>2. claimed[w] = NoTask /\ u # NoTask
      BY <1>2, NoTaskAssumption DEF Claim, HandOvers, HandOver
    <3> QED
      BY <2>2, <2>3, <2>4, <2>6, <3>1, <3>2 DEF Working, Same
  <2> QED
    BY <2>5, <2>6
<1>3. CASE Run(w)
  <2>1. PICK s \in Slots : /\ slot[w][s] = NoTask
                           /\ slot' = [slot EXCEPT ![w][s] = claimed[w]]
    BY <1>3 DEF Run, FreeSlots
  <2>2. /\ slot'[w][s] = claimed[w]
        /\ \A z \in Slots \ {s} : slot'[w][z] = slot[w][z]
        /\ \A v \in Workers : v # w => claimed'[v] = claimed[v] /\ slot'[v] = slot[v]
    BY <1>3, <2>1 DEF TypeOK, Run
  <2>3. UNCHANGED <<status, lease, jobs>>
    BY <1>3 DEF Run, tableVars, recoveryVars
  <2>4. \A v \in Workers, t \in Tasks : Working(v, t) => Working(v, t)'
    BY <2>1, <2>2, <2>3, NoTaskAssumption DEF Working
  <2> QED
    BY <2>3, <2>4, SteadyKept
<1> QED
  BY <1>1, <1>2, <1>3 DEF DispatcherStep, DispatchError, Reliable

LEMMA SteadyPool ==
    ASSUME TypeOK, Safe, Steady, NEW w \in Workers, PoolStep(w)
    PROVE  Steady'
<1>1. CASE DeliverCancel(w)
  BY <1>1, SteadyTableSame DEF DeliverCancel, dispatchVars, recoveryVars, workVars
<1>2. ASSUME NEW s \in Slots, Heartbeat(w, s) PROVE Steady'
  <2>1. UNCHANGED <<status, lease>> /\ UNCHANGED workVars
    BY <1>2, HeartbeatSame DEF workerVars, dispatchVars, poolVars, recoveryVars, workVars
  <2> QED
    BY <2>1, SteadyWorkSame
<1>3. ASSUME NEW s \in Slots, Settle(w, s) PROVE Steady'
  <2>1. PICK o \in ThreadOutcomes :
          jobs' = [jobs EXCEPT ![w] = @ \cup
                     {[by |-> s, task |-> slot[w][s], outcome |-> o,
                       next |-> "read", attempts |-> 0]}]
    BY <1>3 DEF Settle
  <2>2. PICK n : n = [by |-> s, task |-> slot[w][s], outcome |-> o,
                      next |-> "read", attempts |-> 0]
    OBVIOUS
  <2>3. n.by \in Slots /\ n.next # "schedule" /\ n.task = slot[w][s]
    BY <2>2
  <2>4. n \in jobs'[w] /\ \A v \in Workers : jobs[v] \subseteq jobs'[v]
    BY <2>1, <2>2 DEF TypeOK
  <2>5. /\ claimed' = claimed /\ UNCHANGED <<status, lease>>
        /\ \A z \in Slots \ {s} : slot'[w][z] = slot[w][z]
        /\ \A v \in Workers : v # w => slot'[v] = slot[v]
    BY <1>3 DEF Settle, TypeOK, dispatchVars, tableVars
  <2>6. ASSUME NEW v \in Workers, NEW t \in Tasks, Working(v, t)
        PROVE  Working(v, t)'
    BY <2>3, <2>4, <2>5, <2>6 DEF Working
  <2> QED
    BY <2>5, <2>6, SteadyKept
<1> QED
  BY <1>1, <1>2, <1>3 DEF PoolStep

LEMMA SteadyRecovery ==
    ASSUME Reliable, TypeOK, Safe, Steady, NEW w \in Workers, RecoveryStep(w)
    PROVE  Steady'
<1>0. jobs \in [Workers -> SUBSET Jobs] /\ TableTypeOK
  BY DEF TypeOK
<1>1. ASSUME NEW j \in jobs[w], SettleRead(w, j) PROVE Steady'
  <2>1. PICK n : n = [j EXCEPT !.next = "write", !.attempts = attempts[j.task]]
    OBVIOUS
  <2>2. n.by = j.by /\ n.task = j.task /\ n.next = "write"
    BY <1>0, <2>1 DEF Jobs
  <2>3. /\ n \in jobs'[w]
        /\ \A v \in Workers : \A i \in jobs[v] : i \in jobs'[v] \/ (v = w /\ i = j)
    BY <1>0, <1>1, <2>1 DEF SettleRead, Advance
  <2>4. UNCHANGED <<claimed, slot, status, lease>>
    BY <1>1 DEF SettleRead, restUnchanged, dispatchVars, poolVars, tableVars
  <2>5. \A v \in Workers, t \in Tasks : Working(v, t) => Working(v, t)'
    BY <2>2, <2>3, <2>4 DEF Working
  <2> QED
    BY <2>4, <2>5, SteadyKept
<1>2. ASSUME NEW j \in jobs[w], NEW s \in Statuses \ Held,
             j.next = "write", Release(j.task, s),
             UNCHANGED <<claimed, slot>>,
             \A v \in Workers : \A i \in jobs[v] : i \in jobs'[v] \/ (v = w /\ i = j)
      PROVE  Steady'
  <2>1. PICK t \in Tasks : t = j.task
    BY <1>2, JobHandles
  <2>2. status'[t] \notin Held /\ \A u \in Tasks \ {t} : Same(u)
    BY <1>0, <1>2, <2>1, WriteRow DEF Release
  <2>3. \A v \in Workers, u \in Tasks \ {t} : Working(v, u) => Working(v, u)'
    BY <1>2, <2>1 DEF Working
  <2> QED
    BY <2>2, <2>3, SteadyKept DEF Same
<1>3. ASSUME NEW j \in jobs[w], JobStep(w, j) PROVE Steady'
  <2>1. UNCHANGED <<claimed, slot>>
    BY <1>3 DEF JobStep, SettleRead, SettleFinal, DeadLetter, ReleaseRow, Schedule,
                restUnchanged, dispatchVars, poolVars
  <2>2. \A v \in Workers : \A i \in jobs[v] : i \in jobs'[v] \/ (v = w /\ i = j)
    BY <1>0, <1>3 DEF JobStep, SettleRead, SettleFinal, DeadLetter, ReleaseRow,
                      Schedule, Advance
  <2>3. CASE SettleFinal(w, j)
    <3>1. status[j.task] \in Held /\ j.next = "write"
      BY <2>3, JobHandles DEF SettleFinal
    <3>2. \E s \in Statuses \ Held : Release(j.task, s)
      BY <2>3, <3>1 DEF SettleFinal, MarkCompleted, MarkCancelled,
                        MarkTerminalFailure, Statuses, Held
    <3> QED
      BY <1>2, <2>1, <2>2, <3>1, <3>2
  <2>4. CASE DeadLetter(w, j) \/ ReleaseRow(w, j)
    <3>1. j.next = "write" /\ \E s \in Statuses \ Held : Release(j.task, s)
      BY <2>4 DEF DeadLetter, ReleaseRow, MarkTerminalFailure, ReleaseForRetry,
                  Statuses, Held
    <3> QED
      BY <1>2, <2>1, <2>2, <3>1
  <2>5. CASE Schedule(w, j)
    <3>1. j.next = "schedule" /\ UNCHANGED <<status, lease>>
      BY <2>5 DEF Schedule, tableVars
    <3>2. \A v \in Workers, t \in Tasks : Working(v, t) => Working(v, t)'
      BY <2>1, <2>2, <3>1 DEF Working
    <3> QED
      BY <3>1, <3>2, SteadyKept
  <2> QED
    BY <1>1, <1>3, <2>3, <2>4, <2>5 DEF JobStep
<1>4. ASSUME NEW k \in Sweeps, Sweep(w, k) PROVE FALSE
  BY <1>4 DEF Sweep, Steady, ExpiredLeases
<1>5. ASSUME NEW m \in timers[w], TimerFires(w, m) \/ TimerError(w, m)
      PROVE  Steady'
  BY <1>5, SteadyTableSame
     DEF TimerFires, TimerError, dispatchVars, poolVars, workVars
<1> QED
  BY <1>3, <1>4, <1>5 DEF RecoveryStep, SettleError, SweepError, Reliable

LEMMA SteadyNext ==
    ASSUME Reliable, Punctual, IInv, TypeOK, HandOvers, Safe, Steady,
           [Next]_vars
    PROVE  Steady'
<1>1. ASSUME NEW t \in Tasks, LeaseLapses(t) PROVE FALSE
  <2>1. status[t] \in Held
    BY <1>1 DEF LeaseLapses, IInv, TableOK, RowOK
  <2>2. \E w \in Workers : Working(w, t)
    BY <2>1 DEF Steady
  <2> QED
    BY <1>1, <2>2 DEF LeaseLapses, Attended, Working
<1>2. ASSUME NEW t \in Tasks, RowSettles(t) PROVE Steady'
  BY <1>2, SteadyWorkSame
     DEF RowSettles, workerVars, dispatchVars, poolVars, recoveryVars, workVars
<1>3. CASE Flush \/ \E w \in Workers : Start(w) \/ ReconcilerStep(w)
  BY <1>3, SteadyTableSame
     DEF Flush, Start, ReconcilerStep, Reconcile, ReadQueue, Restore,
         ReconcileError, reconcilerKeeps, workerVars, dispatchVars, poolVars,
         recoveryVars, workVars
<1>4. ASSUME NEW w \in Workers, Crash(w) PROVE FALSE
  BY <1>4 DEF Crash, Reliable
<1>5. CASE UNCHANGED vars
  BY <1>5, SteadyTableSame
     DEF vars, dispatchVars, poolVars, recoveryVars, workVars
<1> QED
  BY <1>1, <1>2, <1>3, <1>4, <1>5, SteadyRequest, SteadyDispatch, SteadyPool,
     SteadyRecovery DEF Next

-----------------------------------------------------------------------------
(* The invariant, and what follows from it.                                *)

LEMMA SafeInit == Init => Safe
BY MaxAttemptsAssumption
   DEF Init, TableInit, Safe, RowsAgree, Disjoint, RetryBudget, Fresh, Settling,
       Reaping, Held

LEMMA SafeNext ==
    ASSUME SoleReaper \/ Steady, Punctual, IInv, TypeOK, TypeOK', Safe,
           [Next]_vars
    PROVE  Safe'
<1>1. CASE UNCHANGED vars
  BY <1>1, WorkUnchanged, SafeTableSame
     DEF vars, dispatchVars, poolVars, recoveryVars, workVars
<1>2. CASE Next
  BY <1>2, RequestStepSafe, DispatcherStepSafe, PoolStepSafe,
     RecoveryStepSafe, ReconcilerStepSafe, EnvironmentSafe DEF Next
<1> QED
  BY <1>1, <1>2

LEMMA SteadyInvariance ==
    ASSUME Reliable, Punctual
    PROVE  Spec => [](Safe /\ Steady)
<1>1. Init => Steady
  BY DEF Init, TableInit, Steady, Held
<1>2. /\ IInv /\ TypeOK /\ TypeOK' /\ HandOvers
      /\ Safe /\ Steady /\ [Next]_vars
      => Safe' /\ Steady'
  BY SafeNext, SteadyNext
<1> QED
  BY <1>1, <1>2, SafeInit, Invariance, TypeCorrect, HandOversInvariance, PTL
     DEF Spec

LEMMA SafeInvariance ==
    ASSUME SoleReaper \/ Reliable, Punctual
    PROVE  Spec => [](IInv /\ TypeOK /\ Safe)
<1>1. CASE SoleReaper
  <2>1. IInv /\ TypeOK /\ TypeOK' /\ Safe /\ [Next]_vars => Safe'
    BY <1>1, SafeNext
  <2> QED
    BY <2>1, SafeInit, Invariance, TypeCorrect, PTL DEF Spec
<1>2. CASE Reliable
  BY <1>2, SteadyInvariance, Invariance, TypeCorrect, PTL
<1> QED
  BY <1>1, <1>2

(* The writes of markTerminalFailure and releaseForRetry, which test no    *)
(* status, never reach a row that has moved on.                            *)
THEOREM WorkAlwaysOwned ==
    ASSUME SoleReaper \/ Reliable, Punctual
    PROVE  Spec => []WorkIsOwned
<1>1. TypeOK /\ Safe => WorkIsOwned
  BY NoTaskAssumption
     DEF Safe, RowsAgree, Worked, Settling, WorkIsOwned, Working
<1> QED
  BY <1>1, SafeInvariance, PTL

(* A task is on its way to the pool or in one slot, never twice, however   *)
(* cancellations, retries, crashes and repairs interleave.                 *)
THEOREM ExecutedOnce ==
    ASSUME SoleReaper \/ Reliable, Punctual
    PROVE  Spec => []OneExecution
<1>1. Safe => OneExecution
  <2> SUFFICES ASSUME Safe, NEW v \in Workers, NEW w \in Workers, NEW t \in Tasks
               PROVE  /\ claimed[v] = t =>
                           /\ \A s \in Slots : slot[w][s] # t
                           /\ claimed[w] = t => v = w
                      /\ \A a, b \in Slots :
                           slot[v][a] = t /\ slot[w][b] = t => v = w /\ a = b
    BY DEF OneExecution
  <2>1. t # NoTask
    BY NoTaskAssumption
  <2>2. \A u \in Workers : claimed[u] = t \/ (\E s \in Slots : slot[u][s] = t)
          => owner[t] = u
    BY <2>1 DEF Safe, RowsAgree, Worked
  <2> QED
    BY <2>1, <2>2 DEF Safe, Disjoint
<1> QED
  BY <1>1, SafeInvariance, PTL

(* No task is claimed more than max_attempts times between manual retries, *)
(* and only an exhausted one is dead-lettered.                             *)
THEOREM BudgetRespected ==
    ASSUME SoleReaper \/ Reliable, Punctual
    PROVE  Spec => []RetryBudget
<1>1. Safe => RetryBudget
  BY DEF Safe
<1> QED
  BY <1>1, SafeInvariance, PTL

-----------------------------------------------------------------------------
(* Nothing is stranded: a queued task is handed on too, from the request   *)
(* or the backoff that withholds it to the queue and to the dispatcher.    *)

Undisturbed == Environment \subseteq {"cancel", "retry"}

Found(t) == t \in ready \/ OnItsWay(t)

QueuedFound == \A t \in Tasks : status[t] = "queued" => Found(t)

\* Requests that hold a task on its way to the queue.
Bound(r, t) ==
    /\ subject[r] = t
    /\ stage[r] \in {"create_enqueue", "cancel_if_queued", "retry_enqueue"}

LEMMA FoundKept ==
    ASSUME QueuedFound,
           \A t \in Tasks : status'[t] = "queued" =>
               \/ Found(t)'
               \/ status[t] = "queued" /\ (Found(t) => Found(t)')
    PROVE  QueuedFound'
BY DEF QueuedFound

\* Withheld rows stay withheld as long as no job or timer that does is gone.
LEMMA WithheldKept ==
    ASSUME \A w \in Workers : timers[w] \subseteq timers'[w],
           \A w \in Workers : \A j \in jobs[w] :
               j.next = "schedule" => j \in jobs'[w],
           NEW t \in Tasks, Withheld(t)
    PROVE  Withheld(t)'
BY DEF Withheld

LEMMA FoundWorkersSame ==
    ASSUME QueuedFound, UNCHANGED <<popped, jobs, timers>>,
           \A t \in Tasks : status'[t] = "queued" =>
               \/ t \in ready' \/ \E r \in Requests : Bound(r, t)'
               \/ /\ status[t] = "queued"
                  /\ t \in ready => t \in ready'
                  /\ \A r \in Requests : Bound(r, t) => Bound(r, t)'
    PROVE  QueuedFound'
<1>1. ASSUME NEW t \in Tasks, t \in ready' \/ \E r \in Requests : Bound(r, t)'
      PROVE  Found(t)'
  BY <1>1 DEF Found, OnItsWay, Bound
<1>2. ASSUME NEW t \in Tasks, Found(t), t \in ready => t \in ready',
             \A r \in Requests : Bound(r, t) => Bound(r, t)'
      PROVE  Found(t)'
  <2>1. CASE t \in ready \/ \E r \in Requests : Bound(r, t)
    BY <1>1, <1>2, <2>1
  <2>2. CASE Withheld(t) \/ \E w \in Workers : popped[w] = t
    <3>1. Withheld(t)' \/ \E w \in Workers : popped'[w] = t
      BY <2>2 DEF Withheld
    <3> QED
      BY <3>1 DEF Found, OnItsWay
  <2> QED
    BY <1>2, <2>1, <2>2 DEF Found, OnItsWay, Bound
<1> QED
  BY <1>1, <1>2, FoundKept

LEMMA FoundRequest ==
    ASSUME Undisturbed, IInv, TypeOK, QueuedFound,
           NEW r \in Requests, RequestStep(r)
    PROVE  QueuedFound'
<1>0. /\ stage[r] # "idle" => subject[r] \in Tasks
      /\ TableTypeOK
      /\ stage \in [Requests -> Stages] /\ subject \in [Requests -> Tasks \cup {NoTask}]
  BY DEF IInv, RequestOK, TypeOK
<1>1. UNCHANGED <<popped, jobs, timers>>
  BY DEF RequestStep, Create, CreateEnqueue, Cancel, CancelRemove, CancelQueued,
         CancelFallsThrough, CancelMark, CancelPublish, Retry, RetryReset,
         RetryEnqueue, RequestError, workerVars, dispatchVars, recoveryVars
<1>2. \A q \in Requests \ {r} : stage'[q] = stage[q] /\ subject'[q] = subject[q]
  BY <1>0 DEF RequestStep, Create, CreateEnqueue, Cancel, CancelRemove, CancelQueued,
         CancelFallsThrough, CancelMark, CancelPublish, Retry, RetryReset,
         RetryEnqueue, RequestError, Begin, Goto, Finish
<1>3. ASSUME NEW t \in Tasks,
             \A u \in Tasks \ {t} : status'[u] = status[u],
             \A u \in Tasks \ {t} : u \in ready => u \in ready',
             \A u \in Tasks : Bound(r, u) => u = t,
             status'[t] = "queued" => t \in ready' \/ Bound(r, t)'
      PROVE  QueuedFound'
  BY <1>1, <1>2, <1>3, FoundWorkersSame DEF Bound
<1>4. ASSUME UNCHANGED <<status, ready>>, \A u \in Tasks : ~ Bound(r, u)
      PROVE  QueuedFound'
  BY <1>1, <1>2, <1>4, FoundWorkersSame DEF Bound
<1>5. ASSUME NEW t \in Tasks, Create(r, t) PROVE QueuedFound'
  <2>1. \A u \in Tasks : ~ Bound(r, u)
    BY <1>5 DEF Create, Begin, Bound
  <2>2. Bound(r, t)' /\ ready' = ready
    BY <1>0, <1>5 DEF Create, Begin, Bound, redisVars
  <2>3. \A u \in Tasks \ {t} : status'[u] = status[u]
    BY <1>0, <1>5 DEF Create, Insert, Write, TableTypeOK
  <2> QED
    BY <1>3, <2>1, <2>2, <2>3
<1>6. ASSUME NEW t \in Tasks, Cancel(r, t) \/ Retry(r, t) PROVE QueuedFound'
  BY <1>4, <1>6 DEF Cancel, Retry, Begin, Bound, tableVars, redisVars
<1>7. CASE CreateEnqueue(r) \/ RetryEnqueue(r)
  <2>1. PICK t \in Tasks : t = subject[r]
    BY <1>0, <1>7 DEF CreateEnqueue, RetryEnqueue
  <2>2. ready' = ready \cup {t} /\ status' = status
    BY <1>7, <2>1 DEF CreateEnqueue, RetryEnqueue, tableVars
  <2>3. /\ \A u \in Tasks \ {t} : status'[u] = status[u]
        /\ \A u \in Tasks \ {t} : u \in ready => u \in ready'
        /\ \A u \in Tasks : Bound(r, u) => u = t
        /\ t \in ready'
    BY <2>1, <2>2 DEF Bound
  <2> QED
    BY <1>3, <2>3
<1>8. CASE CancelRemove(r)
  <2>1. PICK t \in Tasks : t = subject[r]
    BY <1>0, <1>8 DEF CancelRemove
  <2>2. ready' = ready \ {t} /\ status' = status /\ Bound(r, t)'
    BY <1>0, <1>8, <2>1 DEF CancelRemove, Goto, Bound, tableVars
  <2> QED
    BY <1>3, <2>1, <2>2 DEF Bound
<1>9. CASE CancelQueued(r)
  <2>1. PICK t \in Tasks : t = subject[r]
    BY <1>0, <1>9 DEF CancelQueued
  <2>2. status'[t] = "cancelled" /\ \A u \in Tasks \ {t} : Same(u)
    BY <1>0, <1>9, <2>1, WriteRow DEF CancelQueued, CancelQueuedRow
  <2>3. ready' = ready
    BY <1>9 DEF CancelQueued, redisVars
  <2> QED
    BY <1>3, <2>1, <2>2, <2>3 DEF Bound, Same
<1>10. CASE CancelFallsThrough(r)
  <2>1. /\ UNCHANGED <<status, ready>> /\ subject[r] \in Tasks
        /\ status[subject[r]] # "queued"
    BY <1>0, <1>10 DEF CancelFallsThrough, tableVars, redisVars
  <2> QED
    BY <1>3, <2>1 DEF Bound
<1>11. CASE CancelMark(r)
  <2>1. PICK t \in Tasks : t = subject[r]
    BY <1>0, <1>11 DEF CancelMark
  <2>2. CASE status[t] = "running"
    <3>1. status'[t] = "cancelling" /\ \A u \in Tasks \ {t} : Same(u)
      BY <1>0, <1>11, <2>1, <2>2, WriteRow DEF CancelMark, MarkCancelling
    <3>2. ready' = ready /\ \A u \in Tasks : ~ Bound(r, u)
      BY <1>11 DEF CancelMark, Bound, redisVars
    <3> QED
      BY <1>3, <3>1, <3>2 DEF Same
  <2>3. CASE status[t] # "running"
    BY <1>4, <1>11, <2>1, <2>3
       DEF CancelMark, MarkCancelling, Bound, tableVars, redisVars
  <2> QED
    BY <2>2, <2>3
<1>12. CASE CancelPublish(r)
  BY <1>4, <1>12 DEF CancelPublish, Bound, tableVars
<1>13. CASE RetryReset(r)
  <2>1. PICK t \in Tasks : t = subject[r]
    BY <1>0, <1>13 DEF RetryReset
  <2>2. /\ ready' = ready /\ \A u \in Tasks : ~ Bound(r, u)
        /\ Bound(r, t)'
    BY <1>0, <1>13, <2>1 DEF RetryReset, Goto, Bound, redisVars
  <2>3. \A u \in Tasks \ {t} : status'[u] = status[u]
    BY <1>0, <1>13, <2>1
       DEF RetryReset, ResetForManualRetry, Write, TableTypeOK, tableVars
  <2> QED
    BY <1>3, <2>2, <2>3
<1>14. ~ RequestError(r)
  BY DEF RequestError, Undisturbed
<1> QED
  BY <1>5, <1>6, <1>7, <1>8, <1>9, <1>10, <1>11, <1>12, <1>13, <1>14
     DEF RequestStep

LEMMA FoundDispatch ==
    ASSUME Undisturbed, TypeOK, QueuedFound, NEW w \in Workers,
           DispatcherStep(w)
    PROVE  QueuedFound'
<1>0. /\ popped \in [Workers -> Tasks \cup {NoTask}] /\ TableTypeOK
      /\ \A t \in Tasks : t # NoTask
  BY NoTaskAssumption DEF TypeOK
<1>1. UNCHANGED <<jobs, timers, requestVars>>
  BY DEF DispatcherStep, Pop, Claim, ClaimLost, Run, DispatchError, recoveryVars
<1>2. ASSUME NEW t \in Tasks, t \in ready \/ (\E v \in Workers : popped[v] = t)
               => t \in ready' \/ (\E v \in Workers : popped'[v] = t)
      PROVE  Found(t) => Found(t)'
  BY <1>1, <1>2 DEF Found, OnItsWay, Withheld, requestVars
<1>3. CASE Pop(w)
  <2>1. PICK t \in ready : popped' = [popped EXCEPT ![w] = t] /\ ready' = ready \ {t}
    BY <1>3 DEF Pop
  <2>2. /\ popped'[w] = t /\ popped[w] = NoTask /\ status' = status
        /\ \A v \in Workers \ {w} : popped'[v] = popped[v]
    BY <1>0, <1>3, <2>1 DEF Pop, tableVars
  <2>3. ASSUME NEW u \in Tasks,
               u \in ready \/ \E v \in Workers : popped[v] = u
        PROVE  u \in ready' \/ \E v \in Workers : popped'[v] = u
    BY <1>0, <2>1, <2>2, <2>3
  <2>4. \A u \in Tasks : Found(u) => Found(u)'
    BY <1>2, <2>3
  <2> QED
    BY <2>2, <2>4, FoundKept
<1>4. CASE Claim(w) \/ ClaimLost(w)
  <2>1. PICK t \in Tasks : t = popped[w]
    BY <1>0, <1>4 DEF Claim, ClaimLost
  <2>2. /\ popped' = [popped EXCEPT ![w] = NoTask] /\ ready' = ready
        /\ status'[t] # "queued"
        /\ \A u \in Tasks \ {t} : status'[u] = status[u]
    BY <1>0, <1>4, <2>1
       DEF Claim, ClaimRow, ClaimLost, Write, TableTypeOK, tableVars, redisVars
  <2>3. \A v \in Workers \ {w} : popped'[v] = popped[v]
    BY <1>0, <2>2
  <2>4. \A u \in Tasks \ {t} : Found(u) => Found(u)'
    <3> SUFFICES ASSUME NEW u \in Tasks \ {t} PROVE Found(u) => Found(u)'
      OBVIOUS
    <3>1. u \in ready \/ (\E v \in Workers : popped[v] = u)
            => u \in ready' \/ (\E v \in Workers : popped'[v] = u)
      BY <2>1, <2>2, <2>3
    <3> QED
      BY <1>2, <3>1
  <2> QED
    BY <2>2, <2>4, FoundKept
<1>5. CASE Run(w)
  <2>1. UNCHANGED <<popped, ready, status>>
    BY <1>5 DEF Run, tableVars, redisVars
  <2> QED
    BY <1>2, <2>1, FoundKept
<1>6. ~ DispatchError(w)
  BY DEF DispatchError, Undisturbed
<1> QED
  BY <1>3, <1>4, <1>5, <1>6 DEF DispatcherStep

\* Redis, the dispatchers and the requests are left alone, or Redis gains.
LEMMA FoundGrows ==
    ASSUME QueuedFound, UNCHANGED <<popped, stage, subject>>,
           ready \subseteq ready',
           \A t \in Tasks : status'[t] = "queued" =>
               \/ t \in ready' \/ Withheld(t)'
               \/ status[t] = "queued" /\ (Withheld(t) => Withheld(t)')
    PROVE  QueuedFound'
<1>1. ASSUME NEW t \in Tasks, t \in ready' \/ Withheld(t)'
      PROVE  Found(t)'
  BY <1>1 DEF Found, OnItsWay
<1>2. ASSUME NEW t \in Tasks, Found(t), Withheld(t) => Withheld(t)'
      PROVE  Found(t)'
  BY <1>2 DEF Found, OnItsWay
<1> QED
  BY <1>1, <1>2, FoundKept

LEMMA FoundPool ==
    ASSUME TypeOK, Safe, QueuedFound, NEW w \in Workers, PoolStep(w)
    PROVE  QueuedFound'
<1>1. CASE DeliverCancel(w)
  BY <1>1, FoundGrows
     DEF DeliverCancel, Withheld, dispatchVars, recoveryVars, requestVars, tableVars
<1>2. ASSUME NEW s \in Slots, Heartbeat(w, s) PROVE QueuedFound'
  <2>1. UNCHANGED <<status, ready, popped, jobs, timers, stage, subject>>
    BY <1>2, HeartbeatSame
       DEF workerVars, dispatchVars, recoveryVars, redisVars, requestVars
  <2>2. \A t \in Tasks : Withheld(t) => Withheld(t)'
    BY <2>1 DEF Withheld
  <2> QED
    BY <2>1, <2>2, FoundGrows
<1>3. ASSUME NEW s \in Slots, Settle(w, s) PROVE QueuedFound'
  <2>1. \A v \in Workers : jobs[v] \subseteq jobs'[v]
    BY <1>3 DEF Settle, TypeOK
  <2>2. UNCHANGED <<status, ready, popped, timers, stage, subject>>
    BY <1>3 DEF Settle, dispatchVars, requestVars, redisVars, tableVars
  <2>3. \A t \in Tasks : Withheld(t) => Withheld(t)'
    BY <2>1, <2>2, WithheldKept
  <2> QED
    BY <2>2, <2>3, FoundGrows
<1> QED
  BY <1>1, <1>2, <1>3 DEF PoolStep

LEMMA FoundJob ==
    ASSUME TypeOK, Safe, QueuedFound, NEW w \in Workers, NEW j \in jobs[w],
           JobStep(w, j)
    PROVE  QueuedFound'
<1>0. /\ jobs \in [Workers -> SUBSET Jobs] /\ timers \in [Workers -> SUBSET Timers]
      /\ TableTypeOK
  BY DEF TypeOK
<1>1. UNCHANGED <<popped, ready, stage, subject>>
  BY DEF JobStep, SettleRead, SettleFinal, DeadLetter, ReleaseRow, Schedule,
         restUnchanged, dispatchVars, requestVars, redisVars
<1>2. \A v \in Workers : \A i \in jobs[v] : i \in jobs'[v] \/ (v = w /\ i = j)
  BY <1>0 DEF JobStep, SettleRead, SettleFinal, DeadLetter, ReleaseRow, Schedule,
              Advance
<1>3. ASSUME j.next # "schedule", UNCHANGED timers
      PROVE  \A t \in Tasks : Withheld(t) => Withheld(t)'
  BY <1>2, <1>3, WithheldKept
<1>4. CASE SettleRead(w, j)
  BY <1>1, <1>3, <1>4, FoundGrows DEF SettleRead, tableVars
<1>5. ASSUME j.next = "write", UNCHANGED timers, NEW s, Release(j.task, s),
             s = "queued" => Withheld(j.task)'
      PROVE  QueuedFound'
  <2>1. PICK t \in Tasks : t = j.task
    BY <1>5, JobHandles
  <2>2. status'[t] = s /\ \A u \in Tasks \ {t} : Same(u)
    BY <1>0, <1>5, <2>1, WriteRow DEF Release
  <2>3. \A u \in Tasks : Withheld(u) => Withheld(u)'
    BY <1>3, <1>5
  <2> QED
    BY <1>1, <1>5, <2>1, <2>2, <2>3, FoundGrows DEF Same
<1>6. CASE SettleFinal(w, j)
  <2>1. status[j.task] \in Held /\ j.next = "write"
    BY <1>6, JobHandles DEF SettleFinal
  <2>2. \E s \in {"completed", "cancelled", "failed"} : Release(j.task, s)
    BY <1>6, <2>1 DEF SettleFinal, MarkCompleted, MarkCancelled,
                      MarkTerminalFailure
  <2>3. timers' = timers
    BY <1>6 DEF SettleFinal
  <2> QED
    BY <1>5, <2>1, <2>2, <2>3
<1>7. CASE DeadLetter(w, j)
  BY <1>5, <1>7 DEF DeadLetter, MarkTerminalFailure
<1>8. CASE ReleaseRow(w, j)
  <2>1. PICK n : n = [j EXCEPT !.next = "schedule"]
    OBVIOUS
  <2>2. n.next = "schedule" /\ n.task = j.task /\ n \in jobs'[w]
    BY <1>0, <1>8, <2>1 DEF ReleaseRow, Advance, Jobs
  <2>3. Withheld(j.task)'
    BY <2>2 DEF Withheld
  <2> QED
    BY <1>5, <1>8, <2>3 DEF ReleaseRow, ReleaseForRetry
<1>9. CASE Schedule(w, j)
  <2>1. PICK m : m = [task |-> j.task, attempts |-> j.attempts]
    OBVIOUS
  <2>2. /\ m.task = j.task /\ m \in timers'[w]
        /\ \A v \in Workers : timers[v] \subseteq timers'[v]
        /\ status' = status
    BY <1>0, <1>9, <2>1 DEF Schedule, tableVars
  <2>3. Withheld(j.task)'
    BY <2>2 DEF Withheld
  <2>4. \A t \in Tasks : t # j.task /\ Withheld(t) => Withheld(t)'
    BY <1>2, <2>2 DEF Withheld
  <2> QED
    BY <1>1, <2>2, <2>3, <2>4, FoundGrows
<1> QED
  BY <1>4, <1>6, <1>7, <1>8, <1>9 DEF JobStep

LEMMA FoundRecovery ==
    ASSUME Undisturbed, TypeOK, Safe, QueuedFound, NEW w \in Workers,
           RecoveryStep(w)
    PROVE  QueuedFound'
<1>1. ASSUME NEW k \in Sweeps, Sweep(w, k) PROVE QueuedFound'
  <2>1. \A v \in Workers : jobs[v] \subseteq jobs'[v]
    BY <1>1 DEF Sweep, TypeOK
  <2>2. UNCHANGED <<status, ready, popped, timers, stage, subject>>
    BY <1>1 DEF Sweep, restUnchanged, dispatchVars, requestVars, redisVars, tableVars
  <2>3. \A t \in Tasks : Withheld(t) => Withheld(t)'
    BY <2>1, <2>2, WithheldKept
  <2> QED
    BY <2>2, <2>3, FoundGrows
<1>2. ASSUME NEW m \in timers[w], TimerFires(w, m) PROVE QueuedFound'
  <2>1. /\ ready' = ready \cup {m.task} /\ timers'[w] = timers[w] \ {m}
        /\ \A v \in Workers \ {w} : timers'[v] = timers[v]
        /\ UNCHANGED <<status, popped, jobs, stage, subject>>
    BY <1>2 DEF TimerFires, TypeOK, dispatchVars, requestVars, tableVars
  <2>2. \A t \in Tasks : t # m.task /\ Withheld(t) => Withheld(t)'
    BY <2>1 DEF Withheld
  <2> QED
    BY <2>1, <2>2, FoundGrows
<1> QED
  BY <1>1, <1>2, FoundJob
     DEF RecoveryStep, SettleError, SweepError, TimerError, Undisturbed

LEMMA FoundNext ==
    ASSUME Undisturbed, IInv, TypeOK, Safe, QueuedFound, [Next]_vars
    PROVE  QueuedFound'
<1>1. ASSUME NEW w \in Workers, ReconcilerStep(w) PROVE QueuedFound'
  BY <1>1, FoundGrows
     DEF ReconcilerStep, Reconcile, ReadQueue, Restore, ReconcileError,
         reconcilerKeeps, Withheld, dispatchVars, recoveryVars, requestVars,
         tableVars
<1>2. CASE \/ \E t \in Tasks : LeaseLapses(t) \/ RowSettles(t)
           \/ \E w \in Workers : Start(w)
  BY <1>2, FoundGrows
     DEF LeaseLapses, RowSettles, Start, Withheld, workerVars, dispatchVars,
         recoveryVars, requestVars, redisVars, tableVars
<1>3. CASE Flush \/ \E w \in Workers : Crash(w)
  BY <1>3 DEF Flush, Crash, Undisturbed
<1>4. CASE UNCHANGED vars
  BY <1>4, FoundGrows
     DEF vars, Withheld, dispatchVars, recoveryVars, requestVars, redisVars,
         tableVars
<1> QED
  BY <1>1, <1>2, <1>3, <1>4, FoundRequest, FoundDispatch, FoundPool,
     FoundRecovery DEF Next

(* Where no worker dies, Redis is not flushed and nothing fails, no task   *)
(* depends on the reaper or the reconciler: a queued one is in its queue   *)
(* or about to be put there, a held one is in the hands of a worker, with  *)
(* any number of workers and however requests interleave with them.        *)
THEOREM NothingLeft ==
    ASSUME Undisturbed, Punctual
    PROVE  Spec => []NothingStranded
<1>1. Reliable
  BY DEF Undisturbed, Reliable
<1>2. Init => QueuedFound
  BY DEF Init, TableInit, QueuedFound
<1>3. IInv /\ TypeOK /\ Safe /\ QueuedFound /\ [Next]_vars => QueuedFound'
  BY FoundNext
<1>4. QueuedFound /\ Steady => NothingStranded
  BY DEF QueuedFound, Found, Steady, NothingStranded
<1> QED
  BY <1>1, <1>2, <1>3, <1>4, SteadyInvariance, Invariance, TypeCorrect, PTL
     DEF Spec

-----------------------------------------------------------------------------
(* TaskEngine implements TaskLifecycle: a statement of the table is an edge *)
(* of the status machine or leaves status and attempts as they are.        *)

Edge == [Lifecycle!Next]_(Lifecycle!vars)

LEMMA NoEdge ==
    ASSUME UNCHANGED <<status, attempts>>
    PROVE  Edge
BY DEF Edge, Lifecycle!vars

LEMMA WriteEdge ==
    ASSUME TableTypeOK, NEW t \in Tasks, NEW from, NEW s, NEW w, NEW l,
           status[t] \in from, Write(t, s, attempts[t], w, l)
    PROVE  Lifecycle!Move(t, from, s) /\ UNCHANGED attempts
BY DEF TableTypeOK, Write, Lifecycle!Move

LEMMA RequestEdge ==
    ASSUME IInv, Safe, NEW r \in Requests, RequestStep(r)
    PROVE  Edge
<1>0. /\ stage[r] # "idle" => subject[r] \in Tasks
      /\ TableTypeOK /\ Fresh
  BY DEF IInv, RequestOK, TableOK, Safe
<1>1. CASE UNCHANGED tableVars
  BY <1>1, NoEdge DEF tableVars
<1>2. ASSUME NEW t \in Tasks, Create(r, t) PROVE Edge
  <2>1. status[t] = "absent" /\ attempts[t] = 0
    BY <1>0, <1>2 DEF Create, Fresh
  <2>2. Write(t, "queued", attempts[t], NoWorker, "none")
    BY <1>2, <2>1 DEF Create, Insert
  <2>3. Lifecycle!Submit(t)
    BY <1>0, <2>1, <2>2, WriteEdge DEF Lifecycle!Submit
  <2> QED
    BY <2>3 DEF Edge, Lifecycle!Next
<1>3. CASE CancelQueued(r)
  <2>1. PICK t \in Tasks : t = subject[r]
    BY <1>0, <1>3 DEF CancelQueued
  <2>2. /\ status[t] = "queued"
        /\ Write(t, "cancelled", attempts[t], owner[t], lease[t])
    BY <1>3, <2>1 DEF CancelQueued, CancelQueuedRow
  <2>3. Lifecycle!Withdraw(t)
    BY <1>0, <2>2, WriteEdge DEF Lifecycle!Withdraw
  <2> QED
    BY <2>3 DEF Edge, Lifecycle!Next
<1>4. CASE CancelMark(r)
  <2>1. PICK t \in Tasks : t = subject[r]
    BY <1>0, <1>4 DEF CancelMark
  <2>2. CASE status[t] = "running"
    <3>1. Write(t, "cancelling", attempts[t], owner[t], lease[t])
      BY <1>4, <2>1, <2>2 DEF CancelMark, MarkCancelling
    <3>2. Lifecycle!AskToStop(t)
      BY <1>0, <2>2, <3>1, WriteEdge DEF Lifecycle!AskToStop
    <3> QED
      BY <3>2 DEF Edge, Lifecycle!Next
  <2>3. CASE status[t] # "running"
    BY <1>1, <1>4, <2>1, <2>3 DEF CancelMark, MarkCancelling
  <2> QED
    BY <2>2, <2>3
<1>5. CASE RetryReset(r)
  <2>1. PICK t \in Tasks : t = subject[r]
    BY <1>0, <1>5 DEF RetryReset
  <2>2. CASE status[t] = "dead_letter"
    <3>1. Lifecycle!Revive(t)
      BY <1>0, <1>5, <2>1, <2>2
         DEF RetryReset, ResetForManualRetry, Write, Lifecycle!Revive,
             Lifecycle!Move
    <3> QED
      BY <3>1 DEF Edge, Lifecycle!Next
  <2>3. CASE status[t] # "dead_letter"
    BY <1>1, <1>5, <2>1, <2>3 DEF RetryReset, ResetForManualRetry
  <2> QED
    BY <2>2, <2>3
<1> QED
  BY <1>1, <1>2, <1>3, <1>4, <1>5
     DEF RequestStep, CreateEnqueue, Cancel, CancelRemove, CancelFallsThrough,
         CancelPublish, Retry, RetryEnqueue, RequestError

LEMMA ClaimEdge ==
    ASSUME TypeOK, Safe, NEW w \in Workers, Claim(w)
    PROVE  Edge
<1>1. PICK t \in Tasks : t = popped[w]
  BY DEF Claim, TypeOK
<1>2. status[t] = "queued" /\ Write(t, "running", attempts[t] + 1, w, "live")
  BY <1>1 DEF Claim, ClaimRow
<1>3. attempts[t] < MaxAttempts
  BY <1>2 DEF Safe, RetryBudget
<1>4. Lifecycle!Start(t)
  BY <1>2, <1>3 DEF Write, Lifecycle!Start, Lifecycle!Move
<1> QED
  BY <1>4 DEF Edge, Lifecycle!Next

LEMMA JobEdge ==
    ASSUME TypeOK, Safe, NEW w \in Workers,
           NEW j \in jobs[w], JobStep(w, j)
    PROVE  Edge
<1>0. TableTypeOK
  BY DEF TypeOK
<1>1. CASE SettleRead(w, j) \/ Schedule(w, j)
  BY <1>1, NoEdge DEF SettleRead, Schedule, tableVars
<1>2. CASE SettleFinal(w, j) \/ DeadLetter(w, j) \/ ReleaseRow(w, j)
  <2>1. j.next = "write"
    BY <1>2 DEF SettleFinal, DeadLetter, ReleaseRow
  <2>2. PICK t \in Tasks : t = j.task
    BY <2>1, JobHandles
  <2>3. /\ status[t] \in Lifecycle!Held /\ j.attempts = attempts[t]
        /\ status[t] \in Held /\ attempts[t] <= MaxAttempts
    BY <2>1, <2>2, JobHandles DEF Held, Lifecycle!Held, Safe, RetryBudget
  <2>4. CASE SettleFinal(w, j)
    <3>1. PICK s \in {"completed", "failed", "cancelled"} : Release(t, s)
      BY <2>2, <2>3, <2>4 DEF SettleFinal, MarkCompleted, MarkCancelled,
                              MarkTerminalFailure
    <3>2. Lifecycle!End(t)
      BY <1>0, <2>3, <3>1, WriteEdge DEF Release, Lifecycle!End
    <3> QED
      BY <3>2 DEF Edge, Lifecycle!Next
  <2>5. CASE DeadLetter(w, j)
    <3>1. Release(t, "dead_letter") /\ attempts[t] >= MaxAttempts
      BY <2>2, <2>3, <2>5 DEF DeadLetter, MarkTerminalFailure
    <3>2. attempts[t] \in Nat
      BY <1>0 DEF TableTypeOK
    <3>3. attempts[t] = MaxAttempts
      BY <2>3, <3>1, <3>2, MaxAttemptsAssumption
    <3>4. Lifecycle!GiveUp(t)
      BY <1>0, <2>3, <3>1, <3>3, WriteEdge DEF Release, Lifecycle!GiveUp
    <3> QED
      BY <3>4 DEF Edge, Lifecycle!Next
  <2>6. CASE ReleaseRow(w, j)
    <3>1. Release(t, "queued") /\ attempts[t] < MaxAttempts
      BY <2>2, <2>3, <2>6 DEF ReleaseRow, ReleaseForRetry
    <3>2. Lifecycle!TryAgain(t)
      BY <1>0, <2>3, <3>1, WriteEdge DEF Release, Lifecycle!TryAgain
    <3> QED
      BY <3>2 DEF Edge, Lifecycle!Next
  <2> QED
    BY <1>2, <2>4, <2>5, <2>6
<1> QED
  BY <1>1, <1>2 DEF JobStep

LEMMA NextEdge ==
    ASSUME IInv, TypeOK, Safe, [Next]_vars
    PROVE  Edge
<1>1. ASSUME NEW w \in Workers, PoolStep(w) PROVE Edge
  <2>1. CASE DeliverCancel(w) \/ \E s \in Slots : Settle(w, s)
    BY <2>1, NoEdge DEF DeliverCancel, Settle, tableVars
  <2>2. ASSUME NEW s \in Slots, Heartbeat(w, s) PROVE Edge
    BY <2>2, HeartbeatSame, NoEdge
  <2> QED
    BY <1>1, <2>1, <2>2 DEF PoolStep
<1>2. ASSUME NEW w \in Workers, DispatcherStep(w) PROVE Edge
  BY <1>2, ClaimEdge, NoEdge
     DEF DispatcherStep, Pop, ClaimLost, Run, DispatchError, tableVars
<1>3. ASSUME NEW w \in Workers, RecoveryStep(w) PROVE Edge
  BY <1>3, JobEdge, NoEdge
     DEF RecoveryStep, SettleError, Sweep, SweepError, TimerFires, TimerError,
         tableVars
<1>4. ASSUME NEW w \in Workers, ReconcilerStep(w) PROVE Edge
  BY <1>4, NoEdge
     DEF ReconcilerStep, Reconcile, ReadQueue, Restore, ReconcileError,
         reconcilerKeeps, tableVars
<1>5. CASE \/ Flush
           \/ \E t \in Tasks : LeaseLapses(t) \/ RowSettles(t)
           \/ \E w \in Workers : Crash(w) \/ Start(w)
  BY <1>5, NoEdge DEF Flush, LeaseLapses, RowSettles, Crash, Start, tableVars
<1>6. CASE UNCHANGED vars
  BY <1>6, NoEdge DEF vars, tableVars
<1> QED
  BY <1>1, <1>2, <1>3, <1>4, <1>5, <1>6, RequestEdge DEF Next

(* No interleaving of requests, workers and failures takes a task along an *)
(* edge that the status machine lacks, or spends an attempt elsewhere than *)
(* at the start of a run.                                                  *)
THEOREM LifecycleImplemented ==
    ASSUME SoleReaper \/ Reliable, Punctual
    PROVE  Spec => ImplementsLifecycle
<1>1. Init => Lifecycle!Init
  BY DEF Init, TableInit, Lifecycle!Init
<1>2. IInv /\ TypeOK /\ Safe /\ [Next]_vars => [Lifecycle!Next]_(Lifecycle!vars)
  BY NextEdge DEF Edge
<1> QED
  BY <1>1, <1>2, SafeInvariance, PTL DEF Spec, ImplementsLifecycle, Lifecycle!Spec

\* A terminal status changes in one way only, with a new budget.
EndKept ==
    \A t \in Tasks :
        status[t] \in Terminal /\ status'[t] # status[t] =>
            /\ status[t] = "dead_letter" /\ status'[t] = "queued"
            /\ attempts'[t] = 0

(* What has ended has ended: no outcome, cancellation or repair that comes *)
(* late overwrites a terminal status, although markTerminalFailure and     *)
(* releaseForRetry would write to any row; only a manual retry of a dead   *)
(* letter opens the task again.                                            *)
THEOREM EndsStay ==
    ASSUME SoleReaper \/ Reliable, Punctual
    PROVE  Spec => [][EndKept]_vars
<1>1. ASSUME TypeOK, Edge PROVE EndKept
  <2> SUFFICES ASSUME NEW u \in Tasks, status[u] \in Terminal,
                      status'[u] # status[u]
               PROVE  /\ status[u] = "dead_letter" /\ status'[u] = "queued"
                      /\ attempts'[u] = 0
    BY DEF EndKept
  <2>0. /\ status \in [Tasks -> Statuses] /\ attempts \in [Tasks -> Nat]
        /\ status[u] \notin {"absent", "queued", "running", "cancelling"}
    BY <1>1 DEF TypeOK, TableTypeOK, Terminal
  <2>1. \A t \in Tasks : \A from, to :
          Lifecycle!Move(t, from, to) => u = t /\ status[u] \in from /\ status'[u] = to
    BY <2>0 DEF Lifecycle!Move
  <2>2. PICK t \in Tasks : Lifecycle!Revive(t)
    BY <1>1, <2>0, <2>1
       DEF Edge, Lifecycle!Next, Lifecycle!vars, Lifecycle!Submit, Lifecycle!Start,
           Lifecycle!Withdraw, Lifecycle!AskToStop, Lifecycle!End,
           Lifecycle!TryAgain, Lifecycle!GiveUp, Lifecycle!Held
  <2> QED
    BY <2>0, <2>1, <2>2 DEF Lifecycle!Revive
<1>2. IInv /\ TypeOK /\ Safe /\ [Next]_vars => EndKept
  BY <1>1, NextEdge
<1> QED
  BY <1>2, SafeInvariance, PTL DEF Spec

=============================================================================

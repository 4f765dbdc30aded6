------------------------------ MODULE WorkerPool ------------------------------
(***************************************************************************)
(* The pool of threads of a worker process, server/src/engine/             *)
(* worker-pool.ts: handing tasks to threads, cancellation with a grace     *)
(* period, messages, error and exit events, replacement of threads, the    *)
(* deliberate kill of POST /api/dev/kill-worker, and shutdown.             *)
(*                                                                         *)
(* A Slot object outlives its place in the array: the handlers of a        *)
(* replaced thread still hold it.  Slots are therefore named by thread and *)
(* `slots` says which of them stand in the array.                          *)
(***************************************************************************)
EXTENDS TaskRunner, FiniteSets, FiniteSetsExt

CONSTANTS
    Size,          \* WORKER_COUNT
    Tasks, NoTask,
    TaskOf,        \* TaskOf[n]: the task of run n; a task may come again
    Environment    \* what may happen, see PoolHappenings

PoolHappenings == {"cancel", "kill", "error", "shutdown"}

ASSUME SizeAssumption == Size \in Nat \ {0} /\ 1 .. Size \subseteq Threads
ASSUME FiniteAssumption == IsFiniteSet(Threads)
ASSUME TaskOfAssumption == TaskOf \in [Runs -> Tasks] /\ NoTask \notin Tasks
ASSUME PoolEnvironmentAssumption == Environment \subseteq PoolHappenings

VARIABLES
    slots,          \* slots[p]: the thread at place p of the array
    slot,           \* slot[h]: the Slot of thread h, see Slot
    shuttingDown,
    outcome,        \* outcome[n]: what onSettled was told of run n
    wanted          \* wanted[n]: a cancellation of run n was accepted (history)

poolVars == <<slots, slot, shuttingDown, outcome>>
vars == <<runnerVars, poolVars, wanted>>

Positions == 1 .. Size

(* Slot.task, the task cancelTimer was set for, Slot.terminating, and an   *)
(* error event of the thread that is on its way.                           *)
Slot == [task : Runs \cup {Nothing}, timer : Tasks \cup {NoTask},
         terminating : BOOLEAN, fault : BOOLEAN]

NewSlot == [task |-> Nothing, timer |-> NoTask,
            terminating |-> FALSE, fault |-> FALSE]

Outcomes == {"completed", "failed", "fatal", "cancelled", "crashed"}

\* start: the threads of the first Size ids.
Init ==
    /\ thread = [h \in Threads |-> IF h \in Positions THEN NewThread
                                                      ELSE NoThread]
    /\ ended = [n \in Runs |-> "nothing"]
    /\ slots = [p \in Positions |-> p]
    /\ slot = [h \in Threads |-> NewSlot]
    /\ shuttingDown = FALSE
    /\ outcome = [n \in Runs |-> "new"]
    /\ wanted = [n \in Runs |-> FALSE]

InArray(h) == \E p \in Positions : slots[p] = h
Busy(h) == slot[h].task # Nothing
RunsOf(t) == {n \in Runs : TaskOf[n] = t}

\* postMessage to a thread that has stopped goes nowhere.
Sent(h, command) ==
    IF Up(h) THEN [thread[h] EXCEPT !.inbox = Append(@, command)] ELSE thread[h]

\* Places whose slot satisfies a condition; find takes the first.
FreePlaces == {p \in Positions : ~ Busy(slots[p])}
PlacesOf(t) == {p \in Positions : slot[slots[p]].task \in RunsOf(t)}

(* The dispatcher is stopped before the pool is shut down: no run follows, *)
(* but for a tick in flight, which is left out.  Runs are given in order,  *)
(* which bounds nothing: TaskOf says what they are.                        *)
Run(n) ==
    /\ ~ shuttingDown
    /\ outcome[n] = "new"
    /\ \A m \in Runs : m < n => outcome[m] # "new"
    /\ FreePlaces # {}
    /\ LET h == slots[Min(FreePlaces)]
       IN /\ slot' = [slot EXCEPT ![h].task = n, ![h].terminating = FALSE]
          /\ Become(h, Sent(h, [type |-> "run", run |-> n]))
    /\ outcome' = [outcome EXCEPT ![n] = "running"]
    /\ UNCHANGED <<ended, slots, shuttingDown, wanted>>

(* Spare ids for the replacements that are to come: bounds the threads     *)
(* that are lost.  An error event that is late, because the grace timer    *)
(* replaced the thread, has it replaced a second time.  Nothing more is    *)
(* made to happen to a pool that is shutting down: the process exits.      *)
Unused == {h \in Threads : thread[h].state = "none"}
Failing == {h \in Threads : slot[h].fault}
Leaving == {h \in Threads : /\ InArray(h)
                            /\ thread[h].doomed \/ slot[h].timer # NoTask
                            /\ slot[h].fault => slot[h].timer # NoTask}
Spare == /\ ~ shuttingDown
         /\ Cardinality(Unused) > Cardinality(Failing) + Cardinality(Leaving)

Cancel(t) ==
    /\ "cancel" \in Environment /\ Spare
    /\ PlacesOf(t) # {}
    /\ LET h == slots[Min(PlacesOf(t))]
       IN /\ slot[h].timer = NoTask
          /\ slot' = [slot EXCEPT ![h].timer = t]
          /\ Become(h, Sent(h, [type |-> "cancel"]))
          /\ wanted' = [wanted EXCEPT ![slot[h].task] = TRUE]
    /\ UNCHANGED <<ended, slots, shuttingDown, outcome>>

\* Slip: the slot is marked, as where a thread is replaced.
KillBusyMarked(h) ==
    /\ "kill" \in Environment /\ Spare
    /\ InArray(h) /\ Busy(h) /\ Up(h)
    /\ Become(h, [thread[h] EXCEPT !.doomed = TRUE])
    /\ slot' = [slot EXCEPT ![h].terminating = TRUE]
    /\ UNCHANGED <<ended, slots, shuttingDown, outcome, wanted>>

\* The slot is not marked: its exit must look like a crash.
KillBusy(h) ==
    /\ "kill" \in Environment /\ Spare
    /\ InArray(h) /\ Busy(h) /\ Up(h)
    /\ Become(h, [thread[h] EXCEPT !.doomed = TRUE])
    /\ UNCHANGED <<ended, poolVars, wanted>>

\* An uncaught error, or no memory left: the thread ends with an error event.
Fail(h) ==
    /\ "error" \in Environment /\ Spare
    /\ Up(h) /\ ~ slot[h].fault
    /\ Become(h, [thread[h] EXCEPT !.doomed = TRUE])
    /\ slot' = [slot EXCEPT ![h].fault = TRUE]
    /\ UNCHANGED <<ended, slots, shuttingDown, outcome, wanted>>

Shutdown ==
    /\ "shutdown" \in Environment
    /\ ~ shuttingDown
    /\ shuttingDown' = TRUE
    /\ thread' = [h \in Threads |-> [thread[h] EXCEPT
                                       !.doomed = @ \/ (InArray(h) /\ Up(h))]]
    /\ UNCHANGED <<ended, slots, slot, outcome, wanted>>

-----------------------------------------------------------------------------
(* settle and replace.                                                     *)

\* Slip: the timer of the cancellation is left running.
FreedButTimer(r) == [r EXCEPT !.task = Nothing]

\* The slot after settle; the timer goes with the task.
Freed(r) ==
    IF r.task = Nothing THEN r ELSE [r EXCEPT !.task = Nothing, !.timer = NoTask]

Told(h, o) ==
    IF Busy(h) THEN [outcome EXCEPT ![slot[h].task] = o] ELSE outcome

Settle(h, o) ==
    /\ slot' = [slot EXCEPT ![h] = Freed(@)]
    /\ outcome' = Told(h, o)

\* Slip: the replacement is added to the array.
TakePlacePushed(h, g) == slots' = Append(slots, g)

\* Slip: the replacement is not put into the array.
TakePlaceNowhere(h, g) == UNCHANGED slots

\* The replacement g takes the place of h in the array, if h still has one.
TakePlace(h, g) ==
    slots' = [p \in Positions |-> IF slots[p] = h THEN g ELSE slots[p]]

(* settle, then replace, on an event that leaves the Slot of h as r and    *)
(* its thread as q.                                                        *)
SettleAndReplace(h, o, r, q) ==
    LET g == Min(Unused)
    IN  /\ ~ shuttingDown
        /\ outcome' = Told(h, o)
        /\ slot' = [slot EXCEPT ![h] = [Freed(r) EXCEPT !.terminating = TRUE]]
        /\ thread' = [thread EXCEPT ![h] = [q EXCEPT !.doomed = TRUE],
                                    ![g] = NewThread]
        /\ TakePlace(h, g)
        /\ UNCHANGED <<ended, shuttingDown, wanted>>

\* replace returns while shutting down.
SettleOnly(h, o, r) ==
    /\ shuttingDown
    /\ outcome' = Told(h, o)
    /\ slot' = [slot EXCEPT ![h] = Freed(r)]
    /\ UNCHANGED <<runnerVars, slots, shuttingDown, wanted>>

-----------------------------------------------------------------------------
(* The events of a thread.                                                 *)

Read(h) == [thread[h] EXCEPT !.outbox = Tail(@)]

\* Messages of another task than the one in the slot are ignored.
Concerns(h, n) == Busy(h) /\ TaskOf[slot[h].task] = TaskOf[n]

OutcomeOf(type) == IF type = "done" THEN "completed" ELSE type

OnMessage(h) ==
    /\ thread[h].outbox # <<>>
    /\ LET m == Head(thread[h].outbox)
       IN IF Concerns(h, m.run)
          THEN Settle(h, OutcomeOf(m.type))
          ELSE UNCHANGED <<slot, outcome>>
    /\ Become(h, Read(h))
    /\ UNCHANGED <<ended, slots, shuttingDown, wanted>>

OnError(h) ==
    LET r == [slot[h] EXCEPT !.fault = FALSE]
    IN /\ slot[h].fault
       /\ \/ SettleAndReplace(h, "crashed", r, thread[h])
          \/ SettleOnly(h, "crashed", r)

\* The exit of a thread that was replaced, or is being shut down.
OnExitExpected(h) ==
    /\ thread[h].state = "down" /\ thread[h].outbox = <<>> /\ ~ slot[h].fault
    /\ shuttingDown \/ slot[h].terminating
    /\ Become(h, GoneThread)
    /\ UNCHANGED <<ended, poolVars, wanted>>

OnExit(h) ==
    /\ thread[h].state = "down" /\ thread[h].outbox = <<>> /\ ~ slot[h].fault
    /\ ~ slot[h].terminating
    /\ SettleAndReplace(h, "crashed", slot[h], GoneThread)

\* Slip: the thread that ignored the request keeps its place.
GraceOverKept(h) ==
    /\ slot[h].timer # NoTask
    /\ Settle(h, "cancelled")
    /\ UNCHANGED <<runnerVars, slots, shuttingDown, wanted>>

(* The grace period is over.  A callback that finds another task in the    *)
(* slot returns.                                                           *)
GraceOver(h) ==
    /\ slot[h].timer # NoTask
    /\ Busy(h) /\ TaskOf[slot[h].task] = slot[h].timer
    /\ \/ SettleAndReplace(h, "cancelled", slot[h], thread[h])
       \/ SettleOnly(h, "cancelled", slot[h])

Event(h) == OnMessage(h) \/ OnError(h) \/ OnExitExpected(h) \/ OnExit(h)

\* What goes on without anybody asking.
Proceed(h) ==
    \/ Work(h) /\ UNCHANGED <<poolVars, wanted>>
    \/ Stop(h) /\ UNCHANGED <<poolVars, wanted>>
    \/ Event(h)
    \/ GraceOver(h)

Next ==
    \/ \E n \in Runs : Run(n)
    \/ \E t \in Tasks : Cancel(t)
    \/ \E h \in Threads : Proceed(h) \/ KillBusy(h) \/ Fail(h)
    \/ Shutdown

Spec == Init /\ [][Next]_vars

(* Threads work, a thread that is terminated or failing stops, events are  *)
(* delivered and timers fire: not each of them, only some one at a time.   *)
(* Nothing is assumed of the callers.                                      *)
Fairness == WF_vars(\E h \in Threads : Proceed(h))

FairSpec == Spec /\ Fairness

-----------------------------------------------------------------------------
(* Properties.                                                             *)

TypeOK ==
    /\ RunnerTypeOK
    /\ slots \in [Positions -> Threads]
    /\ slot \in [Threads -> Slot]
    /\ shuttingDown \in BOOLEAN
    /\ outcome \in [Runs -> Outcomes \cup {"new", "running"}]
    /\ wanted \in [Runs -> BOOLEAN]

(* "Replaces a dead or unresponsive thread so the pool keeps its size":    *)
(* each place of the array has a thread of its own whose exit event is     *)
(* still to be acted upon.  A place whose exit was taken for expected      *)
(* would swallow every task it is given.                                   *)
PoolKeepsSize ==
    ~ shuttingDown =>
        /\ \A p, q \in Positions : slots[p] = slots[q] => p = q
        /\ \A p \in Positions : /\ thread[slots[p]].state \in {"up", "down"}
                                /\ ~ slot[slots[p]].terminating

(* The flag of a thread says "cancelled" without saying which task: it     *)
(* serves because a thread is given a task only after the one before has   *)
(* sent its last message.                                                  *)
OneRunPerThread ==
    \A h \in Threads :
        LET waiting == {i \in DOMAIN thread[h].inbox :
                          thread[h].inbox[i].type = "run"}
        IN  waiting # {} => /\ Cardinality(waiting) = 1
                            /\ thread[h].executing = Nothing

(* The outcome of a run is its own: what its thread said of this very run, *)
(* and cancelled only where this run was to be cancelled, although tasks   *)
(* come again, timers and flags outlive tasks and stop requests come late. *)
OutcomeIsOwn ==
    \A n \in Runs :
        /\ outcome[n] = "completed" => ended[n] = "done"
        /\ outcome[n] \in {"failed", "fatal"} => ended[n] = outcome[n]
        /\ outcome[n] = "cancelled" => wanted[n]

(* The pool behaves as the slots TaskEngine uses: a run is settled once,   *)
(* from its slot, and cancelled only if that slot was asked to stop.       *)
Contract == INSTANCE PoolSlots WITH
    Positions <- Positions,
    Runs <- Runs,
    given <- [p \in Positions |-> slot[slots[p]].task],
    asked <- [p \in Positions |-> slot[slots[p]].timer # NoTask],
    outcome <- outcome

ImplementsPoolSlots == Contract!Spec

(* Every run ends: a message, an error, an exit or the grace timer settles *)
(* it, whatever is killed and whenever, unless the process is stopped.     *)
EveryRunSettled ==
    \A n \in Runs :
        outcome[n] = "running" ~> outcome[n] # "running" \/ shuttingDown

=============================================================================

------------------------------ MODULE TaskRunner ------------------------------
(***************************************************************************)
(* A worker thread, server/src/engine/task-runner.ts: it takes commands    *)
(* from the pool in the order they were sent and works through a task in   *)
(* ticks.  One flag, shared by every task the thread will ever run, tells  *)
(* the task at work to stop.                                               *)
(*                                                                         *)
(* A thread that is being terminated works on until it stops, which may be *)
(* between any two of its steps.  Its messages are delivered all the same, *)
(* before its exit event (Node drains the port first).                     *)
(***************************************************************************)
EXTENDS Naturals, Sequences

CONSTANTS
    Threads,    \* thread ids, positive numbers, taken in their order
    Runs        \* calls of WorkerPool.run, numbered from 1 in their order

ASSUME ThreadsAssumption == Threads \subseteq Nat \ {0}
ASSUME RunsAssumption == Runs \subseteq Nat \ {0}

VARIABLES
    thread,     \* thread[h]: the thread, see Thread
    ended       \* ended[n]: last message of run n (history)

runnerVars == <<thread, ended>>

Nothing == 0    \* no run

Commands == [type : {"run"}, run : Runs] \cup [type : {"cancel"}]

\* "fatal" and "failed" are the message failed, not retryable and retryable.
FinalMessages == {"done", "failed", "fatal", "cancelled"}
Messages == [type : FinalMessages, run : Runs]

(* "none": not started; "up": running; "down": stopped, its exit event is  *)
(* on its way; "gone": the exit event was handled.                         *)
Thread == [state : {"none", "up", "down", "gone"},
           doomed : BOOLEAN,                \* terminate() called, or failing
           inbox : Seq(Commands),
           outbox : Seq(Messages),
           executing : Runs \cup {Nothing},
           cancelled : BOOLEAN]

NoThread == [state |-> "none", doomed |-> FALSE, inbox |-> <<>>,
             outbox |-> <<>>, executing |-> Nothing, cancelled |-> FALSE]

GoneThread == [NoThread EXCEPT !.state = "gone"]
NewThread == [NoThread EXCEPT !.state = "up"]

RunnerTypeOK ==
    /\ thread \in [Threads -> Thread]
    /\ ended \in [Runs -> FinalMessages \cup {"nothing"}]

Up(h) == thread[h].state = "up"

Become(h, r) == thread' = [thread EXCEPT ![h] = r]

Post(r, type, n) ==
    [r EXCEPT !.outbox = Append(@, [type |-> type, run |-> n])]

\* The last message of a run: the loop returns.
Finish(h, r, type, n) ==
    /\ Become(h, [Post(r, type, n) EXCEPT !.executing = Nothing])
    /\ ended' = [ended EXCEPT ![n] = type]

Unread(h) == [thread[h] EXCEPT !.inbox = Tail(@)]

ReceiveCancel(h) ==
    /\ Up(h) /\ thread[h].inbox # <<>>
    /\ Head(thread[h].inbox).type = "cancel"
    /\ Become(h, [Unread(h) EXCEPT !.cancelled = TRUE])
    /\ UNCHANGED ended

\* Slip: a stop request left over from an earlier task stays in force.
ExecuteAsIs(h) ==
    /\ Up(h) /\ thread[h].inbox # <<>>
    /\ Head(thread[h].inbox).type = "run"
    /\ LET n == Head(thread[h].inbox).run
           r == Unread(h)
       IN \/ Become(h, [r EXCEPT !.executing = n]) /\ UNCHANGED ended
          \/ Finish(h, r, "fatal", n)

\* execute up to the first sleep: the flag is reset, then planExecution
\* returns or throws.
Execute(h) ==
    /\ Up(h) /\ thread[h].inbox # <<>>
    /\ Head(thread[h].inbox).type = "run"
    /\ LET n == Head(thread[h].inbox).run
           r == [Unread(h) EXCEPT !.cancelled = FALSE]
       IN \/ Become(h, [r EXCEPT !.executing = n]) /\ UNCHANGED ended
          \/ Finish(h, r, "fatal", n)

StopAtTick(h) ==
    /\ Up(h) /\ thread[h].executing # Nothing
    /\ thread[h].cancelled
    /\ Finish(h, thread[h], "cancelled", thread[h].executing)

\* A tick that is neither changes nothing but the progress, see LiveView.
LastTick(h) ==
    /\ Up(h) /\ thread[h].executing # Nothing
    /\ ~ thread[h].cancelled
    /\ \E type \in {"done", "failed"} :
         Finish(h, thread[h], type, thread[h].executing)

\* Commands it has not read are lost with it; the exit event follows.
Stop(h) ==
    /\ Up(h) /\ thread[h].doomed
    /\ Become(h, [thread[h] EXCEPT !.state = "down", !.inbox = <<>>,
                    !.executing = Nothing, !.cancelled = FALSE])
    /\ UNCHANGED ended

Work(h) ==
    \/ ReceiveCancel(h) \/ Execute(h)
    \/ StopAtTick(h) \/ LastTick(h)

=============================================================================

---------------------------- MODULE DispatchLoop ----------------------------
(***************************************************************************)
(* The first half of a dispatch, Dispatcher.tick: the list of active       *)
(* clients, the scheduler's choice, and after an await the pop, against    *)
(* whatever puts tasks into the queues and takes them out meanwhile.  What *)
(* becomes of a popped task is the subject of TaskEngine.                  *)
(***************************************************************************)
EXTENDS ReadyQueue, FairScheduler

CONSTANTS
    Happenings,   \* what may happen besides submissions
    MaxDeficit    \* bound: no client banks more credit

ASSUME OwnersAssumption == ClientOf \in [Tasks -> Clients]
ASSUME HappeningsAssumption ==
    Happenings \subseteq {"withdraw", "flush", "error", "weights"}

VARIABLES
    chosen,       \* clientId between nextClient and the reply of the pop
    row           \* row[t]: what the last enqueue of t was called with

vars == <<queueVars, schedulerVars, chosen, row>>

Init ==
    /\ QueueInit
    /\ SchedulerInit
    /\ chosen = NoClient
    /\ row \in [Tasks -> [priority : Priorities, at : Times]]

(***************************************************************************)
(* The dispatcher.                                                         *)
(***************************************************************************)

\* SMEMBERS and nextClient; a null ends the tick.
Choose ==
    /\ chosen = NoClient
    /\ \E c \in active \cup {NoClient} : NextClient(active, c) /\ chosen' = c
    /\ \A c \in Clients : deficit'[c] <= MaxDeficit
    /\ UNCHANGED <<queueVars, row>>

Pop ==
    /\ chosen # NoClient
    /\ \E t \in Queue(chosen) : PopBest(chosen, t)
    /\ chosen' = NoClient
    /\ UNCHANGED <<schedulerVars, row>>

PopEmpty ==
    /\ chosen # NoClient
    /\ PopNothing(chosen)
    /\ Reset(chosen)
    /\ chosen' = NoClient
    /\ UNCHANGED row

\* The pop throws, before or after Redis has performed it.
PopError ==
    /\ "error" \in Happenings
    /\ chosen # NoClient
    /\ \/ UNCHANGED queueVars
       \/ \E t \in Queue(chosen) : PopBest(chosen, t)
       \/ PopNothing(chosen)
    /\ chosen' = NoClient
    /\ UNCHANGED <<schedulerVars, row>>

RefreshWeights ==
    /\ "weights" \in Happenings
    /\ \E f \in [Clients -> Weights] : SetWeights(f)
    /\ UNCHANGED <<queueVars, chosen, row>>

(***************************************************************************)
(* Submissions, retries and the reconciler; cancellations; Redis.          *)
(***************************************************************************)

Submit(t) ==
    \E p \in Priorities, at \in Times :
        /\ Enqueue(t, p, at)
        /\ row' = [row EXCEPT ![t] = [priority |-> p, at |-> at]]
        /\ UNCHANGED <<schedulerVars, chosen>>

Withdraw(t) ==
    /\ "withdraw" \in Happenings
    /\ t \in entries
    /\ TakeOut(t)
    /\ UNCHANGED <<schedulerVars, chosen, row>>

Flush ==
    /\ "flush" \in Happenings
    /\ FlushQueues
    /\ UNCHANGED <<schedulerVars, chosen, row>>

Next ==
    \/ Choose \/ Pop \/ PopEmpty \/ PopError
    \/ RefreshWeights
    \/ \E t \in Tasks : Submit(t) \/ Withdraw(t)
    \/ Flush

Spec == Init /\ [][Next]_vars

(* The loop keeps ticking and every pop is answered.                       *)
FairSpec == Spec /\ WF_vars(Choose) /\ WF_vars(Pop \/ PopEmpty)

-----------------------------------------------------------------------------

TypeOK ==
    /\ QueueTypeOK
    /\ SchedulerTypeOK
    /\ chosen \in Clients \cup {NoClient}
    /\ row \in [Tasks -> [priority : Priorities, at : Times]]

(* ready-queue.ts: the dispatcher sees a client exactly while it has work. *)
(* A client that is missing here would not be served until its next        *)
(* submission or the reconciler.                                           *)
Registered == \A c \in Clients : c \in active <=> Queue(c) # {}

Better(s, r) ==
    s.priority > r.priority \/ (s.priority = r.priority /\ s.at < r.at)

(* ready-queue.ts: the one number a queue is sorted by yields the highest  *)
(* priority, and the oldest of those, whatever enqueues, withdrawals and   *)
(* repeated enqueues of the same task came before.                         *)
PopsBest ==
    \A t \in entries \ entries' : chosen # NoClient /\ chosen' = NoClient =>
        \A u \in Queue(ClientOf[t]) : ~ Better(row[u], row[t])

BestFirst == [][PopsBest]_vars

(* Fairness: once cancellations cease, a client with work is offered a     *)
(* dispatch, whatever the others submit.                                   *)
GetsTurn ==
    <>[][\A t \in Tasks : ~ Withdraw(t)]_vars =>
        \A c \in Clients : c \in active ~> chosen = c \/ c \notin active

=============================================================================

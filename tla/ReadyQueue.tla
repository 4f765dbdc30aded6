----------------------------- MODULE ReadyQueue -----------------------------
(***************************************************************************)
(* The ready queues, server/src/engine/ready-queue.ts: one sorted set of   *)
(* tasks per client and the set of clients whose queue is not empty.  Each *)
(* operation is one transaction or one Lua script of Redis.                *)
(***************************************************************************)
EXTENDS Integers

CONSTANTS
    Tasks,
    ClientOf,     \* ClientOf[t]: task.client_id
    Priorities,   \* task.priority
    Times,        \* milliseconds since the epoch
    Multiplier    \* PRIORITY_SCORE_MULTIPLIER

ASSUME PrioritiesAssumption == Priorities \subseteq Nat
ASSUME MultiplierAssumption ==
    Multiplier \in Nat /\ Times \subseteq 0 .. Multiplier - 1

VARIABLES
    entries,      \* tasks with an entry in the sorted set of their client
    score,        \* score[t]: the score of that entry
    active        \* clients:active

queueVars == <<entries, score, active>>

Queue(c) == {t \in entries : ClientOf[t] = c}

\* Slip: the age of a task weighs as much as its priority.
PlainScore(priority, at) == priority - at

Score(priority, at) == priority * Multiplier - at

QueueTypeOK ==
    /\ entries \subseteq Tasks
    /\ score \in [Tasks -> Int]
    /\ active \subseteq {ClientOf[t] : t \in Tasks}

QueueInit ==
    /\ entries = {}
    /\ score = [t \in Tasks |-> 0]
    /\ active = {}

\* ZADD gives an entry that is already there its new score.
Enqueue(t, priority, at) ==
    /\ entries' = entries \cup {t}
    /\ score' = [score EXCEPT ![t] = Score(priority, at)]
    /\ active' = active \cup {ClientOf[t]}

\* Slip: the client of the last entry stays registered.
TakeOutOnly(t) ==
    /\ entries' = entries \ {t}
    /\ UNCHANGED <<score, active>>

\* An entry goes, and its client with the last one.
TakeOut(t) ==
    /\ entries' = entries \ {t}
    /\ active' = IF Queue(ClientOf[t]) \ {t} = {}
                 THEN active \ {ClientOf[t]} ELSE active
    /\ UNCHANGED score

\* ZPOPMAX; among equal scores the order of the ids decides, here any.
PopBest(c, t) ==
    /\ t \in Queue(c)
    /\ \A u \in Queue(c) : score[u] <= score[t]
    /\ TakeOut(t)

PopNothing(c) ==
    /\ Queue(c) = {}
    /\ active' = active \ {c}
    /\ UNCHANGED <<entries, score>>

\* A restart of Redis without its data.
FlushQueues ==
    /\ entries' = {} /\ active' = {}
    /\ UNCHANGED score

=============================================================================

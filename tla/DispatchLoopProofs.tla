------------------------- MODULE DispatchLoopProofs -------------------------
(***************************************************************************)
(* Theorems about DispatchLoop, for any number of clients and tasks, any   *)
(* weights, priorities and times below the multiplier, whatever happens.   *)
(***************************************************************************)
EXTENDS DispatchLoop, TLAPS

-----------------------------------------------------------------------------
(* The score.                                                              *)

LEMMA ProductStep ==
    ASSUME NEW p \in Nat, NEW q \in Nat, NEW m \in Nat, p > q
    PROVE  p * m >= q * m + m /\ p * m \in Nat /\ q * m \in Nat
<1>1. PICK d \in Nat : p = (q + 1) + d
  <2>1. p - (q + 1) \in Nat /\ p = (q + 1) + (p - (q + 1))
    OBVIOUS
  <2> QED
    BY <2>1
<1>2. p * m = q * m + m + d * m
  BY <1>1
<1>3. d * m \in Nat /\ q * m \in Nat /\ p * m \in Nat
  OBVIOUS
<1> QED
  BY <1>2, <1>3

(* Priority dominates and age decides among equals, as long as every time  *)
(* is below the multiplier.                                                *)
LEMMA ScoreOrder ==
    ASSUME NEW p \in Nat, NEW q \in Nat, NEW a \in Times, NEW b \in Times,
           p > q \/ (p = q /\ a < b)
    PROVE  Score(p, a) > Score(q, b)
<1>1. a \in Nat /\ a < Multiplier /\ b \in Nat /\ Multiplier \in Nat
  BY MultiplierAssumption
<1>2. CASE p > q
  <2>1. /\ p * Multiplier >= q * Multiplier + Multiplier
        /\ p * Multiplier \in Nat /\ q * Multiplier \in Nat
    BY <1>1, <1>2, ProductStep
  <2> QED
    BY <1>1, <2>1 DEF Score
<1>3. CASE p = q /\ a < b
  <2>1. p * Multiplier \in Int
    BY <1>1
  <2> QED
    BY <1>1, <1>3, <2>1 DEF Score
<1> QED
  BY <1>2, <1>3

-----------------------------------------------------------------------------
(* The scheduler.                                                          *)

LEMMA CreditTypes ==
    ASSUME SchedulerTypeOK
    PROVE  /\ Cost \in Nat
           /\ \A c \in Clients : /\ deficit[c] \in Nat /\ weight[c] \in Nat
                                 /\ Credit(c) \in Nat
<1>1. Cost \in Nat
  BY CostAssumption
<1>2. ASSUME NEW c \in Clients
      PROVE  deficit[c] \in Nat /\ weight[c] \in Nat
  BY WeightsAssumption DEF SchedulerTypeOK
<1> QED
  BY <1>1, <1>2 DEF Credit

LEMMA NextClientTypes ==
    ASSUME SchedulerTypeOK, NEW list \in SUBSET Clients, NEW c,
           NextClient(list, c)
    PROVE  SchedulerTypeOK' /\ c \in list \cup {NoClient}
<1>1. CASE KeepTurn(list, c)
  <2>1. c \in list /\ deficit[c] - Cost \in Nat
    BY <1>1, CreditTypes DEF KeepTurn, HoldsTurn
  <2> QED
    BY <1>1, <2>1 DEF KeepTurn, SchedulerTypeOK
<1>2. CASE TakeTurn(list, c)
  <2>1. c \in list /\ Credit(c) - Cost \in Nat
    BY <1>2, CreditTypes DEF TakeTurn, Found
  <2> QED
    BY <1>2, <2>1, CreditTypes DEF TakeTurn, Grant, SchedulerTypeOK
<1>3. CASE c = NoClient /\ NoTurn(list)
  <2>1. deficit' \in [Clients -> Nat]
    <3>1. \A d \in Clients : d # NoClient
      BY ClientsAssumption
    <3>2. deficit' = [d \in Clients |-> IF d \in Visited(list, NoClient)
                                       THEN Credit(d) ELSE deficit[d]]
      BY <1>3, <3>1 DEF NoTurn, Grant
    <3> QED
      BY <3>2, CreditTypes
  <2> QED
    BY <1>3, <2>1 DEF NoTurn, SchedulerTypeOK
<1>4. CASE c = NoClient /\ NoList(list)
  BY <1>4 DEF NoList, SchedulerTypeOK
<1> QED
  BY <1>1, <1>2, <1>3, <1>4 DEF NextClient

-----------------------------------------------------------------------------
(* The invariant: types, the registry, and that the score of an entry is   *)
(* that of its last enqueue.                                               *)

Scored == \A t \in entries : score[t] = Score(row[t].priority, row[t].at)

Consistent == TypeOK /\ Registered /\ Scored

LEMMA InitConsistent == Init => Consistent
  BY DEF Init, QueueInit, SchedulerInit, Consistent, TypeOK, QueueTypeOK,
         SchedulerTypeOK, Registered, Queue, Scored

LEMMA TakeOutKeeps ==
    ASSUME Consistent, NEW t \in entries, TakeOut(t), UNCHANGED row
    PROVE  QueueTypeOK' /\ Registered' /\ Scored'
<1>1. QueueTypeOK'
  BY DEF Consistent, TypeOK, QueueTypeOK, TakeOut
<1>2. Registered'
  <2> SUFFICES ASSUME NEW c \in Clients
               PROVE  c \in active' <=> Queue(c)' # {}
    BY DEF Registered
  <2>1. Queue(c)' = Queue(c) \ {t}
    BY DEF TakeOut, Queue
  <2>2. CASE c = ClientOf[t]
    <3>1. t \in Queue(c) /\ c \in active
      BY <2>2 DEF Consistent, Registered, Queue
    <3> QED
      BY <2>1, <2>2, <3>1 DEF TakeOut
  <2>3. CASE c # ClientOf[t]
    <3>1. Queue(c)' = Queue(c)
      BY <2>1, <2>3 DEF Queue
    <3>2. c \in active' <=> c \in active
      BY <2>3 DEF TakeOut
    <3> QED
      BY <3>1, <3>2 DEF Consistent, Registered
  <2> QED
    BY <2>2, <2>3
<1>3. Scored'
  BY DEF Consistent, Scored, TakeOut
<1> QED
  BY <1>1, <1>2, <1>3

LEMMA NothingKeeps ==
    ASSUME Consistent, NEW c \in Clients, PopNothing(c), UNCHANGED row
    PROVE  QueueTypeOK' /\ Registered' /\ Scored'
<1>1. active' = active /\ entries' = entries /\ score' = score
  BY DEF Consistent, Registered, PopNothing
<1> QED
  BY <1>1 DEF Consistent, TypeOK, QueueTypeOK, Registered, Queue, Scored

LEMMA SubmitKeeps ==
    ASSUME Consistent, NEW t \in Tasks, Submit(t)
    PROVE  Consistent'
<1>1. PICK p \in Priorities, at \in Times :
        /\ Enqueue(t, p, at)
        /\ row' = [row EXCEPT ![t] = [priority |-> p, at |-> at]]
        /\ UNCHANGED <<schedulerVars, chosen>>
  BY DEF Submit
<1>2. Score(p, at) \in Int
  <2>1. p \in Int /\ at \in Int /\ Multiplier \in Int
    BY PrioritiesAssumption, MultiplierAssumption
  <2> QED
    BY <2>1 DEF Score
<1>3. TypeOK'
  <2>1. QueueTypeOK'
    BY <1>1, <1>2 DEF Enqueue, Consistent, TypeOK, QueueTypeOK
  <2>2. row' \in [Tasks -> [priority : Priorities, at : Times]]
    BY <1>1 DEF Consistent, TypeOK
  <2> QED
    BY <1>1, <2>1, <2>2 DEF Consistent, TypeOK, SchedulerTypeOK, schedulerVars
<1>4. Registered'
  <2> SUFFICES ASSUME NEW c \in Clients
               PROVE  c \in active' <=> Queue(c)' # {}
    BY DEF Registered
  <2>1. CASE c = ClientOf[t]
    <3>1. t \in Queue(c)' /\ c \in active'
      BY <1>1, <2>1 DEF Enqueue, Queue
    <3> QED
      BY <3>1
  <2>2. CASE c # ClientOf[t]
    <3>1. Queue(c)' = Queue(c) /\ (c \in active' <=> c \in active)
      BY <1>1, <2>2 DEF Enqueue, Queue
    <3> QED
      BY <3>1 DEF Consistent, Registered
  <2> QED
    BY <2>1, <2>2
<1>5. Scored'
  <2> SUFFICES ASSUME NEW u \in entries'
               PROVE  score'[u] = Score(row'[u].priority, row'[u].at)
    BY DEF Scored, Score
  <2>1. CASE u = t
    <3>1. score'[t] = Score(p, at) /\ row'[t] = [priority |-> p, at |-> at]
      BY <1>1 DEF Enqueue, Consistent, TypeOK, QueueTypeOK
    <3> QED
      BY <2>1, <3>1
  <2>2. CASE u # t
    <3>1. u \in entries /\ score'[u] = score[u] /\ row'[u] = row[u]
      BY <1>1, <2>2 DEF Enqueue, Consistent, TypeOK, QueueTypeOK
    <3> QED
      BY <3>1 DEF Consistent, Scored
  <2> QED
    BY <2>1, <2>2
<1> QED
  BY <1>3, <1>4, <1>5 DEF Consistent

LEMMA NextConsistent == Consistent /\ [Next]_vars => Consistent'
<1> SUFFICES ASSUME Consistent, [Next]_vars PROVE Consistent'
  OBVIOUS
<1> USE DEF Consistent
<1>1. CASE UNCHANGED vars
  BY <1>1 DEF vars, queueVars, schedulerVars, TypeOK, QueueTypeOK,
              SchedulerTypeOK, Registered, Queue, Scored
<1>2. CASE Choose
  <2>1. active \in SUBSET Clients
    BY OwnersAssumption DEF TypeOK, QueueTypeOK
  <2>2. SchedulerTypeOK' /\ chosen' \in Clients \cup {NoClient}
    BY <1>2, <2>1, NextClientTypes DEF Choose, TypeOK
  <2> QED
    BY <1>2, <2>2 DEF Choose, queueVars, TypeOK, QueueTypeOK, Registered,
                      Queue, Scored
<1>3. CASE Pop
  <2>1. PICK t \in Queue(chosen) : PopBest(chosen, t)
    BY <1>3 DEF Pop
  <2>2. QueueTypeOK' /\ Registered' /\ Scored'
    BY <1>3, <2>1, TakeOutKeeps DEF Pop, PopBest, Queue
  <2> QED
    BY <1>3, <2>2 DEF Pop, TypeOK, SchedulerTypeOK, schedulerVars
<1>4. CASE PopEmpty
  <2>1. chosen \in Clients
    BY <1>4 DEF PopEmpty, TypeOK
  <2>2. QueueTypeOK' /\ Registered' /\ Scored'
    BY <1>4, <2>1, NothingKeeps DEF PopEmpty
  <2>3. SchedulerTypeOK'
    BY <1>4, <2>1 DEF PopEmpty, Reset, TypeOK, SchedulerTypeOK
  <2> QED
    BY <1>4, <2>2, <2>3 DEF PopEmpty, TypeOK
<1>5. CASE PopError
  <2>1. chosen \in Clients
    BY <1>5 DEF PopError, TypeOK
  <2>2. QueueTypeOK' /\ Registered' /\ Scored'
    <3>1. CASE UNCHANGED queueVars
      BY <1>5, <3>1 DEF PopError, queueVars, TypeOK, QueueTypeOK, Registered,
                        Queue, Scored
    <3>2. CASE \E t \in Queue(chosen) : PopBest(chosen, t)
      BY <1>5, <3>2, TakeOutKeeps DEF PopError, PopBest, Queue
    <3>3. CASE PopNothing(chosen)
      BY <1>5, <2>1, <3>3, NothingKeeps DEF PopError
    <3> QED
      BY <1>5, <3>1, <3>2, <3>3 DEF PopError
  <2> QED
    BY <1>5, <2>2 DEF PopError, TypeOK, SchedulerTypeOK, schedulerVars
<1>6. CASE RefreshWeights
  BY <1>6 DEF RefreshWeights, SetWeights, queueVars, TypeOK, QueueTypeOK,
              SchedulerTypeOK, Registered, Queue, Scored
<1>7. ASSUME NEW t \in Tasks, Submit(t)
      PROVE  Consistent'
  BY <1>7, SubmitKeeps
<1>8. ASSUME NEW t \in Tasks, Withdraw(t)
      PROVE  Consistent'
  BY <1>8, TakeOutKeeps DEF Withdraw, TypeOK, SchedulerTypeOK, schedulerVars
<1>9. CASE Flush
  BY <1>9 DEF Flush, FlushQueues, TypeOK, QueueTypeOK, SchedulerTypeOK,
              schedulerVars, Registered, Queue, Scored
<1> QED
  BY <1>1, <1>2, <1>3, <1>4, <1>5, <1>6, <1>7, <1>8, <1>9 DEF Next

-----------------------------------------------------------------------------

(* Every variable keeps its type; a deficit in particular is never negative. *)
THEOREM AlwaysTyped == Spec => []TypeOK
<1>1. Consistent => TypeOK
  BY DEF Consistent
<1> QED
  BY <1>1, InitConsistent, NextConsistent, PTL DEF Spec

(* The dispatcher sees a client exactly while the client has work queued.  *)
THEOREM AlwaysRegistered == Spec => []Registered
<1>1. Consistent => Registered
  BY DEF Consistent
<1> QED
  BY <1>1, InitConsistent, NextConsistent, PTL DEF Spec

LEMMA BestStep ==
    ASSUME Consistent, NEW c \in Clients, NEW t \in Queue(c), PopBest(c, t)
    PROVE  \A u \in Queue(c) : ~ Better(row[u], row[t])
<1> SUFFICES ASSUME NEW u \in Queue(c), Better(row[u], row[t])
             PROVE  FALSE
  OBVIOUS
<1>1. /\ score[t] = Score(row[t].priority, row[t].at)
      /\ score[u] = Score(row[u].priority, row[u].at)
      /\ t \in Tasks /\ u \in Tasks
  BY DEF Consistent, TypeOK, QueueTypeOK, Scored, Queue
<1>2. /\ row[t].priority \in Nat /\ row[t].at \in Times
      /\ row[u].priority \in Nat /\ row[u].at \in Times
  BY <1>1, PrioritiesAssumption DEF Consistent, TypeOK
<1>3. score[u] > score[t]
  BY <1>1, <1>2, ScoreOrder DEF Better
<1>4. score[u] <= score[t] /\ score[u] \in Int /\ score[t] \in Int
  BY <1>1 DEF PopBest, Consistent, TypeOK, QueueTypeOK
<1> QED
  BY <1>3, <1>4

(* A pop yields the highest priority of the client, the oldest among       *)
(* equals, however the entries came into the queue.                        *)
THEOREM PopsBestFirst == Spec => BestFirst
<1>1. Consistent /\ [Next]_vars => [PopsBest]_vars
  <2> SUFFICES ASSUME Consistent, Next, NEW t \in entries \ entries',
                      chosen # NoClient, chosen' = NoClient,
                      NEW u \in Queue(ClientOf[t])
               PROVE  ~ Better(row[u], row[t])
    BY DEF PopsBest
  <2>1. PICK v \in Queue(chosen) : PopBest(chosen, v)
    <3>1. Pop \/ PopError
      BY DEF Next, Choose, PopEmpty, PopNothing, RefreshWeights, Submit,
             Enqueue, Withdraw, Flush, queueVars
    <3> QED
      BY <3>1 DEF Pop, PopError, PopNothing, queueVars
  <2>2. t = v /\ ClientOf[t] = chosen
    BY <2>1 DEF PopBest, TakeOut, Queue
  <2>3. chosen \in Clients
    BY DEF Consistent, TypeOK
  <2> QED
    BY <2>1, <2>2, <2>3, BestStep
<1> QED
  BY <1>1, InitConsistent, NextConsistent, PTL DEF Spec, BestFirst

=============================================================================

--------------------------- MODULE WorkerPoolProofs ---------------------------
(***************************************************************************)
(* That a pool of threads behaves as the slots of TaskEngine, for any      *)
(* number of places, spare threads, runs and tasks and whatever happens.   *)
(*                                                                         *)
(* Everything rests on one fact about a thread: all that is with it, in    *)
(* its inbox, at work or in its outbox, belongs to the run its slot holds. *)
(* It is why an outcome needs no number of its own, and why a thread that  *)
(* may still have something to say must never get its place back.          *)
(***************************************************************************)
EXTENDS WorkerPool, FiniteSetTheorems, SequenceTheorems, WellFoundedInduction, TLAPS

-----------------------------------------------------------------------------
(* What a thread has to do with runs; q is a Thread.                       *)

RunAt(q, i) == i \in DOMAIN q.inbox /\ q.inbox[i].type = "run"
CancelAt(q, i) == i \in DOMAIN q.inbox /\ q.inbox[i].type = "cancel"

\* Run n is with the thread: to be begun, at work or reported.
Has(q, n) ==
    \/ \E i \in Nat : RunAt(q, i) /\ q.inbox[i].run = n
    \/ q.executing = n
    \/ \E i \in DOMAIN q.outbox : q.outbox[i].run = n

\* At most one run is with the thread.
Orderly(q) ==
    /\ \A i, j \in Nat : RunAt(q, i) /\ RunAt(q, j) => i = j
    /\ \A i \in Nat : RunAt(q, i) => q.executing = Nothing /\ q.outbox = <<>>
    /\ q.executing # Nothing => q.outbox = <<>>
    /\ Len(q.outbox) <= 1

\* The thread will stop a run only if it is one of w.
StopsWanted(q, w) ==
    /\ \A i, j \in Nat : RunAt(q, i) /\ CancelAt(q, j) /\ i < j => q.inbox[i].run \in w
    /\ q.executing # Nothing /\ (q.cancelled \/ \E i \in Nat : CancelAt(q, i)) =>
         q.executing \in w

\* What it reports is what became of the run, by e.
ReportsTrue(q, e) == \A i \in DOMAIN q.outbox : e[q.outbox[i].run] = q.outbox[i].type

ThreadOK(q, w, e) == Orderly(q) /\ StopsWanted(q, w) /\ ReportsTrue(q, e)

\* A thread after it was sent a command, has read one, reported, was heard or stopped.
SentRun(q, n) == [q EXCEPT !.inbox = Append(@, [type |-> "run", run |-> n])]
SentCancel(q) == [q EXCEPT !.inbox = Append(@, [type |-> "cancel"])]
TookCancel(q) == [q EXCEPT !.inbox = Tail(@), !.cancelled = TRUE]
TookRun(q) == [q EXCEPT !.inbox = Tail(@), !.cancelled = FALSE,
                        !.executing = Head(q.inbox).run]
Reported(q, type) ==
    [q EXCEPT !.outbox = Append(@, [type |-> type, run |-> q.executing]),
              !.executing = Nothing]
Heard(q) == [q EXCEPT !.outbox = Tail(@)]
Halted(q) == [q EXCEPT !.state = "down", !.inbox = <<>>,
                       !.executing = Nothing, !.cancelled = FALSE]

-----------------------------------------------------------------------------
Wanted == {n \in Runs : wanted[n]}

\* A thread with a busy slot has no other run, one that may be given a run has none.
OwnRuns ==
    \A h \in Threads : \A n \in Runs : Has(thread[h], n) =>
        /\ Busy(h) => slot[h].task = n
        /\ ~ Busy(h) => shuttingDown \/ ~ InArray(h)

\* A run is with one thread, and with none before it starts or when it was heard.
OneThread ==
    \A n \in Runs : \A h \in Threads : Has(thread[h], n) =>
        /\ outcome[n] \notin {"new", "completed", "failed", "fatal"}
        /\ \A g \in Threads : Has(thread[g], n) => g = h

\* The timer runs for the task in the slot, and just when it is wanted to stop.
Timers ==
    \A h \in Threads :
        /\ slot[h].timer # NoTask => /\ Busy(h) /\ wanted[slot[h].task]
                                     /\ slot[h].timer = TaskOf[slot[h].task]
        /\ Busy(h) /\ wanted[slot[h].task] => slot[h].timer # NoTask

\* A run is in one slot.
OneSlot == \A g, h \in Threads : Busy(h) /\ slot[g].task = slot[h].task => g = h

Started == \A n \in Runs : outcome[n] = "new" => ~ wanted[n]
StartedInSlot == \A h \in Threads : Busy(h) => outcome[slot[h].task] # "new"
HeardWanted == \A n \in Runs : ended[n] = "cancelled" => wanted[n]

\* Only a thread in the array is busy; each has one place, unused ones have none.
Places ==
    /\ \A p, q \in Positions : slots[p] = slots[q] => p = q
    /\ \A h \in Threads : Busy(h) => InArray(h)
    /\ \A h \in Threads : thread[h].state = "none" =>
         thread[h] = NoThread /\ slot[h] = NewSlot /\ ~ InArray(h)

\* A thread stops because it is doomed, and is then replaced, or to be replaced.
Dooms ==
    \A h \in Threads :
        /\ thread[h].state = "down" => thread[h].doomed
        /\ thread[h].doomed =>
             shuttingDown \/ InArray(h) \/ slot[h].terminating \/ slot[h].fault

\* There is a spare thread for every replacement that is to come.
Enough ==
    ~ shuttingDown =>
        Cardinality(Unused) >= Cardinality(Failing) + Cardinality(Leaving)

PoolInv ==
    /\ TypeOK
    /\ \A h \in Threads : ThreadOK(thread[h], Wanted, ended)
    /\ OwnRuns /\ OneThread
    /\ Timers /\ OneSlot /\ Started /\ StartedInSlot /\ HeardWanted
    /\ Places /\ PoolKeepsSize /\ Dooms /\ Enough
    /\ OutcomeIsOwn

-----------------------------------------------------------------------------
(* Threads, whatever becomes of them.                                      *)

LEMMA NoRunIsNothing == Nothing \notin Runs /\ Runs \subseteq Nat
  BY RunsAssumption DEF Nothing

LEMMA ThreadTyped ==
    ASSUME NEW q \in Thread
    PROVE  /\ q.inbox \in Seq(Commands) /\ DOMAIN q.inbox = 1 .. Len(q.inbox)
           /\ Len(q.inbox) \in Nat
           /\ q.outbox \in Seq(Messages) /\ DOMAIN q.outbox = 1 .. Len(q.outbox)
           /\ Len(q.outbox) \in Nat
           /\ q.executing \in Runs \cup {Nothing}
           /\ \A i \in Nat : RunAt(q, i) => q.inbox[i].run \in Runs
           /\ \A i \in DOMAIN q.outbox : q.outbox[i].run \in Runs
           /\ q.doomed \in BOOLEAN /\ q.cancelled \in BOOLEAN
           /\ q.state \in {"none", "up", "down", "gone"}
<1>1. /\ q.inbox \in Seq(Commands) /\ q.outbox \in Seq(Messages)
      /\ q.executing \in Runs \cup {Nothing}
      /\ q.doomed \in BOOLEAN /\ q.cancelled \in BOOLEAN
      /\ q.state \in {"none", "up", "down", "gone"}
  BY DEF Thread
<1>2. /\ DOMAIN q.inbox = 1 .. Len(q.inbox) /\ Len(q.inbox) \in Nat
      /\ DOMAIN q.outbox = 1 .. Len(q.outbox) /\ Len(q.outbox) \in Nat
  BY <1>1, LenProperties
<1>3. \A i \in DOMAIN q.inbox : q.inbox[i] \in Commands
  BY <1>1, <1>2, ElementOfSeq
<1>4. \A i \in DOMAIN q.outbox : q.outbox[i] \in Messages
  BY <1>1, <1>2, ElementOfSeq
<1>5. \A i \in Nat : RunAt(q, i) => q.inbox[i].run \in Runs
  BY <1>3 DEF RunAt, Commands
<1>6. \A i \in DOMAIN q.outbox : q.outbox[i].run \in Runs
  BY <1>4 DEF Messages
<1> QED
  BY <1>1, <1>2, <1>5, <1>6

\* A thread with nothing in its queues and nothing to do.
LEMMA Blank ==
    ASSUME NEW q \in Thread, q.inbox = <<>>, q.outbox = <<>>, q.executing = Nothing,
           NEW w, NEW e
    PROVE  ThreadOK(q, w, e) /\ \A n \in Runs : ~ Has(q, n)
<1>1. DOMAIN q.inbox = {} /\ DOMAIN q.outbox = {} /\ Len(q.outbox) = 0
  OBVIOUS
<1> QED
  BY <1>1, NoRunIsNothing
     DEF ThreadOK, Orderly, StopsWanted, ReportsTrue, Has, RunAt, CancelAt

LEMMA BlankThreads ==
    /\ NoThread \in Thread /\ NewThread \in Thread /\ GoneThread \in Thread
    /\ \A q \in {NoThread, NewThread, GoneThread} :
         q.inbox = <<>> /\ q.outbox = <<>> /\ q.executing = Nothing
<1>1. <<>> \in Seq(Commands) /\ <<>> \in Seq(Messages)
  BY EmptySeq
<1>2. NoThread \in Thread
  BY <1>1 DEF NoThread, Thread
<1>3. NewThread = [NoThread EXCEPT !.state = "up"] /\ GoneThread = [NoThread EXCEPT !.state = "gone"]
  BY DEF NewThread, GoneThread
<1>4. NewThread \in Thread /\ GoneThread \in Thread
  BY <1>2, <1>3 DEF Thread
<1> QED
  BY <1>2, <1>4 DEF NoThread, NewThread, GoneThread

\* Who has no run has no command to run one, none at work and no message.
LEMMA HasNone ==
    ASSUME NEW q \in Thread, \A n \in Runs : ~ Has(q, n)
    PROVE  /\ \A i \in Nat : ~ RunAt(q, i)
           /\ q.executing = Nothing
           /\ q.outbox = <<>>
<1>1. \A i \in Nat : ~ RunAt(q, i)
  BY ThreadTyped DEF Has
<1>2. q.executing = Nothing
  BY ThreadTyped DEF Has
<1>3. ~ (1 \in DOMAIN q.outbox)
  BY ThreadTyped DEF Has
<1>4. Len(q.outbox) = 0
  BY <1>3, ThreadTyped
<1> QED
  BY <1>1, <1>2, <1>4, ThreadTyped, EmptySeq

LEMMA SendRun ==
    ASSUME NEW q \in Thread, NEW w, NEW e, ThreadOK(q, w, e),
           \A m \in Runs : ~ Has(q, m), NEW n \in Runs
    PROVE  /\ SentRun(q, n) \in Thread
           /\ ThreadOK(SentRun(q, n), w, e)
           /\ \A m \in Runs : Has(SentRun(q, n), m) => m = n
<1> DEFINE r == SentRun(q, n)
           c == [type |-> "run", run |-> n]
           k == Len(q.inbox) + 1
<1>1. c \in Commands /\ c.type = "run" /\ c.run = n
  BY DEF Commands
<1>2. /\ r.inbox = Append(q.inbox, c) /\ r.outbox = q.outbox
      /\ r.executing = q.executing /\ r.cancelled = q.cancelled
      /\ r.inbox \in Seq(Commands)
      /\ r \in Thread
  BY <1>1, AppendProperties DEF SentRun, Thread
<1>3. /\ DOMAIN r.inbox = 1 .. k /\ k \in Nat /\ r.inbox[k] = c
      /\ \A i \in 1 .. k - 1 : i \in DOMAIN q.inbox /\ r.inbox[i] = q.inbox[i]
  BY <1>1, <1>2, ThreadTyped, AppendProperties, LenProperties
<1>4. /\ \A i \in Nat : RunAt(r, i) <=> i = k
      /\ \A i \in Nat : CancelAt(r, i) => i < k
  BY <1>1, <1>3, HasNone DEF RunAt, CancelAt
<1>5. r.executing = Nothing /\ r.outbox = <<>> /\ Len(r.outbox) <= 1
  BY <1>2, HasNone DEF Orderly, ThreadOK
<1>6. Orderly(r) /\ StopsWanted(r, w) /\ ReportsTrue(r, e)
  <2>1. Orderly(r)
    BY <1>4, <1>5 DEF Orderly
  <2>2. StopsWanted(r, w)
    <3>1. ASSUME NEW i \in Nat, NEW j \in Nat, RunAt(r, i), CancelAt(r, j)
          PROVE  ~ (i < j)
      <4>1. i = k /\ j < k
        BY <1>4, <3>1
      <4> HIDE DEF k
      <4> QED
        BY <4>1, <3>1
    <3> QED
      BY <1>5, <3>1, Zenon DEF StopsWanted
  <2>3. ReportsTrue(r, e)
    BY <1>2 DEF ReportsTrue, ThreadOK
  <2> QED
    BY <2>1, <2>2, <2>3
<1>7. \A m \in Runs : Has(r, m) => m = n
  BY <1>1, <1>2, <1>3, <1>4, <1>5, NoRunIsNothing DEF Has
<1> QED
  BY <1>2, <1>6, <1>7 DEF ThreadOK

LEMMA SendCancel ==
    ASSUME NEW q \in Thread, NEW w, NEW e, ThreadOK(q, w, e), NEW v,
           w \subseteq v, \A n \in Runs : Has(q, n) => n \in v
    PROVE  /\ SentCancel(q) \in Thread
           /\ ThreadOK(SentCancel(q), v, e)
           /\ \A n \in Runs : Has(SentCancel(q), n) => Has(q, n)
<1> DEFINE r == SentCancel(q)
           c == [type |-> "cancel"]
           k == Len(q.inbox) + 1
<1>1. c \in Commands /\ c.type = "cancel"
  BY DEF Commands
<1>2. /\ r.inbox = Append(q.inbox, c) /\ r.outbox = q.outbox
      /\ r.executing = q.executing /\ r.cancelled = q.cancelled
      /\ r.inbox \in Seq(Commands)
      /\ r \in Thread
  BY <1>1, AppendProperties DEF SentCancel, Thread
<1>3. /\ DOMAIN r.inbox = 1 .. k /\ k \in Nat /\ r.inbox[k] = c
      /\ \A i \in 1 .. k - 1 : i \in DOMAIN q.inbox /\ r.inbox[i] = q.inbox[i]
      /\ DOMAIN q.inbox = 1 .. k - 1
  BY <1>1, <1>2, ThreadTyped, AppendProperties, LenProperties
<1>4. \A i \in Nat : RunAt(r, i) <=> RunAt(q, i)
  BY <1>1, <1>3 DEF RunAt
<1>5. \A i \in Nat : RunAt(r, i) => r.inbox[i] = q.inbox[i]
  BY <1>3, <1>4 DEF RunAt
<1>6. \A n \in Runs : Has(r, n) => Has(q, n)
  BY <1>2, <1>4, <1>5 DEF Has
<1>7. Orderly(r) /\ ReportsTrue(r, e)
  BY <1>2, <1>4 DEF Orderly, ReportsTrue, ThreadOK
<1>8. StopsWanted(r, v)
  BY <1>2, <1>4, <1>5, ThreadTyped DEF StopsWanted, Has
<1> QED
  BY <1>2, <1>6, <1>7, <1>8 DEF ThreadOK

\* What is left of an inbox when its first command was read.
LEMMA Unqueue ==
    ASSUME NEW q \in Thread, q.inbox # <<>>, NEW r, r.inbox = Tail(q.inbox)
    PROVE  /\ Tail(q.inbox) \in Seq(Commands)
           /\ Head(q.inbox) \in Commands /\ Head(q.inbox) = q.inbox[1]
           /\ 1 \in DOMAIN q.inbox
           /\ \A i \in Nat : RunAt(r, i) =>
                i + 1 \in Nat /\ RunAt(q, i + 1) /\ r.inbox[i] = q.inbox[i + 1]
           /\ \A i \in Nat : CancelAt(r, i) => i + 1 \in Nat /\ 1 < i + 1 /\ CancelAt(q, i + 1)
<1>1. q.inbox \in Seq(Commands) /\ DOMAIN q.inbox = 1 .. Len(q.inbox) /\ Len(q.inbox) \in Nat
  BY ThreadTyped
<1>2. /\ Head(q.inbox) \in Commands /\ Tail(q.inbox) \in Seq(Commands)
      /\ Len(Tail(q.inbox)) = Len(q.inbox) - 1
      /\ \A i \in 1 .. Len(Tail(q.inbox)) : Tail(q.inbox)[i] = q.inbox[i + 1]
  BY <1>1, HeadTailProperties
<1>3. DOMAIN Tail(q.inbox) = 1 .. Len(q.inbox) - 1
  BY <1>2, LenProperties
<1>4. Head(q.inbox) = q.inbox[1] /\ Len(q.inbox) # 0
  BY <1>1, EmptySeq
<1>5. ASSUME NEW i \in Nat, i \in DOMAIN r.inbox
      PROVE  /\ i + 1 \in Nat /\ 1 < i + 1 /\ i + 1 \in DOMAIN q.inbox
             /\ r.inbox[i] = q.inbox[i + 1]
  <2>1. i \in 1 .. Len(q.inbox) - 1 /\ i \in 1 .. Len(Tail(q.inbox))
    BY <1>2, <1>3, <1>5
  <2>2. i + 1 \in Nat /\ 1 < i + 1 /\ i + 1 \in 1 .. Len(q.inbox)
    BY <1>1, <2>1
  <2> QED
    BY <1>1, <1>2, <2>1, <2>2
<1>6. ASSUME NEW i \in Nat, RunAt(r, i)
      PROVE  i + 1 \in Nat /\ RunAt(q, i + 1) /\ r.inbox[i] = q.inbox[i + 1]
  <2>1. i \in DOMAIN r.inbox /\ r.inbox[i].type = "run"
    BY <1>6 DEF RunAt
  <2> QED
    BY <1>5, <2>1 DEF RunAt
<1>7. ASSUME NEW i \in Nat, CancelAt(r, i)
      PROVE  i + 1 \in Nat /\ 1 < i + 1 /\ CancelAt(q, i + 1)
  <2>1. i \in DOMAIN r.inbox /\ r.inbox[i].type = "cancel"
    BY <1>7 DEF CancelAt
  <2> QED
    BY <1>5, <2>1 DEF CancelAt
<1>8. 1 \in DOMAIN q.inbox
  BY <1>1, <1>4
<1> QED
  BY <1>2, <1>4, <1>6, <1>7, <1>8

LEMMA ReadCancel ==
    ASSUME NEW q \in Thread, NEW w, NEW e, ThreadOK(q, w, e),
           q.inbox # <<>>, Head(q.inbox).type = "cancel"
    PROVE  /\ TookCancel(q) \in Thread
           /\ ThreadOK(TookCancel(q), w, e)
           /\ \A n \in Runs : Has(TookCancel(q), n) => Has(q, n)
<1> DEFINE r == TookCancel(q)
<1>1. /\ r.inbox = Tail(q.inbox) /\ r.outbox = q.outbox /\ r.executing = q.executing
      /\ r.cancelled = TRUE
  BY DEF TookCancel, Thread
<1>2. r \in Thread
  BY <1>1, Unqueue DEF TookCancel, Thread
<1>3. ASSUME NEW i \in Nat, RunAt(r, i)
      PROVE  i + 1 \in Nat /\ RunAt(q, i + 1) /\ r.inbox[i] = q.inbox[i + 1]
  BY <1>1, <1>3, Unqueue
<1>4. ASSUME NEW i \in Nat, CancelAt(r, i)
      PROVE  i + 1 \in Nat /\ CancelAt(q, i + 1)
  BY <1>1, <1>4, Unqueue
<1>5. CancelAt(q, 1)
  BY <1>1, Unqueue DEF CancelAt
<1>6. Orderly(r)
  <2>1. ASSUME NEW i \in Nat, NEW j \in Nat, RunAt(r, i), RunAt(r, j)
        PROVE  i = j
    <3>1. i + 1 = j + 1
      BY <1>3, <2>1, Zenon DEF Orderly, ThreadOK
    <3> QED
      BY <3>1
  <2>2. ASSUME NEW i \in Nat, RunAt(r, i)
        PROVE  r.executing = Nothing /\ r.outbox = <<>>
    BY <1>1, <1>3, <2>2, Zenon DEF Orderly, ThreadOK
  <2>3. (r.executing # Nothing => r.outbox = <<>>) /\ Len(r.outbox) <= 1
    BY <1>1, Zenon DEF Orderly, ThreadOK
  <2> QED
    BY <2>1, <2>2, <2>3, Zenon DEF Orderly
<1>7. StopsWanted(r, w)
  <2>1. ASSUME NEW i \in Nat, NEW j \in Nat, RunAt(r, i), CancelAt(r, j), i < j
        PROVE  r.inbox[i].run \in w
    <3>1. i + 1 < j + 1
      BY <2>1
    <3> QED
      BY <1>3, <1>4, <2>1, <3>1, Zenon DEF StopsWanted, ThreadOK
  <2>2. r.executing # Nothing => r.executing \in w
    BY <1>1, <1>5, Zenon DEF StopsWanted, ThreadOK
  <2> QED
    BY <2>1, <2>2, Zenon DEF StopsWanted
<1>8. ReportsTrue(r, e)
  BY <1>1, Zenon DEF ReportsTrue, ThreadOK
<1>9. \A n \in Runs : Has(r, n) => Has(q, n)
  <2>1. ASSUME NEW n \in Runs, NEW i \in Nat, RunAt(r, i), r.inbox[i].run = n
        PROVE  Has(q, n)
    BY <1>3, <2>1, Zenon DEF Has
  <2> QED
    BY <1>1, <2>1, Zenon DEF Has
<1> QED
  BY <1>2, <1>6, <1>7, <1>8, <1>9 DEF ThreadOK

\* The command to run: the flag is reset, and cancels behind it are for this run.
LEMMA ReadRun ==
    ASSUME NEW q \in Thread, NEW w, NEW e, ThreadOK(q, w, e),
           q.inbox # <<>>, Head(q.inbox).type = "run"
    PROVE  /\ TookRun(q) \in Thread
           /\ ThreadOK(TookRun(q), w, e)
           /\ \A n \in Runs : Has(TookRun(q), n) => Has(q, n)
           /\ Head(q.inbox).run \in Runs /\ Has(q, Head(q.inbox).run)
<1> DEFINE r == TookRun(q)
<1>1. /\ r.inbox = Tail(q.inbox) /\ r.outbox = q.outbox
      /\ r.executing = Head(q.inbox).run /\ r.cancelled = FALSE
  BY DEF TookRun, Thread
<1>2. Head(q.inbox) = q.inbox[1] /\ 1 \in DOMAIN q.inbox /\ Tail(q.inbox) \in Seq(Commands)
  BY <1>1, Unqueue
<1>3. RunAt(q, 1) /\ q.inbox[1].run \in Runs
  BY <1>2, ThreadTyped DEF RunAt
<1>4. r \in Thread
  BY <1>1, <1>2, <1>3 DEF TookRun, Thread
<1>5. q.outbox = <<>>
  BY <1>3, Zenon DEF Orderly, ThreadOK
<1>6. ASSUME NEW i \in Nat PROVE ~ RunAt(r, i)
  <2>1. ASSUME RunAt(r, i) PROVE FALSE
    <3>1. i + 1 \in Nat /\ RunAt(q, i + 1)
      BY <1>1, <2>1, Unqueue
    <3>2. i + 1 = 1
      BY <3>1, <1>3, Zenon DEF Orderly, ThreadOK
    <3>3. i = 0 /\ 0 \in DOMAIN r.inbox
      BY <3>2, <2>1 DEF RunAt
    <3> QED
      BY <3>3, <1>4, ThreadTyped
  <2> QED
    BY <2>1
<1>7. Orderly(r)
  <2>1. Len(r.outbox) <= 1
    BY <1>1, Zenon DEF Orderly, ThreadOK
  <2> QED
    BY <1>1, <1>5, <1>6, <2>1, Zenon DEF Orderly
<1>8. ASSUME NEW i \in Nat, CancelAt(r, i)
      PROVE  q.inbox[1].run \in w
  <2>1. i + 1 \in Nat /\ 1 < i + 1 /\ CancelAt(q, i + 1)
    BY <1>1, <1>8, Unqueue
  <2> QED
    BY <1>3, <2>1, Zenon DEF StopsWanted, ThreadOK
<1>9. StopsWanted(r, w)
  BY <1>1, <1>2, <1>6, <1>8, Zenon DEF StopsWanted
<1>10. ReportsTrue(r, e)
  BY <1>1, Zenon DEF ReportsTrue, ThreadOK
<1>11. Has(q, q.inbox[1].run)
  BY <1>3, Zenon DEF Has
<1>12. \A n \in Runs : Has(r, n) => Has(q, n)
  BY <1>1, <1>2, <1>6, <1>11, Zenon DEF Has
<1> QED
  BY <1>2, <1>3, <1>4, <1>7, <1>9, <1>10, <1>11, <1>12 DEF ThreadOK

\* The last message of the run at work.
LEMMA SendMessage ==
    ASSUME NEW q \in Thread, NEW w, NEW e, ThreadOK(q, w, e), NEW f,
           q.executing # Nothing, NEW type \in FinalMessages,
           f[q.executing] = type
    PROVE  /\ Reported(q, type) \in Thread
           /\ ThreadOK(Reported(q, type), w, f)
           /\ \A n \in Runs : Has(Reported(q, type), n) => Has(q, n)
<1> DEFINE r == Reported(q, type)
           m == [type |-> type, run |-> q.executing]
<1>1. q.executing \in Runs /\ q.outbox = <<>>
  BY ThreadTyped DEF ThreadOK, Orderly
<1>2. m \in Messages /\ m.type = type /\ m.run = q.executing
  BY <1>1 DEF Messages
<1>3. r.outbox = Append(<<>>, m) /\ r.inbox = q.inbox /\ r.executing = Nothing
      /\ r.cancelled = q.cancelled
  BY <1>1 DEF Reported, Thread
<1>4. r.outbox \in Seq(Messages) /\ Len(r.outbox) = 1 /\ DOMAIN r.outbox = 1 .. 1
      /\ r.outbox[1] = m
  <2>1. <<>> \in Seq(Messages) /\ Len(<<>>) = 0
    BY EmptySeq, Zenon
  <2> HIDE DEF m
  <2>2. /\ Append(<<>>, m) \in Seq(Messages) /\ Len(Append(<<>>, m)) = 1
        /\ Append(<<>>, m)[1] = m
    BY <1>2, <2>1, AppendProperties
  <2> QED
    BY <1>3, <2>2, LenProperties
<1>5. r \in Thread
  BY <1>3, <1>4 DEF Reported, Thread
<1>6. ASSUME NEW i \in Nat PROVE ~ RunAt(q, i) /\ ~ RunAt(r, i)
  <2>1. ~ RunAt(q, i)
    BY Zenon DEF Orderly, ThreadOK
  <2> QED
    BY <1>3, <2>1, Zenon DEF RunAt
<1>7. Orderly(r)
  BY <1>3, <1>4, <1>6 DEF Orderly
<1>8. StopsWanted(r, w)
  BY <1>3, <1>6, Zenon DEF StopsWanted
<1>9. \A i \in DOMAIN r.outbox : i = 1
  BY <1>4
<1>10. f[q.executing] = type
  BY <1>1
<1>11. ReportsTrue(r, f)
  BY <1>2, <1>4, <1>9, <1>10, Zenon DEF ReportsTrue
<1>12. ASSUME NEW n \in Runs, Has(r, n) PROVE Has(q, n)
  <2>1. r.executing # n
    BY <1>3, NoRunIsNothing
  <2>2. n = q.executing
    BY <1>2, <1>4, <1>6, <1>9, <1>12, <2>1, Zenon DEF Has
  <2> QED
    BY <2>2, Zenon DEF Has
<1> QED
  BY <1>5, <1>7, <1>8, <1>11, <1>12 DEF ThreadOK

\* The first message is read; there is no other.
LEMMA ReadMessage ==
    ASSUME NEW q \in Thread, NEW w, NEW e, ThreadOK(q, w, e), q.outbox # <<>>
    PROVE  /\ Heard(q) \in Thread
           /\ ThreadOK(Heard(q), w, e)
           /\ \A n \in Runs : ~ Has(Heard(q), n)
           /\ Head(q.outbox) \in Messages
           /\ Has(q, Head(q.outbox).run)
           /\ e[Head(q.outbox).run] = Head(q.outbox).type
<1> DEFINE r == Heard(q)
<1>1. Len(q.outbox) = 1 /\ q.outbox \in Seq(Messages) /\ DOMAIN q.outbox = 1 .. 1
  <2>1. Len(q.outbox) \in Nat /\ Len(q.outbox) # 0 /\ DOMAIN q.outbox = 1 .. Len(q.outbox)
        /\ q.outbox \in Seq(Messages)
    BY ThreadTyped, EmptySeq
  <2>2. Len(q.outbox) <= 1
    BY Zenon DEF ThreadOK, Orderly
  <2>3. \A k \in Nat : k # 0 /\ k <= 1 => k = 1
    OBVIOUS
  <2>4. Len(q.outbox) = 1
    BY <2>1, <2>2, <2>3, Zenon
  <2> QED
    BY <2>1, <2>4, Zenon
<1>2. Head(q.outbox) \in Messages /\ Head(q.outbox) = q.outbox[1] /\ 1 \in DOMAIN q.outbox
  BY <1>1, HeadTailProperties
<1>3. Tail(q.outbox) \in Seq(Messages) /\ Len(Tail(q.outbox)) = 0
  BY <1>1, HeadTailProperties
<1>4. Tail(q.outbox) = <<>>
  BY <1>3, EmptySeq
<1>5. r.outbox = <<>> /\ r.inbox = q.inbox /\ r.executing = q.executing /\ r.cancelled = q.cancelled
      /\ r \in Thread
  BY <1>3, <1>4 DEF Heard, Thread
<1>6. q.executing = Nothing
  BY Zenon DEF ThreadOK, Orderly
<1>7. ASSUME NEW i \in Nat PROVE ~ RunAt(r, i)
  <2>1. ~ RunAt(q, i)
    BY Zenon DEF ThreadOK, Orderly
  <2> QED
    BY <1>5, <2>1, Zenon DEF RunAt
<1>8. Len(r.outbox) <= 1 /\ \A i \in DOMAIN r.outbox : FALSE
  <2>1. Len(r.outbox) = 0 /\ DOMAIN r.outbox = 1 .. 0
    BY <1>3, <1>4, <1>5, LenProperties
  <2> QED
    BY <2>1
<1>9. Orderly(r) /\ StopsWanted(r, w) /\ ReportsTrue(r, e)
  BY <1>5, <1>6, <1>7, <1>8, Zenon DEF Orderly, StopsWanted, ReportsTrue
<1>10. ASSUME NEW n \in Runs PROVE ~ Has(r, n)
  <2>1. r.executing # n
    BY <1>5, <1>6, NoRunIsNothing
  <2> QED
    BY <1>7, <1>8, <2>1, Zenon DEF Has
<1>11. Has(q, Head(q.outbox).run) /\ e[Head(q.outbox).run] = Head(q.outbox).type
  BY <1>2, Zenon DEF Has, ThreadOK, ReportsTrue
<1> QED
  BY <1>2, <1>5, <1>9, <1>10, <1>11 DEF ThreadOK

\* A thread that stops loses what it has not reported.
LEMMA Stopped ==
    ASSUME NEW q \in Thread, NEW w, NEW e, ThreadOK(q, w, e)
    PROVE  /\ Halted(q) \in Thread
           /\ ThreadOK(Halted(q), w, e)
           /\ \A n \in Runs : Has(Halted(q), n) => Has(q, n)
<1> DEFINE r == Halted(q)
<1>1. /\ r.outbox = q.outbox /\ r.inbox = <<>> /\ r.executing = Nothing /\ r \in Thread
  BY EmptySeq DEF Halted, Thread
<1>2. \A i \in Nat : ~ RunAt(r, i) /\ ~ CancelAt(r, i)
  BY <1>1 DEF RunAt, CancelAt
<1>3. ThreadOK(r, w, e)
  BY <1>1, <1>2 DEF ThreadOK, Orderly, StopsWanted, ReportsTrue
<1>4. \A n \in Runs : Has(r, n) => Has(q, n)
  BY <1>1, <1>2, NoRunIsNothing DEF Has
<1> QED
  BY <1>1, <1>3, <1>4

\* Only its state and its doom have changed.
LEMMA SameWork ==
    ASSUME NEW q \in Thread, NEW w, NEW e, ThreadOK(q, w, e), NEW r \in Thread,
           r.inbox = q.inbox, r.outbox = q.outbox,
           r.executing = q.executing, r.cancelled = q.cancelled
    PROVE  ThreadOK(r, w, e) /\ \A n \in Runs : Has(r, n) <=> Has(q, n)
  BY DEF ThreadOK, Orderly, StopsWanted, ReportsTrue, Has, RunAt, CancelAt

\* What becomes of runs the thread does not have does not matter to it.
LEMMA OtherRuns ==
    ASSUME NEW q \in Thread, NEW w, NEW e, ThreadOK(q, w, e), NEW v, NEW f,
           w \subseteq v,
           \A n \in Runs : Has(q, n) => f[n] = e[n]
    PROVE  ThreadOK(q, v, f)
<1>1. StopsWanted(q, v)
  BY ThreadTyped DEF ThreadOK, StopsWanted
<1>2. ReportsTrue(q, f)
  BY ThreadTyped DEF ThreadOK, ReportsTrue, Has
<1> QED
  BY <1>1, <1>2 DEF ThreadOK

-----------------------------------------------------------------------------
(* The first free place, the first unused thread, and how many are left.   *)

LEMMA FirstOne ==
    ASSUME NEW A, A \subseteq Nat, A # {}
    PROVE  Min(A) \in A
<1>1. PICK x \in A : \A y \in A : ~ (<<y, x>> \in OpToRel(<, Nat))
  BY WFMin, NatLessThanWellFounded
<1>2. ASSUME NEW y \in A
      PROVE  x =< y
  <2>1. x \in Nat /\ y \in Nat
    OBVIOUS
  <2>2. y < x => <<y, x>> \in OpToRel(<, Nat)
    BY <2>1, Zenon DEF OpToRel
  <2>3. ~ (y < x)
    BY <1>1, <2>2, Zenon
  <2> QED
    BY <2>1, <2>3
<1> QED
  BY <1>2, Zenon DEF Min

LEMMA FewerThreads ==
    ASSUME NEW S, NEW T, S \subseteq Threads, T \subseteq S
    PROVE  /\ IsFiniteSet(S) /\ IsFiniteSet(T)
           /\ Cardinality(S) \in Nat /\ Cardinality(T) \in Nat
           /\ Cardinality(T) <= Cardinality(S)
           /\ S = {} => Cardinality(S) = 0
<1>1. IsFiniteSet(S) /\ IsFiniteSet(T)
  BY FiniteAssumption, FS_Subset
<1> QED
  BY <1>1, FS_Subset, FS_CardinalityType, FS_EmptySet

\* Nothing more is to be replaced than before.
LEMMA EnoughLeft ==
    ASSUME NEW U, NEW F, NEW L, NEW G, NEW M,
           U \subseteq Threads, F \subseteq Threads, L \subseteq Threads,
           Cardinality(U) >= Cardinality(F) + Cardinality(L),
           G \subseteq F, M \subseteq L
    PROVE  Cardinality(U) >= Cardinality(G) + Cardinality(M)
<1>1. /\ Cardinality(G) <= Cardinality(F) /\ Cardinality(G) \in Nat /\ Cardinality(F) \in Nat
      /\ Cardinality(M) <= Cardinality(L) /\ Cardinality(M) \in Nat /\ Cardinality(L) \in Nat
      /\ Cardinality(U) \in Nat
  BY FewerThreads
<1> QED
  BY <1>1

\* One more is to be replaced, and there was one to spare.
LEMMA EnoughReserved ==
    ASSUME NEW U, NEW F, NEW L, NEW G, NEW M, NEW h \in Threads,
           U \subseteq Threads, F \subseteq Threads, L \subseteq Threads,
           Cardinality(U) > Cardinality(F) + Cardinality(L),
           \/ G \subseteq F \cup {h} /\ M \subseteq L
           \/ G \subseteq F /\ M \subseteq L \cup {h}
    PROVE  Cardinality(U) >= Cardinality(G) + Cardinality(M)
<1>1. /\ Cardinality(F) \in Nat /\ Cardinality(L) \in Nat /\ Cardinality(U) \in Nat
      /\ IsFiniteSet(F) /\ IsFiniteSet(L)
  BY FewerThreads
<1>2. /\ F \cup {h} \subseteq Threads /\ L \cup {h} \subseteq Threads
      /\ Cardinality(F \cup {h}) <= Cardinality(F) + 1
      /\ Cardinality(L \cup {h}) <= Cardinality(L) + 1
  <2>1. Cardinality(F \cup {h}) = IF h \in F THEN Cardinality(F) ELSE Cardinality(F) + 1
    BY <1>1, FS_AddElement, Zenon
  <2>2. Cardinality(L \cup {h}) = IF h \in L THEN Cardinality(L) ELSE Cardinality(L) + 1
    BY <1>1, FS_AddElement, Zenon
  <2> QED
    BY <1>1, <2>1, <2>2
<1>3. CASE G \subseteq F \cup {h} /\ M \subseteq L
  <2>1. /\ Cardinality(G) <= Cardinality(F \cup {h}) /\ Cardinality(G) \in Nat
        /\ Cardinality(M) <= Cardinality(L) /\ Cardinality(M) \in Nat
        /\ Cardinality(F \cup {h}) \in Nat
    BY <1>2, <1>3, FewerThreads
  <2> QED
    BY <1>1, <1>2, <2>1
<1>4. CASE G \subseteq F /\ M \subseteq L \cup {h}
  <2>1. /\ Cardinality(M) <= Cardinality(L \cup {h}) /\ Cardinality(G) \in Nat
        /\ Cardinality(G) <= Cardinality(F) /\ Cardinality(M) \in Nat
        /\ Cardinality(L \cup {h}) \in Nat
    BY <1>2, <1>4, FewerThreads
  <2> QED
    BY <1>1, <1>2, <2>1
<1> QED
  BY <1>3, <1>4

\* There is a thread to take the place of one that is to be replaced.
LEMMA EnoughForOne ==
    ASSUME NEW U, NEW F, NEW L, NEW h,
           U \subseteq Threads, F \subseteq Threads, L \subseteq Threads,
           Cardinality(U) >= Cardinality(F) + Cardinality(L),
           h \in F \/ h \in L
    PROVE  U # {}
<1>1. /\ Cardinality(F) \in Nat /\ Cardinality(L) \in Nat /\ Cardinality(U) \in Nat
      /\ IsFiniteSet(F) /\ IsFiniteSet(L)
      /\ U = {} => Cardinality(U) = 0
  BY FewerThreads
<1>2. (h \in F => Cardinality(F) # 0) /\ (h \in L => Cardinality(L) # 0)
  BY <1>1, FS_EmptySet
<1> QED
  BY <1>1, <1>2

\* When it is replaced, the others have theirs.
LEMMA EnoughTaken ==
    ASSUME NEW U, NEW F, NEW L, NEW h, NEW g \in U, NEW G, NEW M,
           U \subseteq Threads, F \subseteq Threads, L \subseteq Threads,
           Cardinality(U) >= Cardinality(F) + Cardinality(L),
           G \subseteq F, M \subseteq L,
           \/ h \in F /\ h \notin G
           \/ h \in L /\ h \notin M
    PROVE  Cardinality(U \ {g}) >= Cardinality(G) + Cardinality(M)
<1>1. /\ Cardinality(F) \in Nat /\ Cardinality(L) \in Nat /\ Cardinality(U) \in Nat
      /\ IsFiniteSet(F) /\ IsFiniteSet(L) /\ IsFiniteSet(U)
  BY FewerThreads
<1>2. Cardinality(U \ {g}) = Cardinality(U) - 1
  BY <1>1, FS_RemoveElement
<1>3. /\ Cardinality(G) <= Cardinality(F) /\ Cardinality(G) \in Nat
      /\ Cardinality(M) <= Cardinality(L) /\ Cardinality(M) \in Nat
  BY FewerThreads
<1>4. CASE h \in F /\ h \notin G
  <2>1. G \subseteq F \ {h} /\ F \ {h} \subseteq Threads
        /\ Cardinality(F \ {h}) = Cardinality(F) - 1
    BY <1>1, <1>4, FS_RemoveElement
  <2>2. Cardinality(G) <= Cardinality(F \ {h})
    BY <2>1, FewerThreads
  <2> QED
    BY <1>1, <1>2, <1>3, <2>1, <2>2
<1>5. CASE h \in L /\ h \notin M
  <2>1. M \subseteq L \ {h} /\ L \ {h} \subseteq Threads
        /\ Cardinality(L \ {h}) = Cardinality(L) - 1
    BY <1>1, <1>5, FS_RemoveElement
  <2>2. Cardinality(M) <= Cardinality(L \ {h})
    BY <2>1, FewerThreads
  <2> QED
    BY <1>1, <1>2, <1>3, <2>1, <2>2
<1> QED
  BY <1>4, <1>5

-----------------------------------------------------------------------------
(* What a thread does by itself, and what is done to it alone.             *)

LEMMA Typed ==
    ASSUME TypeOK
    PROVE  /\ thread \in [Threads -> Thread] /\ slot \in [Threads -> Slot]
           /\ slots \in [Positions -> Threads] /\ Wanted \subseteq Runs
           /\ \A h \in Threads : thread[h] \in Thread /\ slot[h] \in Slot
           /\ \A h \in Threads : Busy(h) => slot[h].task \in Runs
           /\ \A h \in Threads : InArray(h) => \E p \in Positions : slots[p] = h
           /\ Unused \subseteq Threads /\ Failing \subseteq Threads /\ Leaving \subseteq Threads
  BY DEF TypeOK, RunnerTypeOK, Slot, Busy, InArray, Wanted, Unused, Failing, Leaving

LEMMA ThreadMoves ==
    ASSUME PoolInv, NEW h \in Threads, NEW r \in Thread, Become(h, r),
           UNCHANGED <<poolVars, wanted>>,
           ended' \in [Runs -> FinalMessages \cup {"nothing"}],
           thread[h].state # "none", r.state # "none",
           ~ shuttingDown /\ InArray(h) => r.state \in {"up", "down"},
           r.state = "down" => r.doomed,
           r.doomed => shuttingDown \/ InArray(h) \/ slot[h].terminating \/ slot[h].fault,
           ThreadOK(r, Wanted, ended'),
           \A n \in Runs : Has(r, n) => Has(thread[h], n),
           \A n \in Runs : ended'[n] # ended[n] =>
             Has(thread[h], n) /\ (ended'[n] = "cancelled" => wanted[n]),
           Enough'
    PROVE  PoolInv'
<1>1. TypeOK /\ OwnRuns /\ OneThread /\ Timers /\ OneSlot /\ Started /\ StartedInSlot
      /\ HeardWanted /\ Places /\ PoolKeepsSize /\ Dooms /\ OutcomeIsOwn
      /\ \A g \in Threads : ThreadOK(thread[g], Wanted, ended)
  BY DEF PoolInv
<1>2. /\ thread' \in [Threads -> Thread] /\ thread'[h] = r
      /\ \A g \in Threads : g # h => thread'[g] = thread[g]
  BY <1>1, Typed DEF Become
<1>3. /\ slots' = slots /\ slot' = slot /\ shuttingDown' = shuttingDown
      /\ outcome' = outcome /\ wanted' = wanted
  BY DEF poolVars
<1>4. /\ \A g \in Threads : (InArray(g)' <=> InArray(g)) /\ (Busy(g)' <=> Busy(g))
      /\ Wanted' = Wanted
  BY <1>3 DEF InArray, Busy, Wanted
<1>5. \A g \in Threads, n \in Runs : Has(thread'[g], n) => Has(thread[g], n)
  BY <1>2, Zenon
<1>6. TypeOK'
  BY <1>1, <1>2, <1>3 DEF TypeOK, RunnerTypeOK
<1>7. \A g \in Threads : ThreadOK(thread'[g], Wanted', ended')
  <2>1. ASSUME NEW g \in Threads, g # h
        PROVE  ThreadOK(thread[g], Wanted, ended')
    <3>1. \A n \in Runs : Has(thread[g], n) => ended'[n] = ended[n]
      BY <1>1, <2>1, Zenon DEF OneThread
    <3>2. thread[g] \in Thread
      BY <1>1, Typed
    <3> QED
      BY <1>1, <3>1, <3>2, OtherRuns
  <2> QED
    BY <1>2, <1>4, <2>1, Zenon
<1>8. OwnRuns'
  BY <1>1, <1>3, <1>4, <1>5, Zenon DEF OwnRuns
<1>9. OneThread'
  BY <1>1, <1>3, <1>5, Zenon DEF OneThread
<1>10. Timers' /\ OneSlot' /\ Started' /\ StartedInSlot'
  BY <1>1, <1>3, <1>4 DEF Timers, OneSlot, Started, StartedInSlot
<1>11. HeardWanted'
  BY <1>1, <1>3, Zenon DEF HeardWanted
<1>12. Places'
  BY <1>1, <1>2, <1>3, <1>4, Zenon DEF Places
<1>13. PoolKeepsSize'
  <2>1. ASSUME NEW p \in Positions, ~ shuttingDown
        PROVE  thread'[slots[p]].state \in {"up", "down"}
    <3>1. slots[p] \in Threads /\ InArray(slots[p])
      BY <1>1, Typed DEF InArray
    <3>2. thread[slots[p]].state \in {"up", "down"}
      BY <1>1, <2>1, Zenon DEF PoolKeepsSize
    <3> QED
      BY <1>2, <2>1, <3>1, <3>2
  <2> QED
    BY <1>1, <1>3, <2>1, Zenon DEF PoolKeepsSize
<1>14. Dooms'
  BY <1>1, <1>2, <1>3, <1>4, Zenon DEF Dooms
<1>15. OutcomeIsOwn'
  <2>1. ASSUME NEW n \in Runs, outcome[n] \in {"completed", "failed", "fatal"}
        PROVE  ended'[n] = ended[n]
    BY <1>1, <2>1 DEF OneThread
  <2> QED
    BY <1>1, <1>3, <2>1 DEF OutcomeIsOwn
<1> QED
  BY <1>6, <1>7, <1>8, <1>9, <1>10, <1>11, <1>12, <1>13, <1>14, <1>15 DEF PoolInv

LEMMA EnoughAsBefore ==
    ASSUME PoolInv, NEW h \in Threads, NEW r \in Thread, Become(h, r),
           UNCHANGED <<poolVars, wanted>>, thread[h].state # "none", r.state # "none",
           r.doomed => thread[h].doomed
    PROVE  Enough'
<1>1. TypeOK /\ Enough
  BY DEF PoolInv
<1>2. /\ thread'[h] = r /\ \A g \in Threads : g # h => thread'[g] = thread[g]
  BY <1>1, Typed DEF Become
<1>3. slots' = slots /\ slot' = slot /\ shuttingDown' = shuttingDown
  BY DEF poolVars
<1>4. \A g \in Threads : InArray(g)' <=> InArray(g)
  BY <1>3 DEF InArray
<1>5. Unused' = Unused
  BY <1>2 DEF Unused
<1>6. Failing' \subseteq Failing /\ Leaving' \subseteq Leaving
  BY <1>2, <1>3, <1>4 DEF Failing, Leaving
<1>7. Unused \subseteq Threads /\ Failing \subseteq Threads /\ Leaving \subseteq Threads
  BY <1>1, Typed
<1> QED
  BY <1>1, <1>3, <1>5, <1>6, <1>7, EnoughLeft DEF Enough

LEMMA ReceiveCancelKeeps ==
    ASSUME PoolInv, NEW h \in Threads, ReceiveCancel(h), UNCHANGED <<poolVars, wanted>>
    PROVE  PoolInv'
<1> DEFINE q == thread[h]
           r == TookCancel(q)
<1>1. /\ q \in Thread /\ ThreadOK(q, Wanted, ended)
      /\ ended \in [Runs -> FinalMessages \cup {"nothing"}]
  BY Typed DEF PoolInv, TypeOK, RunnerTypeOK
<1>2. /\ q.state = "up" /\ q.inbox # <<>> /\ Head(q.inbox).type = "cancel"
      /\ ended' = ended
  BY DEF ReceiveCancel, Up
<1>3. Become(h, r)
  BY <1>1 DEF ReceiveCancel, Unread, Thread, TookCancel
<1>4. r.state = q.state /\ r.doomed = q.doomed
  BY <1>1 DEF Thread, TookCancel
<1>5. r \in Thread /\ ThreadOK(r, Wanted, ended) /\ \A n \in Runs : Has(r, n) => Has(q, n)
  BY <1>1, <1>2, ReadCancel
<1>6. q.doomed => shuttingDown \/ InArray(h) \/ slot[h].terminating \/ slot[h].fault
  BY DEF PoolInv, Dooms
<1>7. Enough'
  BY <1>2, <1>3, <1>4, <1>5, EnoughAsBefore
<1> QED
  BY <1>1, <1>2, <1>3, <1>4, <1>5, <1>6, <1>7, ThreadMoves

\* The thread q, which is h or what it has become, reports its run.
LEMMA FinishKeeps ==
    ASSUME PoolInv, NEW h \in Threads, UNCHANGED <<poolVars, wanted>>, Up(h),
           NEW q \in Thread, ThreadOK(q, Wanted, ended),
           q.state = "up", q.doomed = thread[h].doomed, q.executing # Nothing,
           \A n \in Runs : Has(q, n) => Has(thread[h], n),
           NEW type \in FinalMessages, type = "cancelled" => q.cancelled,
           Become(h, Reported(q, type)), ended' = [ended EXCEPT ![q.executing] = type]
    PROVE  PoolInv'
<1> DEFINE r == Reported(q, type)
<1>1. /\ thread[h] \in Thread /\ q.executing \in Runs
      /\ ended \in [Runs -> FinalMessages \cup {"nothing"}]
  BY Typed, ThreadTyped DEF PoolInv, TypeOK, RunnerTypeOK
<1>2. ended' \in [Runs -> FinalMessages \cup {"nothing"}] /\ ended'[q.executing] = type
  BY <1>1
<1>3. r \in Thread /\ ThreadOK(r, Wanted, ended') /\ \A n \in Runs : Has(r, n) => Has(q, n)
  BY <1>1, <1>2, SendMessage
<1>4. r.state = "up" /\ r.doomed = thread[h].doomed
  BY DEF Thread, Reported
<1>5. Has(q, q.executing)
  BY DEF Has
<1>6. type = "cancelled" => wanted[q.executing]
  BY <1>1, Zenon DEF ThreadOK, StopsWanted, Wanted
<1>7. \A n \in Runs : ended'[n] # ended[n] => n = q.executing /\ ended'[n] = type
  BY <1>1
<1>8. \A n \in Runs : ended'[n] # ended[n] =>
        Has(thread[h], n) /\ (ended'[n] = "cancelled" => wanted[n])
  BY <1>1, <1>5, <1>6, <1>7, Zenon
<1>9. r.doomed => shuttingDown \/ InArray(h) \/ slot[h].terminating \/ slot[h].fault
  BY <1>4 DEF PoolInv, Dooms
<1>10. thread[h].state = "up"
  BY DEF Up
<1>11. Enough'
  BY <1>3, <1>4, <1>10, EnoughAsBefore
<1>12. \A n \in Runs : Has(r, n) => Has(thread[h], n)
  BY <1>3, Zenon
<1> QED
  BY <1>2, <1>3, <1>4, <1>8, <1>9, <1>10, <1>11, <1>12, ThreadMoves

LEMMA ExecuteKeeps ==
    ASSUME PoolInv, NEW h \in Threads, Execute(h), UNCHANGED <<poolVars, wanted>>
    PROVE  PoolInv'
<1> DEFINE q == thread[h]
           n == Head(q.inbox).run
           r == TookRun(q)
<1>1. /\ q \in Thread /\ ThreadOK(q, Wanted, ended)
      /\ ended \in [Runs -> FinalMessages \cup {"nothing"}]
  BY Typed DEF PoolInv, TypeOK, RunnerTypeOK
<1>2. /\ q.state = "up" /\ q.inbox # <<>> /\ Head(q.inbox).type = "run"
      /\ Up(h)
  BY DEF Execute, Up
<1>3. /\ r \in Thread /\ ThreadOK(r, Wanted, ended) /\ \A m \in Runs : Has(r, m) => Has(q, m)
      /\ n \in Runs
  BY <1>1, <1>2, ReadRun
<1>4. r.state = q.state /\ r.doomed = q.doomed /\ r.executing = n /\ r.executing # Nothing
  BY <1>1, <1>3, NoRunIsNothing DEF Thread, TookRun
<1>5. CASE Become(h, r) /\ ended' = ended
  <2>1. q.doomed => shuttingDown \/ InArray(h) \/ slot[h].terminating \/ slot[h].fault
    BY DEF PoolInv, Dooms
  <2>2. Enough'
    BY <1>2, <1>3, <1>4, <1>5, EnoughAsBefore
  <2> QED
    BY <1>1, <1>2, <1>3, <1>4, <1>5, <2>1, <2>2, ThreadMoves
<1>6. CASE ended' = [ended EXCEPT ![n] = "fatal"] /\ Become(h, Reported(r, "fatal"))
  <2>1. "fatal" \in FinalMessages
    BY DEF FinalMessages
  <2>2. r.state = "up" /\ ended' = [ended EXCEPT ![r.executing] = "fatal"]
    BY <1>2, <1>4, <1>6
  <2> QED
    BY <1>2, <1>3, <1>4, <1>6, <2>1, <2>2, FinishKeeps
<1>7. \/ Become(h, r) /\ ended' = ended
      \/ ended' = [ended EXCEPT ![n] = "fatal"] /\ Become(h, Reported(r, "fatal"))
  BY <1>1 DEF Execute, Finish, Post, Unread, Thread, TookRun, Reported
<1> QED
  BY <1>5, <1>6, <1>7

LEMMA ReportKeeps ==
    ASSUME PoolInv, NEW h \in Threads, UNCHANGED <<poolVars, wanted>>,
           StopAtTick(h) \/ LastTick(h)
    PROVE  PoolInv'
<1> DEFINE q == thread[h]
<1>1. q \in Thread /\ ThreadOK(q, Wanted, ended)
  BY Typed DEF PoolInv
<1>2. q.state = "up" /\ Up(h) /\ q.executing # Nothing
  BY DEF StopAtTick, LastTick, Up
<1>3. PICK type \in FinalMessages : /\ type = "cancelled" => q.cancelled
                                    /\ Finish(h, q, type, q.executing)
  BY DEF StopAtTick, LastTick, FinalMessages
<1>4. Become(h, Reported(q, type)) /\ ended' = [ended EXCEPT ![q.executing] = type]
  BY <1>1, <1>3 DEF Finish, Post, Reported, Thread
<1> QED
  BY <1>1, <1>2, <1>3, <1>4, FinishKeeps

LEMMA StopKeeps ==
    ASSUME PoolInv, NEW h \in Threads, Stop(h), UNCHANGED <<poolVars, wanted>>
    PROVE  PoolInv'
<1> DEFINE q == thread[h]
           r == Halted(q)
<1>1. /\ q \in Thread /\ ThreadOK(q, Wanted, ended)
      /\ ended \in [Runs -> FinalMessages \cup {"nothing"}]
  BY Typed DEF PoolInv, TypeOK, RunnerTypeOK
<1>2. q.state = "up" /\ q.doomed /\ ended' = ended /\ Become(h, r)
  BY DEF Stop, Up, Halted
<1>3. r \in Thread /\ ThreadOK(r, Wanted, ended) /\ \A n \in Runs : Has(r, n) => Has(q, n)
  BY <1>1, Stopped
<1>4. r.state = "down" /\ r.doomed
  BY <1>1, <1>2 DEF Thread, Halted
<1>5. q.doomed => shuttingDown \/ InArray(h) \/ slot[h].terminating \/ slot[h].fault
  BY DEF PoolInv, Dooms
<1>6. Enough'
  BY <1>2, <1>3, <1>4, EnoughAsBefore
<1> QED
  BY <1>1, <1>2, <1>3, <1>4, <1>5, <1>6, ThreadMoves

\* The exit event of a thread that has no place.
LEMMA OnExitExpectedKeeps ==
    ASSUME PoolInv, NEW h \in Threads, OnExitExpected(h)
    PROVE  PoolInv'
<1> DEFINE r == GoneThread
<1>1. /\ ended \in [Runs -> FinalMessages \cup {"nothing"}]
      /\ PoolKeepsSize /\ TypeOK
  BY DEF PoolInv, TypeOK, RunnerTypeOK
<1>2. /\ thread[h].state = "down" /\ Become(h, r) /\ ended' = ended
      /\ shuttingDown \/ slot[h].terminating
      /\ UNCHANGED <<poolVars, wanted>>
  BY DEF OnExitExpected
<1>3. ~ shuttingDown => ~ InArray(h)
  BY <1>1, <1>2, Zenon DEF PoolKeepsSize, InArray
<1>4. r \in Thread /\ ThreadOK(r, Wanted, ended) /\ \A n \in Runs : ~ Has(r, n)
  BY BlankThreads, Blank
<1>5. r.state = "gone" /\ r.doomed = FALSE
  BY DEF GoneThread, NoThread
<1>6. Enough'
  BY <1>2, <1>4, <1>5, EnoughAsBefore
<1> QED
  BY <1>1, <1>2, <1>3, <1>4, <1>5, <1>6, ThreadMoves

\* A thread that is at work is terminated.
LEMMA KillBusyKeeps ==
    ASSUME PoolInv, NEW h \in Threads, KillBusy(h)
    PROVE  PoolInv'
<1> DEFINE q == thread[h]
           r == [q EXCEPT !.doomed = TRUE]
<1>1. /\ q \in Thread /\ ThreadOK(q, Wanted, ended) /\ TypeOK
      /\ ended \in [Runs -> FinalMessages \cup {"nothing"}]
  BY Typed DEF PoolInv, TypeOK, RunnerTypeOK
<1>2. /\ q.state = "up" /\ InArray(h) /\ Become(h, r) /\ ended' = ended
      /\ UNCHANGED <<poolVars, wanted>> /\ Spare
  BY DEF KillBusy, Up
<1>3. /\ r \in Thread /\ r.state = "up" /\ r.inbox = q.inbox /\ r.outbox = q.outbox
      /\ r.executing = q.executing /\ r.cancelled = q.cancelled
  BY <1>1, <1>2 DEF Thread
<1>4. ThreadOK(r, Wanted, ended) /\ \A n \in Runs : Has(r, n) => Has(q, n)
  <2> HIDE DEF r
  <2> QED
    BY <1>1, <1>3, SameWork
<1>5. Enough'
  <2>1. /\ thread'[h] = r /\ \A g \in Threads : g # h => thread'[g] = thread[g]
    BY <1>1, <1>2, Typed DEF Become
  <2>2. slots' = slots /\ slot' = slot
    BY <1>2 DEF poolVars
  <2>3. \A g \in Threads : InArray(g)' <=> InArray(g)
    BY <2>2 DEF InArray
  <2>4. Unused' = Unused
    BY <1>2, <1>3, <2>1 DEF Unused
  <2>5. Failing' \subseteq Failing /\ Leaving' \subseteq Leaving \cup {h}
    BY <2>1, <2>2, <2>3 DEF Failing, Leaving
  <2>6. Unused \subseteq Threads /\ Failing \subseteq Threads /\ Leaving \subseteq Threads
    BY <1>1, Typed
  <2>7. Cardinality(Unused) > Cardinality(Failing) + Cardinality(Leaving)
    BY <1>2 DEF Spare
  <2> QED
    BY <2>4, <2>5, <2>6, <2>7, EnoughReserved DEF Enough
<1> HIDE DEF r
<1> QED
  BY <1>1, <1>2, <1>3, <1>4, <1>5, ThreadMoves

\* A message that does not concern the task in the slot.
LEMMA IgnoredKeeps ==
    ASSUME PoolInv, NEW h \in Threads, thread[h].outbox # <<>>,
           Become(h, Read(h)), UNCHANGED <<ended, poolVars, wanted>>
    PROVE  PoolInv'
<1> DEFINE q == thread[h]
           r == Heard(q)
<1>1. /\ q \in Thread /\ ThreadOK(q, Wanted, ended) /\ TypeOK
      /\ ended \in [Runs -> FinalMessages \cup {"nothing"}]
      /\ Places /\ PoolKeepsSize /\ Dooms
  BY Typed DEF PoolInv, TypeOK, RunnerTypeOK
<1>2. Become(h, r) /\ ended' = ended /\ UNCHANGED <<poolVars, wanted>>
  BY DEF Read, Heard
<1>3. /\ r \in Thread /\ ThreadOK(r, Wanted, ended) /\ \A n \in Runs : ~ Has(r, n)
  BY <1>1, ReadMessage
<1>4. r.state = q.state /\ r.doomed = q.doomed
  BY <1>1 DEF Thread, Heard
<1>5. q.state # "none"
  BY <1>1 DEF Places, NoThread
<1>6. ~ shuttingDown /\ InArray(h) => q.state \in {"up", "down"}
  BY <1>1 DEF PoolKeepsSize, InArray
<1>7. /\ q.state = "down" => q.doomed
      /\ q.doomed => shuttingDown \/ InArray(h) \/ slot[h].terminating \/ slot[h].fault
  BY <1>1 DEF Dooms
<1>8. Enough'
  BY <1>2, <1>3, <1>4, <1>5, EnoughAsBefore
<1> QED
  BY <1>1, <1>2, <1>3, <1>4, <1>5, <1>6, <1>7, <1>8, ThreadMoves

-----------------------------------------------------------------------------
(* What changes a slot and its thread, but not the array.                  *)

LEMMA SlotMoves ==
    ASSUME PoolInv, NEW h \in Threads, NEW r \in Thread, NEW s \in Slot,
           Become(h, r), slot' = [slot EXCEPT ![h] = s], UNCHANGED <<ended, slots, shuttingDown>>,
           outcome' \in [Runs -> Outcomes \cup {"new", "running"}],
           wanted' \in [Runs -> BOOLEAN],
           thread[h].state # "none", r.state = thread[h].state,
           s.task # Nothing => InArray(h),
           ~ shuttingDown /\ InArray(h) => ~ s.terminating,
           r.state = "down" => r.doomed,
           r.doomed => shuttingDown \/ InArray(h) \/ s.terminating \/ s.fault
    PROVE  /\ TypeOK' /\ Places' /\ PoolKeepsSize' /\ Dooms'
           /\ thread'[h] = r /\ \A g \in Threads : g # h => thread'[g] = thread[g]
           /\ slot'[h] = s /\ \A g \in Threads : g # h => slot'[g] = slot[g]
           /\ \A g \in Threads : InArray(g)' <=> InArray(g)
           /\ Unused' = Unused
<1>1. TypeOK /\ Places /\ PoolKeepsSize /\ Dooms
  BY DEF PoolInv
<1>2. /\ thread' \in [Threads -> Thread] /\ thread'[h] = r
      /\ \A g \in Threads : g # h => thread'[g] = thread[g]
  BY <1>1, Typed DEF Become
<1>3. /\ slot' \in [Threads -> Slot] /\ slot'[h] = s
      /\ \A g \in Threads : g # h => slot'[g] = slot[g]
  BY <1>1, Typed
<1>4. \A g \in Threads : InArray(g)' <=> InArray(g)
  BY DEF InArray
<1>5. TypeOK'
  BY <1>1, <1>2, <1>3 DEF TypeOK, RunnerTypeOK
<1>6. Unused' = Unused
  BY <1>2 DEF Unused
<1>7. Places'
  <2>1. ASSUME NEW g \in Threads, Busy(g)'
        PROVE  InArray(g)'
    BY <1>1, <1>3, <1>4, <2>1, Zenon DEF Places, Busy
  <2>2. ASSUME NEW g \in Threads, thread'[g].state = "none"
        PROVE  thread'[g] = NoThread /\ slot'[g] = NewSlot /\ ~ InArray(g)'
    BY <1>1, <1>2, <1>3, <1>4, <2>2, Zenon DEF Places
  <2>3. \A p, q \in Positions : slots'[p] = slots'[q] => p = q
    BY <1>1, Zenon DEF Places
  <2> QED
    BY <2>1, <2>2, <2>3, Zenon DEF Places
<1>8. Dooms'
  BY <1>1, <1>2, <1>3, <1>4, Zenon DEF Dooms
<1>9. PoolKeepsSize'
  <2>1. ASSUME NEW p \in Positions, ~ shuttingDown
        PROVE  /\ thread'[slots[p]].state \in {"up", "down"}
               /\ ~ slot'[slots[p]].terminating
    <3>1. slots[p] \in Threads /\ InArray(slots[p])
      BY <1>1, Typed DEF InArray
    <3>2. thread[slots[p]].state \in {"up", "down"} /\ ~ slot[slots[p]].terminating
      BY <1>1, <2>1, Zenon DEF PoolKeepsSize
    <3> QED
      BY <1>2, <1>3, <2>1, <3>1, <3>2
  <2> QED
    BY <1>1, <2>1, Zenon DEF PoolKeepsSize
<1> QED
  BY <1>2, <1>3, <1>4, <1>5, <1>6, <1>7, <1>8, <1>9

\* The first free place takes the run.
LEMMA RunKeeps ==
    ASSUME PoolInv, NEW n \in Runs, Run(n)
    PROVE  PoolInv'
<1>1. TypeOK /\ OwnRuns /\ OneThread /\ Timers /\ OneSlot /\ Started /\ StartedInSlot
      /\ HeardWanted /\ Places /\ PoolKeepsSize /\ Dooms /\ Enough /\ OutcomeIsOwn
      /\ \A g \in Threads : ThreadOK(thread[g], Wanted, ended)
  BY DEF PoolInv
<1>2. /\ ~ shuttingDown /\ outcome[n] = "new" /\ FreePlaces # {}
      /\ outcome' = [outcome EXCEPT ![n] = "running"]
      /\ UNCHANGED <<ended, slots, shuttingDown, wanted>>
  BY DEF Run
<1>3. PICK h \in Threads :
        /\ InArray(h) /\ ~ Busy(h)
        /\ Become(h, Sent(h, [type |-> "run", run |-> n]))
        /\ slot' = [slot EXCEPT ![h].task = n, ![h].terminating = FALSE]
  <2>0. FreePlaces \subseteq Nat
    BY SizeAssumption DEF FreePlaces, Positions
  <2>1. Min(FreePlaces) \in FreePlaces
    BY <1>2, <2>0, FirstOne, Zenon
  <2>2. /\ slots[Min(FreePlaces)] \in Threads /\ InArray(slots[Min(FreePlaces)])
        /\ ~ Busy(slots[Min(FreePlaces)])
    BY <1>1, <2>1, Typed DEF FreePlaces, InArray
  <2> QED
    BY <2>2 DEF Run
<1> DEFINE q == thread[h]
           r == Sent(h, [type |-> "run", run |-> n])
           s == [slot[h] EXCEPT !.task = n, !.terminating = FALSE]
<1>4. q \in Thread /\ slot[h] \in Slot /\ ThreadOK(q, Wanted, ended)
  BY <1>1, <1>3, Typed
<1>5. \A m \in Runs : ~ Has(q, m)
  BY <1>1, <1>2, <1>3, Zenon DEF OwnRuns
<1>6. /\ r \in Thread /\ ThreadOK(r, Wanted, ended) /\ \A m \in Runs : Has(r, m) => m = n
      /\ r.state = q.state /\ r.doomed = q.doomed
  <2>1. CASE Up(h)
    <3>1. r = SentRun(q, n)
      BY <2>1, Zenon DEF Sent, SentRun
    <3>2. SentRun(q, n).state = q.state /\ SentRun(q, n).doomed = q.doomed
      BY <1>4 DEF SentRun, Thread
    <3> QED
      BY <1>4, <1>5, <3>1, <3>2, SendRun
  <2>2. CASE ~ Up(h)
    <3>1. r = q
      BY <2>2, Zenon DEF Sent
    <3> QED
      BY <1>4, <1>5, <3>1, Zenon
  <2> QED
    BY <2>1, <2>2
<1>7. /\ s \in Slot /\ s.task = n /\ s.timer = slot[h].timer /\ s.fault = slot[h].fault
      /\ s.terminating = FALSE /\ slot' = [slot EXCEPT ![h] = s]
  <2>1. /\ s \in Slot /\ s.task = n /\ s.timer = slot[h].timer /\ s.fault = slot[h].fault
        /\ s.terminating = FALSE
    BY <1>4 DEF Slot
  <2>2. slot' = [slot EXCEPT ![h] = s]
    BY <1>3, Typed, <1>1
  <2> QED
    BY <2>1, <2>2
<1>8. /\ q.state # "none" /\ (q.state = "down" => q.doomed) /\ n # Nothing
      /\ slot[h].timer = NoTask /\ ~ wanted[n]
  BY <1>1, <1>2, <1>3, NoRunIsNothing, Zenon DEF Places, Dooms, Timers, Started
<1>9. /\ outcome' \in [Runs -> Outcomes \cup {"new", "running"}] /\ outcome'[n] = "running"
      /\ \A m \in Runs : m # n => outcome'[m] = outcome[m]
      /\ wanted' \in [Runs -> BOOLEAN] /\ Wanted' = Wanted
  BY <1>1, <1>2 DEF TypeOK, Wanted
<1>10. Become(h, r)
  BY <1>3
<1> HIDE DEF s, r
<1>11. /\ TypeOK' /\ Places' /\ PoolKeepsSize' /\ Dooms'
       /\ thread'[h] = r /\ \A g \in Threads : g # h => thread'[g] = thread[g]
       /\ slot'[h] = s /\ \A g \in Threads : g # h => slot'[g] = slot[g]
       /\ \A g \in Threads : InArray(g)' <=> InArray(g)
       /\ Unused' = Unused
  BY <1>2, <1>3, <1>6, <1>7, <1>8, <1>9, <1>10, SlotMoves
<1>12. \A g \in Threads : ThreadOK(thread'[g], Wanted', ended')
  BY <1>1, <1>2, <1>6, <1>9, <1>11, Zenon
<1>13. /\ slot'[h].task = n /\ Busy(h)' /\ slot'[h].timer = NoTask
       /\ \A g \in Threads : g # h => (Busy(g)' <=> Busy(g))
  BY <1>7, <1>8, <1>11 DEF Busy
<1>14. OwnRuns'
  <2>1. ASSUME NEW g \in Threads, NEW m \in Runs, Has(thread'[g], m)
        PROVE  (Busy(g)' => slot'[g].task = m) /\ (~ Busy(g)' => ~ InArray(g)')
    <3>1. CASE g = h
      <4>1. m = n
        BY <1>6, <1>11, <2>1, <3>1, Zenon
      <4> QED
        BY <1>13, <3>1, <4>1, Zenon
    <3>2. CASE g # h
      <4>1. /\ thread'[g] = thread[g] /\ slot'[g] = slot[g]
            /\ (InArray(g)' <=> InArray(g)) /\ (Busy(g)' <=> Busy(g))
        BY <1>11, <1>13, <3>2, Zenon
      <4>2. /\ Busy(g) => slot[g].task = m
            /\ ~ Busy(g) => ~ InArray(g)
        BY <1>1, <1>2, <2>1, <4>1, Zenon DEF OwnRuns
      <4> QED
        BY <4>1, <4>2, Zenon
    <3> QED
      BY <3>1, <3>2
  <2> QED
    BY <2>1, Zenon DEF OwnRuns
<1>15. OneThread'
  <2>1. ASSUME NEW m \in Runs, NEW g \in Threads, Has(thread'[g], m)
        PROVE  (g = h /\ m = n) \/ (g # h /\ m # n /\ Has(thread[g], m))
    <3>1. CASE g = h
      BY <1>6, <1>11, <2>1, <3>1, Zenon
    <3>2. CASE g # h
      BY <1>1, <1>2, <1>11, <2>1, <3>2, Zenon DEF OneThread
    <3> QED
      BY <3>1, <3>2
  <2>2. \A m \in Runs : outcome'[m] \in {"new", "completed", "failed", "fatal"} =>
          m # n /\ outcome[m] \in {"new", "completed", "failed", "fatal"}
    BY <1>9
  <2> QED
    BY <1>1, <2>1, <2>2, Zenon DEF OneThread
<1>16. Timers' /\ OneSlot' /\ Started' /\ StartedInSlot' /\ HeardWanted'
  <2>1. Timers'
    <3>1. ASSUME NEW g \in Threads
          PROVE  /\ slot'[g].timer # NoTask => /\ Busy(g)' /\ wanted'[slot'[g].task]
                                               /\ slot'[g].timer = TaskOf[slot'[g].task]
                 /\ Busy(g)' /\ wanted'[slot'[g].task] => slot'[g].timer # NoTask
      <4>1. CASE g = h
        BY <1>2, <1>8, <1>13, <4>1
      <4>2. CASE g # h
        BY <1>1, <1>2, <1>11, <1>13, <4>2, Zenon DEF Timers
      <4> QED
        BY <4>1, <4>2
    <3> QED
      BY <3>1, Zenon DEF Timers
  <2>2. OneSlot'
    <3>1. ASSUME NEW g \in Threads, slot'[g].task = n
          PROVE  g = h
      <4>1. g # h => Busy(g) /\ slot[g].task = n
        BY <1>8, <1>11, <3>1 DEF Busy
      <4> QED
        BY <1>1, <1>2, <4>1, Zenon DEF StartedInSlot
    <3> QED
      BY <1>1, <1>11, <1>13, <3>1, Zenon DEF OneSlot
  <2>3. Started' /\ HeardWanted'
    BY <1>1, <1>2, <1>9 DEF Started, HeardWanted
  <2>4. StartedInSlot'
    <3>1. ASSUME NEW g \in Threads, Busy(g)'
          PROVE  outcome'[slot'[g].task] # "new"
      <4>1. CASE g = h
        BY <1>9, <1>13, <4>1
      <4>2. CASE g # h
        <5>1. outcome[slot[g].task] # "new" /\ slot[g].task \in Runs
          BY <1>1, <1>13, <3>1, <4>2, Typed, Zenon DEF StartedInSlot
        <5> QED
          BY <1>9, <1>11, <4>2, <5>1
      <4> QED
        BY <4>1, <4>2
    <3> QED
      BY <3>1, Zenon DEF StartedInSlot
  <2> QED
    BY <2>1, <2>2, <2>3, <2>4
<1>17. Enough'
  <2>1. Failing' \subseteq Failing /\ Leaving' \subseteq Leaving
    BY <1>6, <1>7, <1>11 DEF Failing, Leaving
  <2> QED
    BY <1>1, <1>2, <1>11, <2>1, EnoughLeft, Typed DEF Enough
<1>18. OutcomeIsOwn'
  BY <1>1, <1>2, <1>9 DEF OutcomeIsOwn
<1> QED
  BY <1>11, <1>12, <1>14, <1>15, <1>16, <1>17, <1>18 DEF PoolInv

\* The first place with a run of the task is asked to stop it.
LEMMA CancelKeeps ==
    ASSUME PoolInv, NEW t \in Tasks, Cancel(t)
    PROVE  PoolInv'
<1>1. TypeOK /\ OwnRuns /\ OneThread /\ Timers /\ OneSlot /\ Started /\ StartedInSlot
      /\ HeardWanted /\ Places /\ PoolKeepsSize /\ Dooms /\ Enough /\ OutcomeIsOwn
      /\ \A g \in Threads : ThreadOK(thread[g], Wanted, ended)
  BY DEF PoolInv
<1>2. Spare /\ PlacesOf(t) # {} /\ UNCHANGED <<ended, slots, shuttingDown, outcome>>
  BY DEF Cancel
<1>3. PICK h \in Threads, k \in Runs :
        /\ InArray(h) /\ Busy(h) /\ slot[h].task = k /\ TaskOf[k] = t
        /\ slot[h].timer = NoTask
        /\ Become(h, Sent(h, [type |-> "cancel"]))
        /\ slot' = [slot EXCEPT ![h].timer = t]
        /\ wanted' = [wanted EXCEPT ![k] = TRUE]
  <2> DEFINE h == slots[Min(PlacesOf(t))]
  <2>0. PlacesOf(t) \subseteq Nat
    BY SizeAssumption DEF PlacesOf, Positions
  <2>1. Min(PlacesOf(t)) \in PlacesOf(t)
    BY <1>2, <2>0, FirstOne, Zenon
  <2>2. h \in Threads /\ InArray(h) /\ slot[h].task \in Runs /\ TaskOf[slot[h].task] = t
    BY <1>1, <2>1, Typed DEF PlacesOf, InArray, RunsOf
  <2>3. Busy(h)
    BY <2>2, NoRunIsNothing DEF Busy
  <2> QED
    BY <2>2, <2>3 DEF Cancel
<1> DEFINE q == thread[h]
           r == Sent(h, [type |-> "cancel"])
           s == [slot[h] EXCEPT !.timer = t]
<1>4. q \in Thread /\ slot[h] \in Slot /\ ThreadOK(q, Wanted, ended) /\ t # NoTask
  BY <1>1, <1>3, Typed, TaskOfAssumption
<1>5. /\ wanted \in [Runs -> BOOLEAN] /\ wanted' \in [Runs -> BOOLEAN]
      /\ wanted'[k] /\ \A m \in Runs : m # k => wanted'[m] = wanted[m]
      /\ Wanted' = Wanted \cup {k}
  BY <1>1, <1>3 DEF TypeOK, Wanted
<1>6. \A m \in Runs : Has(q, m) => m = k
  BY <1>1, <1>3, Zenon DEF OwnRuns
<1>7. /\ r \in Thread /\ ThreadOK(r, Wanted', ended) /\ \A m \in Runs : Has(r, m) => Has(q, m)
      /\ r.state = q.state /\ r.doomed = q.doomed
  <2>1. CASE Up(h)
    <3>1. r = SentCancel(q)
      BY <2>1, Zenon DEF Sent, SentCancel
    <3>2. SentCancel(q).state = q.state /\ SentCancel(q).doomed = q.doomed
      BY <1>4 DEF SentCancel, Thread
    <3>3. Wanted \subseteq Wanted \cup {k} /\ \A m \in Runs : Has(q, m) => m \in Wanted \cup {k}
      BY <1>6
    <3> QED
      BY <1>4, <1>5, <3>1, <3>2, <3>3, SendCancel
  <2>2. CASE ~ Up(h)
    <3>1. r = q
      BY <2>2, Zenon DEF Sent
    <3>2. ThreadOK(q, Wanted \cup {k}, ended)
      BY <1>4, OtherRuns
    <3> QED
      BY <1>4, <1>5, <3>1, <3>2, Zenon
  <2> QED
    BY <2>1, <2>2
<1>8. /\ s \in Slot /\ s.task = k /\ s.timer = t /\ s.fault = slot[h].fault
      /\ s.terminating = slot[h].terminating /\ slot' = [slot EXCEPT ![h] = s]
  <2>1. /\ s \in Slot /\ s.task = slot[h].task /\ s.timer = t /\ s.fault = slot[h].fault
        /\ s.terminating = slot[h].terminating
    BY <1>4 DEF Slot
  <2> QED
    BY <1>3, <2>1
<1>9. /\ q.state # "none" /\ (q.state = "down" => q.doomed)
      /\ outcome[k] # "new" /\ ~ shuttingDown
  BY <1>1, <1>2, <1>3, Zenon DEF Places, Dooms, StartedInSlot, Spare
<1>10. ~ slot[h].terminating
  BY <1>1, <1>3, <1>9 DEF InArray, PoolKeepsSize
<1>11. Become(h, r) /\ outcome' \in [Runs -> Outcomes \cup {"new", "running"}]
  BY <1>1, <1>2, <1>3 DEF TypeOK
<1> HIDE DEF s, r
<1>12. /\ TypeOK' /\ Places' /\ PoolKeepsSize' /\ Dooms'
       /\ thread'[h] = r /\ \A g \in Threads : g # h => thread'[g] = thread[g]
       /\ slot'[h] = s /\ \A g \in Threads : g # h => slot'[g] = slot[g]
       /\ \A g \in Threads : InArray(g)' <=> InArray(g)
       /\ Unused' = Unused
  BY <1>2, <1>3, <1>5, <1>7, <1>8, <1>9, <1>10, <1>11, SlotMoves
<1>13. /\ \A g \in Threads : slot'[g].task = slot[g].task
       /\ \A g \in Threads : Busy(g)' <=> Busy(g)
       /\ \A g \in Threads, m \in Runs : Has(thread'[g], m) => Has(thread[g], m)
  <2>1. \A g \in Threads : slot'[g].task = slot[g].task
    BY <1>3, <1>8, <1>12
  <2> QED
    BY <1>7, <1>12, <2>1 DEF Busy
<1>14. \A g \in Threads : ThreadOK(thread'[g], Wanted', ended')
  <2>1. ASSUME NEW g \in Threads
        PROVE  ThreadOK(thread[g], Wanted \cup {k}, ended)
    BY <1>1, OtherRuns, Typed
  <2> QED
    BY <1>2, <1>5, <1>7, <1>12, <2>1, Zenon
<1>15. OwnRuns' /\ OneThread' /\ OneSlot' /\ StartedInSlot'
  <2>1. OwnRuns'
    BY <1>1, <1>2, <1>12, <1>13, Zenon DEF OwnRuns
  <2>2. OneThread'
    BY <1>1, <1>2, <1>13, Zenon DEF OneThread
  <2>3. OneSlot' /\ StartedInSlot'
    BY <1>1, <1>2, <1>13 DEF OneSlot, StartedInSlot
  <2> QED
    BY <2>1, <2>2, <2>3
<1>16. Timers'
  <2>1. ASSUME NEW g \in Threads
        PROVE  /\ slot'[g].timer # NoTask => /\ Busy(g)' /\ wanted'[slot'[g].task]
                                             /\ slot'[g].timer = TaskOf[slot'[g].task]
               /\ Busy(g)' /\ wanted'[slot'[g].task] => slot'[g].timer # NoTask
    <3>1. CASE g = h
      BY <1>3, <1>4, <1>5, <1>8, <1>12, <1>13, <3>1
    <3>2. CASE g # h /\ Busy(g)
      <4>1. slot[g].task \in Runs /\ slot[g].task # k
        BY <1>1, <1>3, <3>2, Typed, Zenon DEF OneSlot
      <4>2. wanted'[slot[g].task] = wanted[slot[g].task] /\ slot'[g] = slot[g] /\ Busy(g)'
        BY <1>5, <1>12, <1>13, <3>2, <4>1
      <4>3. /\ slot[g].timer # NoTask => /\ wanted[slot[g].task]
                                         /\ slot[g].timer = TaskOf[slot[g].task]
            /\ wanted[slot[g].task] => slot[g].timer # NoTask
        BY <1>1, <3>2, Zenon DEF Timers
      <4> QED
        BY <4>2, <4>3, Zenon
    <3>3. CASE g # h /\ ~ Busy(g)
      <4>1. slot[g].timer = NoTask /\ slot'[g] = slot[g] /\ ~ Busy(g)'
        BY <1>1, <1>12, <1>13, <3>3, Zenon DEF Timers
      <4> QED
        BY <4>1, Zenon
    <3> QED
      BY <3>1, <3>2, <3>3
  <2> QED
    BY <2>1, Zenon DEF Timers
<1>17. Started' /\ HeardWanted' /\ OutcomeIsOwn'
  <2>1. \A m \in Runs : (wanted[m] => wanted'[m]) /\ (wanted'[m] => wanted[m] \/ m = k)
    BY <1>5
  <2>2. Started' /\ HeardWanted'
    BY <1>1, <1>2, <1>9, <2>1, Zenon DEF Started, HeardWanted
  <2>3. OutcomeIsOwn'
    BY <1>1, <1>2, <2>1, Zenon DEF OutcomeIsOwn
  <2> QED
    BY <2>2, <2>3
<1>18. Enough'
  <2>1. Failing' \subseteq Failing /\ Leaving' \subseteq Leaving \cup {h}
    BY <1>8, <1>12 DEF Failing, Leaving
  <2>2. Cardinality(Unused) > Cardinality(Failing) + Cardinality(Leaving)
    BY <1>2 DEF Spare
  <2> QED
    BY <1>1, <1>12, <2>1, <2>2, EnoughReserved, Typed DEF Enough
<1> QED
  BY <1>12, <1>14, <1>15, <1>16, <1>17, <1>18 DEF PoolInv

\* An error event is on its way: the thread stops, in the array or not.
LEMMA FailKeeps ==
    ASSUME PoolInv, NEW h \in Threads, Fail(h)
    PROVE  PoolInv'
<1> DEFINE q == thread[h]
           r == [q EXCEPT !.doomed = TRUE]
           s == [slot[h] EXCEPT !.fault = TRUE]
<1>1. TypeOK /\ OwnRuns /\ OneThread /\ Timers /\ OneSlot /\ Started /\ StartedInSlot
      /\ HeardWanted /\ Places /\ PoolKeepsSize /\ Dooms /\ Enough /\ OutcomeIsOwn
      /\ \A g \in Threads : ThreadOK(thread[g], Wanted, ended)
  BY DEF PoolInv
<1>2. /\ Spare /\ q.state = "up" /\ ~ slot[h].fault /\ Become(h, r)
      /\ slot' = [slot EXCEPT ![h].fault = TRUE]
      /\ UNCHANGED <<ended, slots, shuttingDown, outcome, wanted>>
  BY DEF Fail, Up
<1>3. q \in Thread /\ slot[h] \in Slot /\ ThreadOK(q, Wanted, ended)
  BY <1>1, Typed
<1>4. /\ r \in Thread /\ r.state = "up" /\ r.inbox = q.inbox /\ r.outbox = q.outbox
      /\ r.executing = q.executing /\ r.cancelled = q.cancelled /\ r.doomed
  BY <1>2, <1>3 DEF Thread
<1>5. ThreadOK(r, Wanted, ended) /\ \A n \in Runs : Has(r, n) => Has(q, n)
  <2> HIDE DEF r
  <2> QED
    BY <1>3, <1>4, SameWork
<1>6. /\ s \in Slot /\ s.task = slot[h].task /\ s.timer = slot[h].timer /\ s.fault
      /\ s.terminating = slot[h].terminating /\ slot' = [slot EXCEPT ![h] = s]
  BY <1>2, <1>3 DEF Slot
<1>7. /\ s.task # Nothing => InArray(h)
      /\ ~ shuttingDown /\ InArray(h) => ~ s.terminating
  BY <1>1, <1>6 DEF Places, Busy, PoolKeepsSize, InArray
<1>8. /\ outcome' \in [Runs -> Outcomes \cup {"new", "running"}]
      /\ wanted' \in [Runs -> BOOLEAN] /\ Wanted' = Wanted /\ ~ shuttingDown
  BY <1>1, <1>2 DEF TypeOK, Wanted, Spare
<1> HIDE DEF s, r
<1>9. /\ TypeOK' /\ Places' /\ PoolKeepsSize' /\ Dooms'
      /\ thread'[h] = r /\ \A g \in Threads : g # h => thread'[g] = thread[g]
      /\ slot'[h] = s /\ \A g \in Threads : g # h => slot'[g] = slot[g]
      /\ \A g \in Threads : InArray(g)' <=> InArray(g)
      /\ Unused' = Unused
  BY <1>2, <1>4, <1>6, <1>7, <1>8, SlotMoves
<1>10. /\ \A g \in Threads : slot'[g].task = slot[g].task /\ slot'[g].timer = slot[g].timer
       /\ \A g \in Threads : Busy(g)' <=> Busy(g)
       /\ \A g \in Threads, m \in Runs : Has(thread'[g], m) => Has(thread[g], m)
  <2>1. \A g \in Threads : slot'[g].task = slot[g].task /\ slot'[g].timer = slot[g].timer
    BY <1>6, <1>9
  <2> QED
    BY <1>5, <1>9, <2>1 DEF Busy
<1>11. \A g \in Threads : ThreadOK(thread'[g], Wanted', ended')
  BY <1>1, <1>2, <1>5, <1>8, <1>9, Zenon
<1>12. OwnRuns'
  BY <1>1, <1>2, <1>9, <1>10, Zenon DEF OwnRuns
<1>13. OneThread'
  BY <1>1, <1>2, <1>10, Zenon DEF OneThread
<1>14. Timers' /\ OneSlot' /\ StartedInSlot'
  BY <1>1, <1>2, <1>10 DEF Timers, OneSlot, StartedInSlot
<1>15. Started' /\ HeardWanted' /\ OutcomeIsOwn'
  BY <1>1, <1>2 DEF Started, HeardWanted, OutcomeIsOwn
<1>16. Enough'
  <2>1. Failing' \subseteq Failing \cup {h} /\ Leaving' \subseteq Leaving
    BY <1>2, <1>6, <1>9 DEF Failing, Leaving
  <2>2. Cardinality(Unused) > Cardinality(Failing) + Cardinality(Leaving)
    BY <1>2 DEF Spare
  <2> QED
    BY <1>1, <1>9, <2>1, <2>2, EnoughReserved, Typed DEF Enough
<1> QED
  BY <1>9, <1>11, <1>12, <1>13, <1>14, <1>15, <1>16 DEF PoolInv

\* A slot is freed, its run having come to o, and keeps its place or has none to keep.
LEMMA SettledKeeps ==
    ASSUME PoolInv, NEW h \in Threads, NEW r \in Thread, NEW s \in Slot, NEW o \in Outcomes,
           Become(h, r), slot' = [slot EXCEPT ![h] = s], outcome' = Told(h, o),
           UNCHANGED <<ended, slots, shuttingDown, wanted>>,
           thread[h].state # "none", r.state = thread[h].state, r.doomed = thread[h].doomed,
           s.task = Nothing, s.timer = NoTask, s.terminating = slot[h].terminating,
           shuttingDown \/ s.fault = slot[h].fault,
           ThreadOK(r, Wanted, ended),
           \A n \in Runs : Has(r, n) => Has(thread[h], n) /\ shuttingDown,
           o \in {"completed", "failed", "fatal"} => \A n \in Runs : ~ Has(r, n),
           Busy(h) => /\ o \in {"completed", "failed", "fatal"} => Has(thread[h], slot[h].task)
                      /\ o = "completed" => ended[slot[h].task] = "done"
                      /\ o \in {"failed", "fatal"} => ended[slot[h].task] = o
                      /\ o = "cancelled" => wanted[slot[h].task]
    PROVE  PoolInv'
<1> DEFINE q == thread[h]
           k == slot[h].task
<1>1. TypeOK /\ OwnRuns /\ OneThread /\ Timers /\ OneSlot /\ Started /\ StartedInSlot
      /\ HeardWanted /\ Places /\ PoolKeepsSize /\ Dooms /\ Enough /\ OutcomeIsOwn
      /\ \A g \in Threads : ThreadOK(thread[g], Wanted, ended)
  BY DEF PoolInv
<1>2. /\ ~ Busy(h) => outcome' = outcome
      /\ Busy(h) => k \in Runs /\ outcome' = [outcome EXCEPT ![k] = o]
  BY <1>1, Typed DEF Told
<1>3. /\ outcome' \in [Runs -> Outcomes \cup {"new", "running"}]
      /\ wanted' \in [Runs -> BOOLEAN] /\ Wanted' = Wanted
      /\ \A m \in Runs : outcome'[m] = outcome[m] \/ (Busy(h) /\ m = k /\ outcome'[m] = o)
  BY <1>1, <1>2 DEF TypeOK, Wanted
<1>4. /\ ~ shuttingDown /\ InArray(h) => ~ s.terminating
      /\ r.state = "down" => r.doomed
      /\ r.doomed => shuttingDown \/ InArray(h) \/ s.terminating \/ s.fault
  BY <1>1 DEF PoolKeepsSize, InArray, Dooms
<1>5. /\ TypeOK' /\ Places' /\ PoolKeepsSize' /\ Dooms'
      /\ thread'[h] = r /\ \A g \in Threads : g # h => thread'[g] = thread[g]
      /\ slot'[h] = s /\ \A g \in Threads : g # h => slot'[g] = slot[g]
      /\ \A g \in Threads : InArray(g)' <=> InArray(g)
      /\ Unused' = Unused
  BY <1>3, <1>4, SlotMoves
<1>6. /\ ~ Busy(h)' /\ \A g \in Threads : g # h => (Busy(g)' <=> Busy(g))
      /\ \A g \in Threads : Busy(g)' => g # h /\ Busy(g) /\ slot'[g] = slot[g]
      /\ \A g \in Threads, m \in Runs : Has(thread'[g], m) => Has(thread[g], m)
  BY <1>5 DEF Busy
<1>7. \A g \in Threads : ThreadOK(thread'[g], Wanted', ended')
  BY <1>1, <1>3, <1>5, Zenon
<1>8. OwnRuns'
  <2>1. ASSUME NEW g \in Threads, NEW m \in Runs, Has(thread'[g], m)
        PROVE  /\ Busy(g)' => slot'[g].task = m
               /\ ~ Busy(g)' => shuttingDown \/ ~ InArray(g)'
    <3>1. CASE g = h
      BY <1>5, <1>6, <2>1, <3>1, Zenon
    <3>2. CASE g # h
      <4>1. /\ Busy(g) => slot[g].task = m
            /\ ~ Busy(g) => shuttingDown \/ ~ InArray(g)
        BY <1>1, <1>6, <2>1, Zenon DEF OwnRuns
      <4>2. (Busy(g)' <=> Busy(g)) /\ (InArray(g)' <=> InArray(g)) /\ slot'[g] = slot[g]
        BY <1>5, <1>6, <3>2, Zenon
      <4> QED
        BY <4>1, <4>2, Zenon
    <3> QED
      BY <3>1, <3>2
  <2> QED
    BY <2>1, Zenon DEF OwnRuns
<1>9. OneThread'
  <2>1. ASSUME NEW m \in Runs, NEW g \in Threads, Has(thread'[g], m)
        PROVE  outcome'[m] \notin {"new", "completed", "failed", "fatal"}
    <3>1. outcome[m] \notin {"new", "completed", "failed", "fatal"}
      BY <1>1, <1>6, <2>1, Zenon DEF OneThread
    <3>2. CASE Busy(h) /\ m = k /\ outcome'[m] = o
      <4>1. o \notin {"completed", "failed", "fatal"} \/ \A n \in Runs : ~ Has(r, n)
        OBVIOUS
      <4>2. CASE \A n \in Runs : ~ Has(r, n)
        <5>1. g # h /\ Has(thread[g], m)
          BY <1>5, <1>6, <2>1, <4>2, Zenon
        <5>2. ~ Has(thread[h], m)
          BY <1>1, <5>1, Zenon DEF OneThread
        <5> QED
          BY <3>2, <5>2 DEF Outcomes
      <4>3. CASE o \notin {"completed", "failed", "fatal"}
        BY <3>2, <4>3 DEF Outcomes
      <4> QED
        BY <4>1, <4>2, <4>3
    <3> QED
      BY <1>3, <3>1, <3>2
  <2>2. ASSUME NEW m \in Runs, NEW g \in Threads, NEW f \in Threads,
               Has(thread'[g], m), Has(thread'[f], m)
        PROVE  f = g
    BY <1>1, <1>6, <2>2, Zenon DEF OneThread
  <2> QED
    BY <2>1, <2>2, Zenon DEF OneThread
<1>10. Timers'
  <2>1. ASSUME NEW g \in Threads
        PROVE  /\ slot'[g].timer # NoTask => /\ Busy(g)' /\ wanted'[slot'[g].task]
                                             /\ slot'[g].timer = TaskOf[slot'[g].task]
               /\ Busy(g)' /\ wanted'[slot'[g].task] => slot'[g].timer # NoTask
    <3>1. CASE g = h
      BY <1>5, <1>6, <3>1, Zenon
    <3>2. CASE g # h
      <4>1. /\ slot[g].timer # NoTask => /\ Busy(g) /\ wanted[slot[g].task]
                                         /\ slot[g].timer = TaskOf[slot[g].task]
            /\ Busy(g) /\ wanted[slot[g].task] => slot[g].timer # NoTask
        BY <1>1, Zenon DEF Timers
      <4>2. (Busy(g)' <=> Busy(g)) /\ slot'[g] = slot[g]
        BY <1>5, <1>6, <3>2, Zenon
      <4> QED
        BY <4>1, <4>2, Zenon
    <3> QED
      BY <3>1, <3>2
  <2> QED
    BY <2>1, Zenon DEF Timers
<1>11. OneSlot'
  <2>1. ASSUME NEW g \in Threads, NEW f \in Threads, Busy(f)', slot'[g].task = slot'[f].task
        PROVE  g = f
    <3>1. g # h /\ f # h /\ Busy(f) /\ slot'[f] = slot[f] /\ slot'[g] = slot[g]
      <4>1. f # h /\ Busy(f) /\ slot'[f] = slot[f] /\ slot'[f].task # Nothing
        BY <1>6, <2>1 DEF Busy
      <4> QED
        BY <1>5, <2>1, <4>1, Zenon
    <3> QED
      BY <1>1, <2>1, <3>1, Zenon DEF OneSlot
  <2> QED
    BY <2>1, Zenon DEF OneSlot
<1>12. Started' /\ HeardWanted'
  <2>1. \A m \in Runs : outcome'[m] = "new" => outcome[m] = "new"
    BY <1>3 DEF Outcomes
  <2> QED
    BY <1>1, <2>1, Zenon DEF Started, HeardWanted
<1>13. StartedInSlot'
  <2>1. \A m \in Runs : outcome'[m] = "new" => outcome[m] = "new"
    BY <1>3 DEF Outcomes
  <2> QED
    <3>1. ASSUME NEW g \in Threads, Busy(g)'
          PROVE  outcome'[slot'[g].task] # "new"
      <4>1. Busy(g) /\ slot'[g] = slot[g]
        BY <1>6, <3>1, Zenon
      <4>2. slot[g].task \in Runs /\ outcome[slot[g].task] # "new"
        BY <1>1, <4>1, Typed, Zenon DEF StartedInSlot
      <4> QED
        BY <2>1, <4>1, <4>2, Zenon
    <3> QED
      BY <3>1, Zenon DEF StartedInSlot
<1>14. Enough'
  <2>1. ~ shuttingDown => Failing' \subseteq Failing /\ Leaving' \subseteq Leaving
    BY <1>5 DEF Failing, Leaving
  <2> QED
    BY <1>1, <1>5, <2>1, EnoughLeft, Typed DEF Enough
<1>15. OutcomeIsOwn'
  BY <1>1, <1>3 DEF OutcomeIsOwn
<1> QED
  BY <1>5, <1>7, <1>8, <1>9, <1>10, <1>11, <1>12, <1>13, <1>14, <1>15 DEF PoolInv

LEMMA FreedSlot ==
    ASSUME NEW x \in Slot, x.task = Nothing => x.timer = NoTask
    PROVE  /\ Freed(x) \in Slot /\ Freed(x).task = Nothing /\ Freed(x).timer = NoTask
           /\ Freed(x).terminating = x.terminating /\ Freed(x).fault = x.fault
  BY DEF Freed, Slot

\* The final message of the run in the slot.
LEMMA OnMessageKeeps ==
    ASSUME PoolInv, NEW h \in Threads, OnMessage(h)
    PROVE  PoolInv'
<1> DEFINE q == thread[h]
           m == Head(q.outbox)
           r == Heard(q)
           s == Freed(slot[h])
           o == OutcomeOf(m.type)
<1>1. /\ q \in Thread /\ slot[h] \in Slot /\ ThreadOK(q, Wanted, ended) /\ TypeOK
      /\ Places /\ OwnRuns /\ HeardWanted /\ Timers
  BY Typed DEF PoolInv
<1>2. q.outbox # <<>> /\ Become(h, Read(h)) /\ UNCHANGED <<ended, slots, shuttingDown, wanted>>
  BY DEF OnMessage
<1>3. /\ r \in Thread /\ ThreadOK(r, Wanted, ended) /\ \A n \in Runs : ~ Has(r, n)
      /\ m \in Messages /\ Has(q, m.run) /\ ended[m.run] = m.type
  BY <1>1, <1>2, ReadMessage
<1>4. CASE ~ Concerns(h, m.run)
  <2>1. UNCHANGED <<slot, outcome>>
    BY <1>4 DEF OnMessage
  <2> QED
    BY <1>2, <2>1, IgnoredKeeps DEF poolVars
<1>5. CASE Concerns(h, m.run)
  <2>1. Busy(h) /\ slot' = [slot EXCEPT ![h] = s] /\ outcome' = Told(h, o) /\ Become(h, r)
    BY <1>2, <1>5 DEF OnMessage, Concerns, Settle, Read, Heard
  <2>2. m.run \in Runs /\ m.type \in FinalMessages
    BY <1>3 DEF Messages
  <2>3. slot[h].task = m.run
    BY <1>1, <1>3, <2>1, <2>2, Zenon DEF OwnRuns
  <2>4. /\ o \in Outcomes
        /\ o = "completed" => m.type = "done"
        /\ o \in {"failed", "fatal"} => m.type = o
        /\ o = "cancelled" => m.type = "cancelled"
    BY <2>2 DEF OutcomeOf, Outcomes, FinalMessages
  <2>5. m.type = "cancelled" => wanted[m.run]
    BY <1>1, <1>3, <2>2, Zenon DEF HeardWanted
  <2>6. q.state # "none" /\ (slot[h].task = Nothing => slot[h].timer = NoTask)
    BY <1>1, <1>2 DEF Places, NoThread, Timers, Busy
  <2>7. /\ s \in Slot /\ s.task = Nothing /\ s.timer = NoTask
        /\ s.terminating = slot[h].terminating /\ s.fault = slot[h].fault
    BY <1>1, <2>6, FreedSlot
  <2>8. r.state = q.state /\ r.doomed = q.doomed
    BY <1>1 DEF Heard, Thread
  <2>9. /\ o \in {"completed", "failed", "fatal"} => Has(q, slot[h].task)
        /\ o = "completed" => ended[slot[h].task] = "done"
        /\ o \in {"failed", "fatal"} => ended[slot[h].task] = o
        /\ o = "cancelled" => wanted[slot[h].task]
    BY <1>3, <2>3, <2>4, <2>5, Zenon
  <2> HIDE DEF r, s, o
  <2> QED
    BY <1>2, <1>3, <2>1, <2>4, <2>6, <2>7, <2>8, <2>9, SettledKeeps
<1> QED
  BY <1>4, <1>5

\* While shutting down nothing is replaced.
LEMMA SettleOnlyKeeps ==
    ASSUME PoolInv, NEW h \in Threads, NEW o \in {"crashed", "cancelled"}, NEW x \in Slot,
           SettleOnly(h, o, x), thread[h].state # "none",
           x.task = slot[h].task, x.timer = slot[h].timer,
           x.terminating = slot[h].terminating,
           o = "cancelled" => Busy(h) /\ wanted[slot[h].task]
    PROVE  PoolInv'
<1> DEFINE r == thread[h]
           s == Freed(x)
<1>1. /\ r \in Thread /\ slot[h] \in Slot /\ ThreadOK(r, Wanted, ended) /\ TypeOK /\ Timers
  BY Typed DEF PoolInv
<1>2. /\ shuttingDown /\ outcome' = Told(h, o) /\ slot' = [slot EXCEPT ![h] = s]
      /\ thread' = thread /\ UNCHANGED <<ended, slots, shuttingDown, wanted>>
  BY DEF SettleOnly, runnerVars
<1>3. Become(h, r)
  BY <1>1, <1>2, Typed DEF Become
<1>4. x.task = Nothing => x.timer = NoTask
  BY <1>1, Zenon DEF Timers, Busy
<1>5. /\ s \in Slot /\ s.task = Nothing /\ s.timer = NoTask
      /\ s.terminating = slot[h].terminating
  BY <1>4, FreedSlot
<1>6. /\ o \in Outcomes /\ o \notin {"completed", "failed", "fatal"}
      /\ o # "completed" /\ o \notin {"failed", "fatal"}
  BY DEF Outcomes
<1>7. o = "cancelled" => wanted[slot[h].task]
  OBVIOUS
<1> HIDE DEF s
<1> QED
  BY <1>1, <1>2, <1>3, <1>5, <1>6, <1>7, SettledKeeps

-----------------------------------------------------------------------------
(* A thread is replaced.                                                   *)

LEMMA ReplaceKeeps ==
    ASSUME PoolInv, NEW h \in Threads, NEW o \in {"crashed", "cancelled"},
           NEW x \in Slot, NEW q \in Thread, SettleAndReplace(h, o, x, q),
           thread[h].state # "none", q.state # "none",
           x.task = slot[h].task, x.timer = slot[h].timer, x.fault => slot[h].fault,
           \/ slot[h].fault /\ ~ x.fault
           \/ h \in Leaving,
           o = "cancelled" => Busy(h) /\ wanted[slot[h].task],
           ThreadOK(q, Wanted, ended), \A n \in Runs : Has(q, n) => Has(thread[h], n)
    PROVE  PoolInv'
<1> DEFINE r == [q EXCEPT !.doomed = TRUE]
           s == [Freed(x) EXCEPT !.terminating = TRUE]
           k == slot[h].task
<1>1. TypeOK /\ OwnRuns /\ OneThread /\ Timers /\ OneSlot /\ Started /\ StartedInSlot
      /\ HeardWanted /\ Places /\ PoolKeepsSize /\ Dooms /\ Enough /\ OutcomeIsOwn
      /\ \A f \in Threads : ThreadOK(thread[f], Wanted, ended)
  BY DEF PoolInv
<1>2. /\ ~ shuttingDown /\ outcome' = Told(h, o) /\ slot' = [slot EXCEPT ![h] = s]
      /\ UNCHANGED <<ended, shuttingDown, wanted>>
  BY DEF SettleAndReplace
<1>3. Unused # {} /\ Unused \subseteq Threads
  <2>1. h \in Failing \/ h \in Leaving
    BY DEF Failing
  <2> QED
    BY <1>1, <1>2, <2>1, EnoughForOne, Typed DEF Enough
<1>4. PICK g \in Unused :
        /\ thread' = [thread EXCEPT ![h] = r, ![g] = NewThread]
        /\ slots' = [p \in Positions |-> IF slots[p] = h THEN g ELSE slots[p]]
  <2>0. Unused \subseteq Nat
    BY <1>3, ThreadsAssumption, Zenon
  <2>1. Min(Unused) \in Unused
    BY <1>3, <2>0, FirstOne, Zenon
  <2> QED
    BY <2>1 DEF SettleAndReplace, TakePlace
<1>5. /\ g \in Threads /\ g # h /\ thread[g] = NoThread /\ slot[g] = NewSlot /\ ~ InArray(g)
  BY <1>1, <1>3 DEF Places, Unused
<1>6. /\ NewSlot \in Slot /\ NewSlot.task = Nothing /\ NewSlot.timer = NoTask
      /\ NewSlot.fault = FALSE /\ NewSlot.terminating = FALSE
      /\ NewThread \in Thread /\ NewThread.state = "up" /\ NewThread.doomed = FALSE
  BY BlankThreads DEF NewSlot, NewThread, NoThread, Slot
<1>7. ThreadOK(NewThread, Wanted, ended) /\ \A n \in Runs : ~ Has(NewThread, n)
  BY BlankThreads, Blank
<1>8. /\ r \in Thread /\ r.state = q.state /\ r.inbox = q.inbox /\ r.outbox = q.outbox
      /\ r.executing = q.executing /\ r.cancelled = q.cancelled /\ r.doomed
  BY DEF Thread
<1>9. ThreadOK(r, Wanted, ended) /\ \A n \in Runs : Has(r, n) => Has(thread[h], n)
  <2> HIDE DEF r
  <2>1. ThreadOK(r, Wanted, ended) /\ \A n \in Runs : Has(r, n) <=> Has(q, n)
    BY <1>8, SameWork
  <2> QED
    BY <2>1, Zenon
<1>10. /\ s \in Slot /\ s.task = Nothing /\ s.timer = NoTask /\ s.terminating /\ s.fault = x.fault
  <2>1. x.task = Nothing => x.timer = NoTask
    BY <1>1, Zenon DEF Timers, Busy
  <2>2. /\ Freed(x) \in Slot /\ Freed(x).task = Nothing /\ Freed(x).timer = NoTask
        /\ Freed(x).fault = x.fault
    BY <2>1, FreedSlot
  <2> QED
    BY <2>2 DEF Slot
<1> HIDE DEF r, s
<1>11. /\ thread' \in [Threads -> Thread] /\ thread'[h] = r /\ thread'[g] = NewThread
       /\ \A f \in Threads : f # h /\ f # g => thread'[f] = thread[f]
  BY <1>1, <1>4, <1>5, <1>6, <1>8, Typed
<1>12. /\ slot' \in [Threads -> Slot] /\ slot'[h] = s
       /\ \A f \in Threads : f # h => slot'[f] = slot[f]
  BY <1>1, <1>2, <1>10, Typed
<1>13. /\ slots' \in [Positions -> Threads]
       /\ \A p \in Positions : slots[p] = h => slots'[p] = g
       /\ \A p \in Positions : slots[p] # h => slots'[p] = slots[p] /\ slots[p] # g
  BY <1>1, <1>4, <1>5, Typed DEF InArray
<1>14. /\ ~ InArray(h)'
       /\ \A f \in Threads : f # h /\ f # g => (InArray(f)' <=> InArray(f))
  BY <1>5, <1>13 DEF InArray
<1>15. /\ ~ Busy(h)' /\ ~ Busy(g)'
       /\ \A f \in Threads : Busy(f)' => f # h /\ f # g /\ Busy(f) /\ slot'[f] = slot[f]
       /\ \A f \in Threads : f # h => (Busy(f)' <=> Busy(f))
  BY <1>5, <1>6, <1>10, <1>12 DEF Busy
<1>16. \A f \in Threads, m \in Runs : Has(thread'[f], m) => f # g /\ Has(thread[f], m)
  BY <1>7, <1>9, <1>11, Zenon
<1>17. /\ outcome' \in [Runs -> Outcomes \cup {"new", "running"}] /\ Wanted' = Wanted
       /\ \A m \in Runs : outcome'[m] = outcome[m] \/ (Busy(h) /\ m = k /\ outcome'[m] = o)
  <2>1. /\ ~ Busy(h) => outcome' = outcome
        /\ Busy(h) => k \in Runs /\ outcome' = [outcome EXCEPT ![k] = o]
    BY <1>1, <1>2, Typed DEF Told
  <2> QED
    BY <1>1, <1>2, <2>1 DEF TypeOK, Wanted, Outcomes
<1>18. TypeOK'
  BY <1>1, <1>2, <1>11, <1>12, <1>13, <1>17 DEF TypeOK, RunnerTypeOK
<1>19. \A f \in Threads : ThreadOK(thread'[f], Wanted', ended')
  BY <1>1, <1>2, <1>7, <1>9, <1>11, <1>17, Zenon
<1>20. OwnRuns'
  <2>1. ASSUME NEW f \in Threads, NEW m \in Runs, Has(thread'[f], m)
        PROVE  /\ Busy(f)' => slot'[f].task = m
               /\ ~ Busy(f)' => ~ InArray(f)'
    <3>1. f # g /\ Has(thread[f], m)
      BY <1>16, <2>1, Zenon
    <3>2. CASE f = h
      BY <1>14, <1>15, <3>2, Zenon
    <3>3. CASE f # h
      <4>1. (Busy(f) => slot[f].task = m) /\ (~ Busy(f) => ~ InArray(f))
        BY <1>1, <1>2, <3>1, Zenon DEF OwnRuns
      <4>2. (Busy(f)' <=> Busy(f)) /\ (InArray(f)' <=> InArray(f)) /\ slot'[f] = slot[f]
        BY <1>12, <1>14, <1>15, <3>1, <3>3, Zenon
      <4> QED
        BY <4>1, <4>2, Zenon
    <3> QED
      BY <3>2, <3>3
  <2> QED
    BY <2>1, Zenon DEF OwnRuns
<1>21. OneThread'
  <2>1. ASSUME NEW m \in Runs, outcome'[m] \in {"new", "completed", "failed", "fatal"}
        PROVE  outcome[m] \in {"new", "completed", "failed", "fatal"}
    BY <1>17, <2>1
  <2> QED
    BY <1>1, <1>16, <2>1, Zenon DEF OneThread
<1>22. Timers'
  <2>1. ASSUME NEW f \in Threads
        PROVE  /\ slot'[f].timer # NoTask => /\ Busy(f)' /\ wanted'[slot'[f].task]
                                             /\ slot'[f].timer = TaskOf[slot'[f].task]
               /\ Busy(f)' /\ wanted'[slot'[f].task] => slot'[f].timer # NoTask
    <3>1. CASE f = h
      BY <1>10, <1>12, <1>15, <3>1, Zenon
    <3>2. CASE f # h
      <4>1. /\ slot[f].timer # NoTask => /\ Busy(f) /\ wanted[slot[f].task]
                                         /\ slot[f].timer = TaskOf[slot[f].task]
            /\ Busy(f) /\ wanted[slot[f].task] => slot[f].timer # NoTask
        BY <1>1, Zenon DEF Timers
      <4>2. (Busy(f)' <=> Busy(f)) /\ slot'[f] = slot[f] /\ wanted' = wanted
        BY <1>2, <1>12, <1>15, <3>2, Zenon
      <4> QED
        BY <4>1, <4>2, Zenon
    <3> QED
      BY <3>1, <3>2
  <2> QED
    BY <2>1, Zenon DEF Timers
<1>23. OneSlot'
  <2>1. ASSUME NEW e \in Threads, NEW f \in Threads, Busy(f)', slot'[e].task = slot'[f].task
        PROVE  e = f
    <3>1. Busy(f) /\ slot'[f] = slot[f] /\ slot'[f].task # Nothing
      BY <1>15, <2>1 DEF Busy
    <3>2. slot'[e] = slot[e]
      BY <1>10, <1>12, <2>1, <3>1, Zenon
    <3> QED
      BY <1>1, <2>1, <3>1, <3>2, Zenon DEF OneSlot
  <2> QED
    BY <2>1, Zenon DEF OneSlot
<1>24. Started' /\ StartedInSlot' /\ HeardWanted'
  <2>1. \A m \in Runs : outcome'[m] = "new" => outcome[m] = "new"
    BY <1>17
  <2>2. ASSUME NEW f \in Threads, Busy(f)'
        PROVE  outcome'[slot'[f].task] # "new"
    <3>1. Busy(f) /\ slot'[f] = slot[f]
      BY <1>15, <2>2, Zenon
    <3>2. slot[f].task \in Runs /\ outcome[slot[f].task] # "new"
      BY <1>1, <3>1, Typed, Zenon DEF StartedInSlot
    <3> QED
      BY <2>1, <3>1, <3>2, Zenon
  <2>3. Started' /\ HeardWanted'
    BY <1>1, <1>2, <2>1, Zenon DEF Started, HeardWanted
  <2> QED
    BY <2>2, <2>3, Zenon DEF StartedInSlot
<1>25. Places'
  <2>1. \A p1, p2 \in Positions : slots'[p1] = slots'[p2] => p1 = p2
    <3>1. ASSUME NEW p1 \in Positions, NEW p2 \in Positions, slots'[p1] = slots'[p2]
          PROVE  slots[p1] = slots[p2]
      BY <1>13, <3>1
    <3> QED
      BY <1>1, <3>1, Zenon DEF Places
  <2>2. ASSUME NEW f \in Threads, Busy(f)'
        PROVE  InArray(f)'
    BY <1>1, <1>14, <1>15, <2>2, Zenon DEF Places
  <2>3. ASSUME NEW f \in Threads, thread'[f].state = "none"
        PROVE  thread'[f] = NoThread /\ slot'[f] = NewSlot /\ ~ InArray(f)'
    <3>1. f # h /\ f # g
      BY <1>6, <1>8, <1>11, <2>3
    <3>2. thread'[f] = thread[f] /\ slot'[f] = slot[f] /\ (InArray(f)' <=> InArray(f))
      BY <1>11, <1>12, <1>14, <3>1, Zenon
    <3>3. thread[f] = NoThread /\ slot[f] = NewSlot /\ ~ InArray(f)
      BY <1>1, <2>3, <3>2, Zenon DEF Places
    <3> QED
      BY <3>2, <3>3, Zenon
  <2> QED
    BY <2>1, <2>2, <2>3, Zenon DEF Places
<1>26. PoolKeepsSize'
  <2>1. ASSUME NEW p \in Positions
        PROVE  /\ thread'[slots'[p]].state \in {"up", "down"}
               /\ ~ slot'[slots'[p]].terminating
    <3>1. CASE slots[p] = h
      BY <1>5, <1>6, <1>11, <1>12, <1>13, <3>1
    <3>2. CASE slots[p] # h
      <4>1. /\ slots'[p] = slots[p] /\ slots[p] \in Threads
            /\ thread'[slots[p]] = thread[slots[p]] /\ slot'[slots[p]] = slot[slots[p]]
        BY <1>1, <1>11, <1>12, <1>13, <3>2, Typed
      <4> QED
        BY <1>1, <1>2, <4>1 DEF PoolKeepsSize
    <3> QED
      BY <3>1, <3>2
  <2> QED
    BY <1>25, <2>1 DEF PoolKeepsSize, Places
<1>27. Dooms'
  <2>1. ASSUME NEW f \in Threads
        PROVE  /\ thread'[f].state = "down" => thread'[f].doomed
               /\ thread'[f].doomed =>
                    shuttingDown' \/ InArray(f)' \/ slot'[f].terminating \/ slot'[f].fault
    <3>1. CASE f = h
      BY <1>8, <1>10, <1>11, <1>12, <3>1
    <3>2. CASE f = g
      BY <1>6, <1>11, <3>2
    <3>3. CASE f # h /\ f # g
      <4>1. /\ thread[f].state = "down" => thread[f].doomed
            /\ thread[f].doomed =>
                 shuttingDown \/ InArray(f) \/ slot[f].terminating \/ slot[f].fault
        BY <1>1, Zenon DEF Dooms
      <4>2. thread'[f] = thread[f] /\ slot'[f] = slot[f] /\ (InArray(f)' <=> InArray(f))
        BY <1>11, <1>12, <1>14, <3>3, Zenon
      <4> QED
        BY <1>2, <4>1, <4>2, Zenon
    <3> QED
      BY <3>1, <3>2, <3>3
  <2> QED
    BY <2>1, Zenon DEF Dooms
<1>28. Enough'
  <2>1. Unused' = Unused \ {g}
    BY <1>5, <1>6, <1>8, <1>11 DEF Unused
  <2>2. Failing' \subseteq Failing /\ (slot[h].fault /\ ~ x.fault => h \notin Failing')
    BY <1>10, <1>12 DEF Failing
  <2>3. Leaving' \subseteq Leaving /\ h \notin Leaving'
    BY <1>5, <1>6, <1>10, <1>11, <1>12, <1>14 DEF Leaving
  <2>4. (h \in Failing /\ h \notin Failing') \/ (h \in Leaving /\ h \notin Leaving')
    BY <2>2, <2>3 DEF Failing
  <2> QED
    BY <1>1, <1>2, <2>1, <2>2, <2>3, <2>4, EnoughTaken, Typed DEF Enough
<1>29. OutcomeIsOwn'
  BY <1>1, <1>2, <1>17 DEF OutcomeIsOwn
<1> QED
  BY <1>18, <1>19, <1>20, <1>21, <1>22, <1>23, <1>24, <1>25, <1>26, <1>27, <1>28, <1>29
     DEF PoolInv

LEMMA OnErrorKeeps ==
    ASSUME PoolInv, NEW h \in Threads, OnError(h)
    PROVE  PoolInv'
<1> DEFINE x == [slot[h] EXCEPT !.fault = FALSE]
<1>1. /\ thread[h] \in Thread /\ slot[h] \in Slot /\ ThreadOK(thread[h], Wanted, ended)
      /\ Places /\ slot[h].fault
  BY Typed DEF PoolInv, OnError
<1>2. thread[h].state # "none"
  BY <1>1 DEF Places, NewSlot
<1>3. /\ x \in Slot /\ x.task = slot[h].task /\ x.timer = slot[h].timer
      /\ x.terminating = slot[h].terminating /\ ~ x.fault
  BY <1>1 DEF Slot
<1>4. \/ SettleAndReplace(h, "crashed", x, thread[h])
      \/ SettleOnly(h, "crashed", x)
  BY DEF OnError
<1> HIDE DEF x
<1> QED
  BY <1>1, <1>2, <1>3, <1>4, ReplaceKeeps, SettleOnlyKeeps

LEMMA OnExitKeeps ==
    ASSUME PoolInv, NEW h \in Threads, OnExit(h)
    PROVE  PoolInv'
<1>1. /\ slot[h] \in Slot /\ Dooms
      /\ thread[h].state = "down" /\ ~ slot[h].fault /\ ~ slot[h].terminating
      /\ SettleAndReplace(h, "crashed", slot[h], GoneThread) /\ ~ shuttingDown
  BY Typed DEF PoolInv, OnExit, SettleAndReplace
<1>2. h \in Leaving
  BY <1>1 DEF Leaving, Dooms
<1>3. /\ GoneThread \in Thread /\ ThreadOK(GoneThread, Wanted, ended)
      /\ \A n \in Runs : ~ Has(GoneThread, n)
  BY BlankThreads, Blank
<1>4. GoneThread.state # "none"
  BY DEF GoneThread, NoThread
<1> QED
  BY <1>1, <1>2, <1>3, <1>4, ReplaceKeeps

LEMMA GraceOverKeeps ==
    ASSUME PoolInv, NEW h \in Threads, GraceOver(h)
    PROVE  PoolInv'
<1>1. /\ thread[h] \in Thread /\ slot[h] \in Slot /\ ThreadOK(thread[h], Wanted, ended)
      /\ Places /\ Timers /\ slot[h].timer # NoTask
  BY Typed DEF PoolInv, GraceOver
<1>2. thread[h].state # "none" /\ Busy(h) /\ wanted[slot[h].task]
  BY <1>1 DEF Places, NewSlot, Timers
<1>3. h \in Leaving
  BY <1>1, <1>2 DEF Places, Leaving
<1>4. \/ SettleAndReplace(h, "cancelled", slot[h], thread[h])
      \/ SettleOnly(h, "cancelled", slot[h])
  BY DEF GraceOver
<1> QED
  BY <1>1, <1>2, <1>3, <1>4, ReplaceKeeps, SettleOnlyKeeps

\* Every thread in the array is terminated and nothing is replaced any more.
LEMMA ShutdownKeeps ==
    ASSUME PoolInv, Shutdown
    PROVE  PoolInv'
<1>1. TypeOK /\ OwnRuns /\ OneThread /\ Timers /\ OneSlot /\ Started /\ StartedInSlot
      /\ HeardWanted /\ Places /\ PoolKeepsSize /\ Dooms /\ Enough /\ OutcomeIsOwn
      /\ \A f \in Threads : ThreadOK(thread[f], Wanted, ended)
  BY DEF PoolInv
<1>2. /\ shuttingDown' = TRUE /\ ended' = ended /\ slots' = slots /\ slot' = slot
      /\ outcome' = outcome /\ wanted' = wanted
      /\ thread' = [h \in Threads |-> [thread[h] EXCEPT
                                         !.doomed = @ \/ (InArray(h) /\ Up(h))]]
  BY DEF Shutdown
<1>3. ASSUME NEW h \in Threads
      PROVE  /\ thread'[h] \in Thread /\ thread'[h].state = thread[h].state
             /\ thread'[h].inbox = thread[h].inbox /\ thread'[h].outbox = thread[h].outbox
             /\ thread'[h].executing = thread[h].executing
             /\ thread'[h].cancelled = thread[h].cancelled
             /\ thread[h].doomed => thread'[h].doomed
             /\ thread[h].state = "none" => thread'[h] = thread[h]
  <2>1. thread[h] \in Thread /\ thread[h].doomed \in BOOLEAN
    BY <1>1, Typed DEF Thread
  <2>2. thread'[h] = [thread[h] EXCEPT !.doomed = @ \/ (InArray(h) /\ Up(h))]
    BY <1>2
  <2>3. (thread[h].doomed \/ (InArray(h) /\ Up(h))) \in BOOLEAN
    OBVIOUS
  <2>4. CASE InArray(h) /\ Up(h)
    <3>1. thread'[h] = [thread[h] EXCEPT !.doomed = TRUE]
      BY <2>2, <2>4
    <3> QED
      BY <2>1, <2>4, <3>1 DEF Thread, Up
  <2>5. CASE ~ (InArray(h) /\ Up(h))
    <3>1. thread'[h] = thread[h]
      BY <2>1, <2>2, <2>5 DEF Thread
    <3> QED
      BY <2>1, <3>1
  <2> QED
    BY <2>4, <2>5
<1>4. thread' \in [Threads -> Thread]
  BY <1>2, <1>3
<1>5. \A h \in Threads : /\ ThreadOK(thread'[h], Wanted, ended)
                         /\ \A n \in Runs : Has(thread'[h], n) <=> Has(thread[h], n)
  BY <1>1, <1>3, SameWork, Typed
<1>6. /\ \A h \in Threads : (InArray(h)' <=> InArray(h)) /\ (Busy(h)' <=> Busy(h))
      /\ Wanted' = Wanted
  BY <1>2 DEF InArray, Busy, Wanted
<1>7. TypeOK'
  BY <1>1, <1>2, <1>4 DEF TypeOK, RunnerTypeOK
<1>8. OwnRuns'
  BY <1>1, <1>2, <1>5, <1>6, Zenon DEF OwnRuns
<1>9. OneThread'
  BY <1>1, <1>2, <1>5, Zenon DEF OneThread
<1>10. Timers' /\ OneSlot' /\ StartedInSlot'
  BY <1>1, <1>2, <1>6 DEF Timers, OneSlot, StartedInSlot
<1>11. Started' /\ HeardWanted' /\ OutcomeIsOwn'
  BY <1>1, <1>2 DEF Started, HeardWanted, OutcomeIsOwn
<1>12. Places'
  BY <1>1, <1>2, <1>3, <1>6 DEF Places
<1>13. Dooms'
  BY <1>1, <1>2, <1>3 DEF Dooms
<1>14. PoolKeepsSize' /\ Enough'
  BY <1>2 DEF PoolKeepsSize, Enough
<1>15. \A h \in Threads : ThreadOK(thread'[h], Wanted', ended')
  BY <1>2, <1>5, <1>6, Zenon
<1> QED
  BY <1>7, <1>8, <1>9, <1>10, <1>11, <1>12, <1>13, <1>14, <1>15 DEF PoolInv

-----------------------------------------------------------------------------
LEMMA PoolInvHolds == Init => PoolInv
<1> SUFFICES ASSUME Init PROVE PoolInv
  OBVIOUS
<1>1. /\ NoThread \in Thread /\ NewThread \in Thread
      /\ NewThread.state = "up" /\ ~ NewThread.doomed /\ ~ NoThread.doomed
      /\ NewSlot \in Slot /\ NewSlot.task = Nothing /\ NewSlot.timer = NoTask
      /\ NewSlot.fault = FALSE /\ NewSlot.terminating = FALSE /\ NoThread.state = "none"
  BY BlankThreads DEF NoThread, NewThread, NewSlot, Slot
<1>2. /\ \A h \in Threads : thread[h] \in {NoThread, NewThread} /\ slot[h] = NewSlot
      /\ \A h \in Positions : thread[h] = NewThread /\ slots[h] = h
      /\ \A h \in Threads : h \notin Positions => thread[h] = NoThread
      /\ Positions \subseteq Threads /\ ~ shuttingDown
      /\ \A n \in Runs : outcome[n] = "new" /\ ~ wanted[n] /\ ended[n] = "nothing"
  BY SizeAssumption DEF Init, Positions
<1>3. TypeOK
  BY <1>1, <1>2 DEF Init, TypeOK, RunnerTypeOK
<1>4. \A h \in Threads : /\ ThreadOK(thread[h], Wanted, ended)
                         /\ \A n \in Runs : ~ Has(thread[h], n)
  <2>1. \A q \in {NoThread, NewThread} : /\ ThreadOK(q, Wanted, ended)
                                         /\ \A n \in Runs : ~ Has(q, n)
    BY BlankThreads, Blank
  <2> QED
    BY <1>2, <2>1, Zenon
<1>5. \A h \in Threads : ~ Busy(h) /\ (InArray(h) <=> h \in Positions)
  BY <1>1, <1>2 DEF Busy, InArray
<1>6. OwnRuns /\ OneThread
  BY <1>4, Zenon DEF OwnRuns, OneThread
<1>7. Timers /\ OneSlot /\ Started /\ StartedInSlot /\ HeardWanted
  BY <1>1, <1>2, <1>5 DEF Timers, OneSlot, Started, StartedInSlot, HeardWanted
<1>8. Places
  BY <1>1, <1>2, <1>5 DEF Places
<1>9. PoolKeepsSize /\ Dooms /\ OutcomeIsOwn
  BY <1>1, <1>2 DEF PoolKeepsSize, Dooms, OutcomeIsOwn
<1>10. Enough
  <2>1. Failing = {} /\ Leaving = {}
    BY <1>1, <1>2 DEF Failing, Leaving
  <2>2. /\ Cardinality(Failing) = 0 /\ Cardinality(Leaving) = 0
        /\ Cardinality(Unused) \in Nat
    BY <1>3, <2>1, FewerThreads, Typed
  <2> QED
    BY <2>2 DEF Enough
<1> QED
  BY <1>3, <1>4, <1>6, <1>7, <1>8, <1>9, <1>10 DEF PoolInv

LEMMA PoolInvKept == PoolInv /\ [Next]_vars => PoolInv'
<1> SUFFICES ASSUME PoolInv, [Next]_vars PROVE PoolInv'
  OBVIOUS
<1>1. ASSUME NEW n \in Runs, Run(n) PROVE PoolInv'
  BY <1>1, RunKeeps
<1>2. ASSUME NEW t \in Tasks, Cancel(t) PROVE PoolInv'
  BY <1>2, CancelKeeps
<1>3. ASSUME NEW h \in Threads, Proceed(h) PROVE PoolInv'
  <2>1. CASE Work(h) /\ UNCHANGED <<poolVars, wanted>>
    BY <2>1, ReceiveCancelKeeps, ExecuteKeeps, ReportKeeps DEF Work
  <2>2. CASE Stop(h) /\ UNCHANGED <<poolVars, wanted>>
    BY <2>2, StopKeeps
  <2>3. CASE Event(h)
    BY <2>3, OnMessageKeeps, OnErrorKeeps, OnExitExpectedKeeps, OnExitKeeps DEF Event
  <2>4. CASE GraceOver(h)
    BY <2>4, GraceOverKeeps
  <2> QED
    BY <1>3, <2>1, <2>2, <2>3, <2>4 DEF Proceed
<1>4. ASSUME NEW h \in Threads, KillBusy(h) \/ Fail(h) PROVE PoolInv'
  BY <1>4, KillBusyKeeps, FailKeeps
<1>5. CASE Shutdown
  BY <1>5, ShutdownKeeps
<1>6. CASE UNCHANGED vars
  <2>1. /\ thread' = thread /\ ended' = ended /\ slots' = slots /\ slot' = slot
        /\ shuttingDown' = shuttingDown /\ outcome' = outcome /\ wanted' = wanted
    BY <1>6 DEF vars, runnerVars, poolVars
  <2> QED
    BY <2>1 DEF PoolInv, TypeOK, RunnerTypeOK, Wanted, OwnRuns, OneThread, Timers, OneSlot,
                Started, StartedInSlot, HeardWanted, Places, PoolKeepsSize, Dooms, Enough,
                OutcomeIsOwn, InArray, Busy, Unused, Failing, Leaving
<1> QED
  BY <1>1, <1>2, <1>3, <1>4, <1>5, <1>6 DEF Next

-----------------------------------------------------------------------------
(* The pool as slots.                                                      *)

SlotsStep == [Contract!Next]_(Contract!vars)

\* The run and the timer of place p.
GivenAt(p) == slot[slots[p]].task
AskedAt(p) == slot[slots[p]].timer # NoTask

LEMMA NothingSeen ==
    ASSUME \A p \in Positions : GivenAt(p)' = GivenAt(p) /\ (AskedAt(p)' <=> AskedAt(p)),
           outcome' = outcome
    PROVE  SlotsStep
  BY DEF SlotsStep, Contract!vars, GivenAt, AskedAt

LEMMA SettledOnce ==
    ASSUME PoolInv, NEW h \in Threads, NEW o \in Outcomes, outcome' = Told(h, o),
           Busy(h) /\ o = "cancelled" => slot[h].timer # NoTask,
           \A p \in Positions : IF slots[p] = h
             THEN GivenAt(p)' = Nothing /\ ~ AskedAt(p)'
             ELSE GivenAt(p)' = GivenAt(p) /\ (AskedAt(p)' <=> AskedAt(p))
    PROVE  SlotsStep
<1>1. Places /\ Timers /\ TypeOK
  BY DEF PoolInv
<1>2. CASE Busy(h)
  <2>1. PICK p \in Positions : slots[p] = h
    BY <1>1, <1>2 DEF Places, InArray
  <2>2. /\ GivenAt(p) # Nothing /\ (o = "cancelled" => AskedAt(p))
        /\ outcome' = [outcome EXCEPT ![GivenAt(p)] = o]
    BY <1>2, <2>1 DEF GivenAt, AskedAt, Busy, Told
  <2>3. \A p1 \in Positions : p1 # p => slots[p1] # h
    BY <1>1, <2>1, Zenon DEF Places
  <2>4. /\ GivenAt(p)' = Nothing /\ ~ AskedAt(p)'
        /\ \A p1 \in Positions : p1 # p =>
             GivenAt(p1)' = GivenAt(p1) /\ (AskedAt(p1)' <=> AskedAt(p1))
    BY <2>1, <2>3
  <2>5. Contract!Settle(p, o)
    BY <2>2, <2>4 DEF Contract!Settle, GivenAt, AskedAt, Nothing
  <2> QED
    BY <2>5 DEF SlotsStep, Contract!Next, Outcomes, Contract!Outcomes
<1>3. CASE ~ Busy(h)
  <2>1. \A p \in Positions : slots[p] = h => GivenAt(p) = Nothing /\ ~ AskedAt(p)
    BY <1>1, <1>3, Typed DEF GivenAt, AskedAt, Busy, Timers
  <2> QED
    BY <1>3, <2>1, NothingSeen DEF Told
<1> QED
  BY <1>2, <1>3

LEMMA RunSeen ==
    ASSUME PoolInv, NEW n \in Runs, Run(n)
    PROVE  SlotsStep
<1>1. Places /\ TypeOK
  BY DEF PoolInv
<1>2. PICK p \in Positions : p = Min(FreePlaces) /\ ~ Busy(slots[p]) /\ slots[p] \in Threads
  <2>0. FreePlaces # {}
    BY Zenon DEF Run
  <2>1. FreePlaces \subseteq Nat
    BY SizeAssumption DEF FreePlaces, Positions
  <2>2. Min(FreePlaces) \in FreePlaces
    BY <2>0, <2>1, FirstOne, Zenon
  <2> QED
    BY <1>1, <2>2, Typed DEF FreePlaces
<1>3. /\ outcome[n] = "new" /\ slots' = slots
      /\ outcome' = [outcome EXCEPT ![n] = "running"]
      /\ slot' = [slot EXCEPT ![slots[p]].task = n, ![slots[p]].terminating = FALSE]
  BY <1>2 DEF Run
<1>4. /\ GivenAt(p) = Nothing /\ GivenAt(p)' = n /\ (AskedAt(p)' <=> AskedAt(p))
      /\ \A p1 \in Positions : p1 # p =>
           GivenAt(p1)' = GivenAt(p1) /\ (AskedAt(p1)' <=> AskedAt(p1))
  <2>1. slot[slots[p]] \in Slot /\ slot \in [Threads -> Slot]
    BY <1>1, <1>2, Typed
  <2>2. /\ slot'[slots[p]].task = n /\ slot'[slots[p]].timer = slot[slots[p]].timer
        /\ \A h \in Threads : h # slots[p] => slot'[h] = slot[h]
    BY <1>2, <1>3, <2>1 DEF Slot
  <2>3. \A p1 \in Positions : slots[p1] \in Threads /\ (p1 # p => slots[p1] # slots[p])
    BY <1>1, Typed DEF Places
  <2> QED
    BY <1>2, <1>3, <2>2, <2>3 DEF GivenAt, AskedAt, Busy
<1>5. Contract!Run(p, n)
  BY <1>3, <1>4 DEF Contract!Run, GivenAt, AskedAt, Nothing
<1> QED
  BY <1>5 DEF SlotsStep, Contract!Next

LEMMA CancelSeen ==
    ASSUME PoolInv, NEW t \in Tasks, Cancel(t)
    PROVE  SlotsStep
<1>1. Places /\ TypeOK /\ t # NoTask
  BY TaskOfAssumption DEF PoolInv
<1>2. PICK p \in Positions : /\ p = Min(PlacesOf(t)) /\ slots[p] \in Threads
                             /\ slot[slots[p]].task \in Runs
  <2>0. PlacesOf(t) # {}
    BY Zenon DEF Cancel
  <2>1. PlacesOf(t) \subseteq Nat
    BY SizeAssumption DEF PlacesOf, Positions
  <2>2. Min(PlacesOf(t)) \in PlacesOf(t)
    BY <2>0, <2>1, FirstOne, Zenon
  <2> QED
    BY <1>1, <2>2, Typed DEF PlacesOf, RunsOf
<1>3. /\ slots' = slots /\ outcome' = outcome
      /\ slot' = [slot EXCEPT ![slots[p]].timer = t]
  <2>1. slot' = [slot EXCEPT ![slots[Min(PlacesOf(t))]].timer = t]
    BY Zenon DEF Cancel
  <2>2. slots' = slots /\ outcome' = outcome
    <3>1. UNCHANGED <<ended, slots, shuttingDown, outcome>>
      BY Zenon DEF Cancel
    <3> QED
      BY <3>1
  <2> QED
    BY <1>2, <2>1, <2>2, Zenon
<1>4. /\ GivenAt(p) # Nothing /\ GivenAt(p)' = GivenAt(p) /\ AskedAt(p)'
      /\ \A p1 \in Positions : p1 # p =>
           GivenAt(p1)' = GivenAt(p1) /\ (AskedAt(p1)' <=> AskedAt(p1))
  <2>1. slot[slots[p]] \in Slot /\ slot \in [Threads -> Slot]
    BY <1>1, <1>2, Typed
  <2>2. /\ slot'[slots[p]].task = slot[slots[p]].task /\ slot'[slots[p]].timer = t
        /\ \A h \in Threads : h # slots[p] => slot'[h] = slot[h]
    BY <1>2, <1>3, <2>1 DEF Slot
  <2>3. \A p1 \in Positions : slots[p1] \in Threads /\ (p1 # p => slots[p1] # slots[p])
    BY <1>1, Typed DEF Places
  <2> QED
    BY <1>1, <1>2, <1>3, <2>2, <2>3, NoRunIsNothing DEF GivenAt, AskedAt
<1>5. Contract!Ask(p)
  BY <1>3, <1>4 DEF Contract!Ask, GivenAt, AskedAt, Nothing
<1> QED
  BY <1>5 DEF SlotsStep, Contract!Next

\* One that keeps the array frees the slot of h or leaves it.
LEMMA FreedSeen ==
    ASSUME PoolInv, NEW h \in Threads, NEW o \in Outcomes, NEW x \in Slot,
           x.task = slot[h].task, x.timer = slot[h].timer,
           slots' = slots, slot' = [slot EXCEPT ![h] = Freed(x)], outcome' = Told(h, o),
           Busy(h) /\ o = "cancelled" => slot[h].timer # NoTask
    PROVE  SlotsStep
<1>1. TypeOK /\ Timers
  BY DEF PoolInv
<1>2. x.task = Nothing => x.timer = NoTask
  BY <1>1, Zenon DEF Timers, Busy
<1>3. Freed(x).task = Nothing /\ Freed(x).timer = NoTask
  BY <1>2, FreedSlot
<1>4. slot'[h] = Freed(x) /\ \A g \in Threads : g # h => slot'[g] = slot[g]
  BY <1>1, Typed
<1>5. \A p \in Positions : IF slots[p] = h
        THEN GivenAt(p)' = Nothing /\ ~ AskedAt(p)'
        ELSE GivenAt(p)' = GivenAt(p) /\ (AskedAt(p)' <=> AskedAt(p))
  BY <1>1, <1>3, <1>4, Typed DEF GivenAt, AskedAt
<1> QED
  BY <1>5, SettledOnce

\* The place of h is free again, with another thread.
LEMMA ReplacedSeen ==
    ASSUME PoolInv, NEW h \in Threads, NEW o \in Outcomes, NEW x \in Slot, NEW q \in Thread,
           SettleAndReplace(h, o, x, q), h \in Failing \/ h \in Leaving,
           thread[h].state # "none",
           Busy(h) /\ o = "cancelled" => slot[h].timer # NoTask
    PROVE  SlotsStep
<1>1. TypeOK /\ Timers /\ Places /\ Enough
  BY DEF PoolInv
<1>2. ~ shuttingDown /\ outcome' = Told(h, o)
  BY DEF SettleAndReplace
<1>3. Unused # {} /\ Unused \subseteq Threads
  BY <1>1, <1>2, EnoughForOne, Typed DEF Enough
<1>4. PICK g \in Unused : \A p \in Positions :
        slots'[p] = IF slots[p] = h THEN g ELSE slots[p]
  <2>0. Unused \subseteq Nat
    BY <1>3, ThreadsAssumption, Zenon
  <2>1. Min(Unused) \in Unused
    BY <1>3, <2>0, FirstOne, Zenon
  <2> QED
    BY <2>1 DEF SettleAndReplace, TakePlace
<1>5. g # h /\ g \in Threads /\ slot[g] = NewSlot
  BY <1>1, <1>3 DEF Places, Unused
<1>6. \A f \in Threads : f # h => slot'[f] = slot[f]
  BY <1>1, Typed DEF SettleAndReplace
<1>7. \A p \in Positions : IF slots[p] = h
        THEN GivenAt(p)' = Nothing /\ ~ AskedAt(p)'
        ELSE GivenAt(p)' = GivenAt(p) /\ (AskedAt(p)' <=> AskedAt(p))
  BY <1>1, <1>4, <1>5, <1>6, Typed DEF GivenAt, AskedAt, NewSlot
<1> QED
  BY <1>2, <1>7, SettledOnce

LEMMA EventSeen ==
    ASSUME PoolInv, NEW h \in Threads, Event(h) \/ GraceOver(h)
    PROVE  SlotsStep
<1>1. /\ thread[h] \in Thread /\ slot[h] \in Slot /\ ThreadOK(thread[h], Wanted, ended)
      /\ TypeOK /\ Places /\ Timers /\ Dooms /\ OwnRuns /\ HeardWanted
  BY Typed DEF PoolInv
<1>2. "crashed" \in Outcomes /\ "cancelled" \in Outcomes /\ "crashed" # "cancelled"
  BY DEF Outcomes
<1>3. CASE OnMessage(h)
  <2> DEFINE m == Head(thread[h].outbox)
             o == OutcomeOf(m.type)
  <2>1. thread[h].outbox # <<>> /\ slots' = slots
    BY <1>3 DEF OnMessage
  <2>2. m \in Messages /\ Has(thread[h], m.run) /\ ended[m.run] = m.type
    BY <1>1, <2>1, ReadMessage
  <2>3. m.run \in Runs /\ m.type \in FinalMessages
    BY <2>2 DEF Messages
  <2>4. o \in Outcomes /\ (o = "cancelled" => m.type = "cancelled")
    BY <2>3 DEF OutcomeOf, Outcomes, FinalMessages
  <2>5. CASE Concerns(h, m.run)
    <3>1. slot' = [slot EXCEPT ![h] = Freed(slot[h])] /\ outcome' = Told(h, o) /\ Busy(h)
      BY <1>3, <2>5 DEF OnMessage, Settle, Concerns
    <3>2. slot[h].task = m.run
      BY <1>1, <2>2, <2>3, <3>1, Zenon DEF OwnRuns
    <3>3. o = "cancelled" => slot[h].timer # NoTask
      BY <1>1, <2>2, <2>3, <2>4, <3>1, <3>2, Zenon DEF HeardWanted, Timers
    <3> HIDE DEF o
    <3> QED
      BY <1>1, <2>1, <2>4, <3>1, <3>3, FreedSeen
  <2>6. CASE ~ Concerns(h, m.run)
    <3>1. slot' = slot /\ outcome' = outcome
      BY <1>3, <2>6 DEF OnMessage
    <3> QED
      BY <2>1, <3>1, NothingSeen DEF GivenAt, AskedAt
  <2> QED
    BY <2>5, <2>6
<1>4. CASE OnError(h)
  <2> DEFINE x == [slot[h] EXCEPT !.fault = FALSE]
  <2>1. x \in Slot /\ x.task = slot[h].task /\ x.timer = slot[h].timer
    BY <1>1 DEF Slot
  <2>2. h \in Failing /\ thread[h].state # "none"
    BY <1>1, <1>4 DEF OnError, Failing, Places, NewSlot
  <2>3. \/ SettleAndReplace(h, "crashed", x, thread[h])
        \/ SettleOnly(h, "crashed", x)
    BY <1>4 DEF OnError
  <2> HIDE DEF x
  <2>4. CASE SettleAndReplace(h, "crashed", x, thread[h])
    BY <1>1, <1>2, <2>1, <2>2, <2>4, ReplacedSeen
  <2>5. CASE SettleOnly(h, "crashed", x)
    <3>1. /\ slots' = slots /\ slot' = [slot EXCEPT ![h] = Freed(x)]
          /\ outcome' = Told(h, "crashed")
      BY <2>5 DEF SettleOnly
    <3> QED
      BY <1>2, <2>1, <3>1, FreedSeen
  <2> QED
    BY <2>3, <2>4, <2>5
<1>5. CASE OnExitExpected(h)
  BY <1>5, NothingSeen DEF OnExitExpected, poolVars, GivenAt, AskedAt
<1>6. CASE OnExit(h)
  <2>1. /\ SettleAndReplace(h, "crashed", slot[h], GoneThread) /\ ~ shuttingDown
        /\ thread[h].state = "down" /\ ~ slot[h].fault /\ ~ slot[h].terminating
    BY <1>6 DEF OnExit, SettleAndReplace
  <2>2. h \in Leaving
    BY <1>1, <2>1 DEF Leaving, Dooms
  <2> QED
    BY <1>1, <1>2, <2>1, <2>2, BlankThreads, ReplacedSeen
<1>7. CASE GraceOver(h)
  <2>1. /\ slot[h].timer # NoTask
        /\ \/ SettleAndReplace(h, "cancelled", slot[h], thread[h])
           \/ SettleOnly(h, "cancelled", slot[h])
    BY <1>7 DEF GraceOver
  <2>2. thread[h].state # "none" /\ Busy(h) /\ h \in Leaving
    BY <1>1, <2>1 DEF Places, NewSlot, Timers, Leaving
  <2>3. CASE SettleAndReplace(h, "cancelled", slot[h], thread[h])
    BY <1>1, <1>2, <2>1, <2>2, <2>3, ReplacedSeen
  <2>4. CASE SettleOnly(h, "cancelled", slot[h])
    <3>1. /\ slots' = slots /\ slot' = [slot EXCEPT ![h] = Freed(slot[h])]
          /\ outcome' = Told(h, "cancelled")
      BY <2>4 DEF SettleOnly
    <3> QED
      BY <1>1, <1>2, <2>1, <3>1, FreedSeen
  <2> QED
    BY <2>1, <2>3, <2>4
<1> QED
  BY <1>3, <1>4, <1>5, <1>6, <1>7 DEF Event

LEMMA StepSeen == PoolInv /\ [Next]_vars => SlotsStep
<1> SUFFICES ASSUME PoolInv, [Next]_vars PROVE SlotsStep
  OBVIOUS
<1>1. TypeOK
  BY DEF PoolInv
<1>2. ASSUME slots' = slots, slot' = slot, outcome' = outcome PROVE SlotsStep
  BY <1>2, NothingSeen DEF GivenAt, AskedAt
<1>3. ASSUME NEW h \in Threads, Proceed(h) PROVE SlotsStep
  BY <1>2, <1>3, EventSeen DEF Proceed, poolVars
<1>4. ASSUME NEW h \in Threads, KillBusy(h) PROVE SlotsStep
  BY <1>2, <1>4 DEF KillBusy, poolVars
<1>5. ASSUME NEW h \in Threads, Fail(h) PROVE SlotsStep
  <2>1. \A g \in Threads : slot'[g].task = slot[g].task /\ slot'[g].timer = slot[g].timer
    <3>1. slot[h] \in Slot /\ slot \in [Threads -> Slot] /\ slot' = [slot EXCEPT ![h].fault = TRUE]
      BY <1>1, <1>5, Typed DEF Fail
    <3> QED
      BY <3>1 DEF Slot
  <2>2. slots' = slots /\ outcome' = outcome
    BY <1>5 DEF Fail
  <2> QED
    BY <1>1, <2>1, <2>2, NothingSeen, Typed DEF GivenAt, AskedAt
<1>6. CASE Shutdown
  BY <1>2, <1>6 DEF Shutdown
<1>7. CASE UNCHANGED vars
  BY <1>2, <1>7 DEF vars, poolVars
<1> QED
  BY <1>3, <1>4, <1>5, <1>6, <1>7, RunSeen, CancelSeen DEF Next

-----------------------------------------------------------------------------
(* What holds in every run of the pool, whatever its size and that of its  *)
(* reserve of threads, whoever cancels, whatever is killed, fails or is    *)
(* shut down, and in whatever order threads and events come.               *)

\* The invariant all that follows is read off.
LEMMA PoolSafe == Spec => []PoolInv
  BY PoolInvHolds, PoolInvKept, PTL DEF Spec

(* The state of the pool stays within its types.                           *)
THEOREM PoolTyped == Spec => []TypeOK
<1>1. PoolInv => TypeOK
  BY DEF PoolInv
<1> QED
  BY <1>1, PoolSafe, PTL

(* The pool keeps its size: no place of the array is lost to a thread that *)
(* is gone, or is on its way out with nobody to act on its exit.           *)
THEOREM PoolSizeKept == Spec => []PoolKeepsSize
<1>1. PoolInv => PoolKeepsSize
  BY DEF PoolInv
<1> QED
  BY <1>1, PoolSafe, PTL

(* A thread is never given a run while another is with it, so the one flag *)
(* of the thread is always about the run at work.                          *)
THEOREM OneRunAtATime == Spec => []OneRunPerThread
<1>1. ASSUME PoolInv PROVE OneRunPerThread
  <2>1. ASSUME NEW h \in Threads, NEW i \in DOMAIN thread[h].inbox,
               thread[h].inbox[i].type = "run"
        PROVE  /\ Cardinality({j \in DOMAIN thread[h].inbox :
                                 thread[h].inbox[j].type = "run"}) = 1
               /\ thread[h].executing = Nothing
    <3>1. thread[h] \in Thread /\ Orderly(thread[h])
      BY <1>1, Typed DEF PoolInv, ThreadOK
    <3>2. DOMAIN thread[h].inbox \subseteq Nat
      BY <3>1, ThreadTyped
    <3>3. RunAt(thread[h], i)
      BY <2>1 DEF RunAt
    <3>4. {j \in DOMAIN thread[h].inbox : thread[h].inbox[j].type = "run"} = {i}
      BY <2>1, <3>1, <3>2, <3>3 DEF Orderly, RunAt
    <3>5. thread[h].executing = Nothing
      BY <3>1, <3>2, <3>3, Zenon DEF Orderly
    <3> QED
      BY <3>4, <3>5, FS_Singleton
  <2> QED
    BY <2>1 DEF OneRunPerThread
<1> QED
  BY <1>1, PoolSafe, PTL

(* What is told of a run is what its thread said of it, and a run is told  *)
(* cancelled only if somebody wanted that run to stop, however late stop   *)
(* requests, messages and timers come.                                     *)
THEOREM OutcomesOwn == Spec => []OutcomeIsOwn
<1>1. PoolInv => OutcomeIsOwn
  BY DEF PoolInv
<1> QED
  BY <1>1, PoolSafe, PTL

(* The pool is the slots TaskEngine takes it for: each run is settled once *)
(* and from its own slot, and none is cancelled that was not asked to.     *)
THEOREM SlotsImplemented == Spec => ImplementsPoolSlots
<1>1. Init => Contract!Init
  <2> SUFFICES ASSUME Init PROVE Contract!Init
    OBVIOUS
  <2>1. \A p \in Positions : slot[slots[p]] = NewSlot
    BY SizeAssumption DEF Init, Positions
  <2>2. NewSlot.task = 0 /\ NewSlot.timer = NoTask
    BY DEF NewSlot, Nothing
  <2>3. \A p \in Positions : GivenAt(p) = 0 /\ ~ AskedAt(p)
    BY <2>1, <2>2 DEF GivenAt, AskedAt
  <2>4. outcome = [n \in Runs |-> "new"]
    BY DEF Init
  <2> QED
    BY <2>3, <2>4 DEF Contract!Init, GivenAt, AskedAt
<1>2. PoolInv /\ [Next]_vars => [Contract!Next]_(Contract!vars)
  BY StepSeen DEF SlotsStep
<1> QED
  BY <1>1, <1>2, PoolInvHolds, PoolInvKept, PTL
     DEF Spec, ImplementsPoolSlots, Contract!Spec

=============================================================================

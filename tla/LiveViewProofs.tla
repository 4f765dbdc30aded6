---------------------------- MODULE LiveViewProofs ----------------------------
(***************************************************************************)
(* That the browser catches up with the rows, for any number of tasks,     *)
(* handlers, fetches, moves and troubles.                                  *)
(*                                                                         *)
(* The picture is right in the end because of what is still to come: who   *)
(* moved a row publishes it, whatever was published before the stream      *)
(* opened is in the snapshot, and no progress of an attempt is shown for   *)
(* good after the attempt has ended, because its end comes behind it.      *)
(***************************************************************************)
EXTENDS LiveView, FiniteSetTheorems, SequenceTheorems, WellFoundedInduction, TLAPS

-----------------------------------------------------------------------------
(* Events under way, st, a sequence of events.                             *)

IsTask(e, t) == e.type = "task" /\ e.task = t

\* An event with the row of t as of m is under way; some event with its row is.
Carries(st, t, m) == \E k \in DOMAIN st : IsTask(st[k], t) /\ st[k].shown.moved = m
Announces(st, t) == \E k \in DOMAIN st : IsTask(st[k], t)

\* Behind each progress of t comes its row.
Covered(st, t) ==
    \A j \in DOMAIN st : st[j].type = "progress" /\ st[j].task = t =>
        \E k \in DOMAIN st : j < k /\ IsTask(st[k], t)

\* What handler r will publish is the row of t as of m; r is to settle t.
Tells(r, t, m) ==
    \/ r.stage = "moved" /\ r.task = t
    \/ r.stage \in {"read", "cleared"} /\ r.task = t /\ r.shown.moved = m
Settles(r, t) == r.stage # "idle" /\ r.way = "settled" /\ r.task = t

-----------------------------------------------------------------------------
(* What is published, fetched or shown was so.                             *)

Right(s) == (s.status = "queued" => s.progress = 0)
            /\ (s.status = "completed" => s.progress = 100)

\* s is t as of some move of it; it may leave out that t has ended.
Fits(s, t) ==
    /\ s.moved <= moved[t]
    /\ s.moved = moved[t] =>
         s.status = status[t] \/ (s.status = "absent" /\ status[t] \in Terminal)

Published(s, t) == Fits(s, t) /\ Right(s) /\ s.status # "absent"

SnapshotTrue(rows) == \A t \in Tasks : Fits(rows[t], t) /\ Right(rows[t])

HandlerTrue(r) ==
    r.stage # "idle" => /\ status[r.task] # "absent"
                        /\ r.stage # "moved" => Published(r.shown, r.task)

EventTrue(e) == e.type = "task" => Published(e.shown, e.task)

ViewTrue == \A t \in Tasks : Fits(view[t], t)
SnapshotsTrue == \A h \in Hydrations : SnapshotTrue(hydration[h].rows)
HandlersTrue == \A i \in Handlers : HandlerTrue(handler[i])
StreamTrue == \A k \in DOMAIN stream : EventTrue(stream[k])

-----------------------------------------------------------------------------
(* What is still to come.                                                  *)

\* The row of t as it is: somebody will publish it, or has.
Due(t) ==
    \/ \E i \in Handlers : Tells(handler[i], t, moved[t])
    \/ Carries(stream, t, moved[t])

Settling(t) == \E i \in Handlers : Settles(handler[i], t)

Coming(t) == Settling(t) \/ Announces(stream, t)

Known(t) == view[t].moved = moved[t] \/ Due(t)

\* After a snapshot the browser shows t as it is, or will.
Followed(t) == connected /\ hydrated => Known(t)

\* A snapshot has t as it is, or the browser does not need it.
Fetched(t) ==
    \A h \in Hydrations :
        /\ connected /\ hydration[h].fresh
        /\ hydration[h].stage \in {"active", "answered"}
        => hydration[h].rows[t].moved = moved[t] \/ Known(t)

\* A progress shown of an attempt that has ended will be replaced.
Corrected(t) ==
    connected /\ hydrated /\ view[t].moved = moved[t] => Right(view[t]) \/ Coming(t)

\* A progress is published before its attempt is settled, so that ...
InTime(t) ==
    status[t] \notin Held /\ reports[t] # 0 =>
        \E i \in Handlers : Settles(handler[i], t) /\ handler[i].stage # "cleared"

\* ... the end of the attempt comes behind it.
Behind(t) == status[t] \notin Held => Covered(stream, t) \/ Settling(t)

FollowUp(t) ==
    Followed(t) /\ Fetched(t) /\ Corrected(t) /\ InTime(t) /\ Behind(t)

ViewInv ==
    /\ TypeOK
    /\ ViewTrue /\ SnapshotsTrue /\ HandlersTrue /\ StreamTrue
    /\ \A t \in Tasks : excuse[t] = "none" => FollowUp(t)

-----------------------------------------------------------------------------
(* Numbers, and events under way.                                          *)

LEMMA LeastIn ==
    ASSUME NEW A, A \subseteq Nat, A # {}
    PROVE  \E m \in A : \A n \in A : m <= n
<1>1. PICK m \in A : \A n \in A : ~ (<<n, m>> \in OpToRel(<, Nat))
  BY WFMin, NatLessThanWellFounded
<1>2. ASSUME NEW n \in A
      PROVE  m <= n
  <2>1. m \in Nat /\ n \in Nat
    OBVIOUS
  <2>2. n < m => <<n, m>> \in OpToRel(<, Nat)
    BY <2>1, Zenon DEF OpToRel
  <2>3. ~ (n < m)
    BY <1>1, <2>2, Zenon
  <2> QED
    BY <2>1, <2>3
<1> QED
  BY <1>2

LEMMA MinIsIn ==
    ASSUME NEW A, A \subseteq Nat, A # {}
    PROVE  Min(A) \in A
  BY LeastIn, Zenon DEF Min

\* Among stamps of which none is above b there is a latest.
LEMMA LatestIn ==
    ASSUME NEW S, S # {}, NEW b \in Nat, NEW age, \A x \in S : age[x] \in 0 .. b
    PROVE  \E x \in S : \A y \in S : age[y] <= age[x]
<1> DEFINE A == {b - age[x] : x \in S}
<1>1. A \subseteq Nat /\ A # {}
  OBVIOUS
<1>2. PICK m \in A : \A n \in A : m <= n
  BY <1>1, LeastIn
<1>3. PICK x \in S : m = b - age[x]
  OBVIOUS
<1>4. \A y \in S : b - age[x] <= b - age[y]
  BY <1>2, <1>3
<1> QED
  BY <1>3, <1>4

LEMMA EventsTyped ==
    ASSUME NEW st \in Seq(Event)
    PROVE  /\ DOMAIN st = 1 .. Len(st) /\ Len(st) \in Nat
           /\ \A k \in DOMAIN st : st[k] \in Event
  BY LenProperties, ElementOfSeq

\* A new event changes nothing of the others; one with a row covers what is before it.
LEMMA AppendEvent ==
    ASSUME NEW st \in Seq(Event), NEW e \in Event
    PROVE  /\ Append(st, e) \in Seq(Event)
           /\ \A k \in DOMAIN Append(st, e) :
                Append(st, e)[k] = e \/ (k \in DOMAIN st /\ Append(st, e)[k] = st[k])
           /\ \A t, m : Carries(st, t, m) => Carries(Append(st, e), t, m)
           /\ \A t : Announces(st, t) => Announces(Append(st, e), t)
           /\ \A t : IsTask(e, t) => /\ Carries(Append(st, e), t, e.shown.moved)
                                     /\ Announces(Append(st, e), t)
                                     /\ Covered(Append(st, e), t)
           /\ \A t : e.task # t /\ Covered(st, t) => Covered(Append(st, e), t)
<1> DEFINE r == Append(st, e)
           n == Len(st) + 1
<1>1. /\ r \in Seq(Event) /\ DOMAIN r = 1 .. n /\ n \in Nat /\ n \in DOMAIN r /\ r[n] = e
      /\ DOMAIN st = 1 .. n - 1
      /\ \A k \in DOMAIN st : k \in DOMAIN r /\ r[k] = st[k] /\ k < n
      /\ \A k \in DOMAIN r : k = n \/ k \in DOMAIN st
  BY AppendProperties, EventsTyped, LenProperties
<1> HIDE DEF r, n
<1>2. \A k \in DOMAIN r : r[k] = e \/ (k \in DOMAIN st /\ r[k] = st[k])
  BY <1>1, Zenon
<1>3. \A t, m : Carries(st, t, m) => Carries(r, t, m)
  BY <1>1, Zenon DEF Carries
<1>4. \A t : Announces(st, t) => Announces(r, t)
  BY <1>1, Zenon DEF Announces
<1>5. ASSUME NEW t, IsTask(e, t)
      PROVE  Carries(r, t, e.shown.moved) /\ Announces(r, t) /\ Covered(r, t)
  <2>1. Carries(r, t, e.shown.moved) /\ Announces(r, t)
    BY <1>1, <1>5, Zenon DEF Carries, Announces
  <2>2. ASSUME NEW j \in DOMAIN r, r[j].type = "progress"
        PROVE  j < n /\ n \in DOMAIN r /\ IsTask(r[n], t)
    <3>1. j # n
      BY <1>1, <1>5, <2>2 DEF IsTask
    <3> QED
      BY <1>1, <1>5, <3>1, Zenon
  <2> QED
    BY <2>1, <2>2, Zenon DEF Covered
<1>6. ASSUME NEW t, e.task # t, Covered(st, t)
      PROVE  Covered(r, t)
  <2>1. ASSUME NEW j \in DOMAIN r, r[j].type = "progress", r[j].task = t
        PROVE  \E k \in DOMAIN r : j < k /\ IsTask(r[k], t)
    <3>1. j \in DOMAIN st /\ st[j].type = "progress" /\ st[j].task = t
      BY <1>1, <1>6, <2>1, Zenon
    <3>2. PICK k \in DOMAIN st : j < k /\ IsTask(st[k], t)
      BY <1>6, <3>1, Zenon DEF Covered
    <3> QED
      BY <1>1, <3>2, Zenon
  <2> QED
    BY <2>1, Zenon DEF Covered
<1> QED
  <2>1. \A t : IsTask(e, t) => /\ Carries(r, t, e.shown.moved)
                               /\ Announces(r, t) /\ Covered(r, t)
    BY <1>5, Zenon
  <2>2. \A t : e.task # t /\ Covered(st, t) => Covered(r, t)
    BY <1>6, Zenon
  <2>3. r \in Seq(Event)
    BY <1>1
  <2> QED
    BY <1>2, <1>3, <1>4, <2>1, <2>2, <2>3, Zenon DEF r

\* What is lost of the events when the first is applied.
LEMMA TailEvent ==
    ASSUME NEW st \in Seq(Event), st # <<>>
    PROVE  /\ Head(st) \in Event /\ Tail(st) \in Seq(Event)
           /\ 1 \in DOMAIN st /\ Head(st) = st[1]
           /\ \A k \in DOMAIN Tail(st) : \E j \in DOMAIN st : Tail(st)[k] = st[j]
           /\ \A t, m : Carries(st, t, m) =>
                Carries(Tail(st), t, m) \/ (IsTask(Head(st), t) /\ Head(st).shown.moved = m)
           /\ \A t : Announces(st, t) => Announces(Tail(st), t) \/ IsTask(Head(st), t)
           /\ \A t : Covered(st, t) => Covered(Tail(st), t)
           /\ \A t : Covered(st, t) /\ Head(st).type = "progress" /\ Head(st).task = t =>
                Announces(Tail(st), t)
<1> DEFINE r == Tail(st)
           n == Len(st)
<1>1. /\ n \in Nat /\ n # 0 /\ DOMAIN st = 1 .. n
      /\ Head(st) \in Event /\ r \in Seq(Event) /\ Head(st) = st[1]
      /\ DOMAIN r = 1 .. n - 1 /\ \A k \in 1 .. n - 1 : r[k] = st[k + 1]
  BY EventsTyped, HeadTailProperties, EmptySeq, LenProperties
<1> HIDE DEF r, n
<1>2. /\ 1 \in DOMAIN st
      /\ \A k \in DOMAIN r : k \in Nat /\ k + 1 \in DOMAIN st /\ r[k] = st[k + 1]
      /\ \A k \in DOMAIN st : k # 1 => k - 1 \in DOMAIN r /\ r[k - 1] = st[k]
      /\ \A k \in DOMAIN st : k \in Nat /\ k >= 1
  <2>1. 1 \in DOMAIN st /\ \A k \in DOMAIN st : k \in Nat /\ k >= 1
    BY <1>1
  <2>2. \A k \in DOMAIN r : k \in Nat /\ k + 1 \in DOMAIN st /\ r[k] = st[k + 1]
    BY <1>1
  <2>3. ASSUME NEW k \in DOMAIN st, k # 1
        PROVE  k - 1 \in DOMAIN r /\ r[k - 1] = st[k]
    <3>1. k - 1 \in DOMAIN r /\ (k - 1) + 1 = k
      BY <1>1, <2>3
    <3>2. r[k - 1] = st[(k - 1) + 1]
      BY <2>2, <3>1, Zenon
    <3> QED
      BY <3>1, <3>2, Zenon
  <2> QED
    BY <2>1, <2>2, <2>3
<1>3. \A t, m : Carries(st, t, m) =>
        Carries(r, t, m) \/ (IsTask(Head(st), t) /\ Head(st).shown.moved = m)
  <2>1. ASSUME NEW t, NEW m, NEW k \in DOMAIN st, IsTask(st[k], t), st[k].shown.moved = m
        PROVE  Carries(r, t, m) \/ (IsTask(Head(st), t) /\ Head(st).shown.moved = m)
    <3>1. CASE k = 1
      BY <1>1, <2>1, <3>1, Zenon
    <3>2. CASE k # 1
      BY <1>2, <2>1, <3>2, Zenon DEF Carries
    <3> QED
      BY <3>1, <3>2, Zenon
  <2> QED
    BY <2>1, Zenon DEF Carries
<1>4. \A t : Announces(st, t) => Announces(r, t) \/ IsTask(Head(st), t)
  <2>1. ASSUME NEW t, NEW k \in DOMAIN st, IsTask(st[k], t)
        PROVE  Announces(r, t) \/ IsTask(Head(st), t)
    <3>1. CASE k = 1
      BY <1>1, <2>1, <3>1, Zenon
    <3>2. CASE k # 1
      BY <1>2, <2>1, <3>2, Zenon DEF Announces
    <3> QED
      BY <3>1, <3>2, Zenon
  <2> QED
    BY <2>1, Zenon DEF Announces
<1>5. ASSUME NEW t, Covered(st, t)
      PROVE  Covered(r, t)
  <2>1. ASSUME NEW j \in DOMAIN r, r[j].type = "progress", r[j].task = t
        PROVE  \E k \in DOMAIN r : j < k /\ IsTask(r[k], t)
    <3>1. j + 1 \in DOMAIN st /\ st[j + 1].type = "progress" /\ st[j + 1].task = t
          /\ j \in Nat
      BY <1>2, <2>1
    <3>2. PICK k \in DOMAIN st : j + 1 < k /\ IsTask(st[k], t)
      BY <1>5, <3>1, Zenon DEF Covered
    <3>3. k # 1 /\ j < k - 1
      BY <1>2, <3>1, <3>2
    <3> QED
      BY <1>2, <3>2, <3>3, Zenon
  <2> QED
    BY <2>1, Zenon DEF Covered
<1>6. ASSUME NEW t, Covered(st, t), Head(st).type = "progress", Head(st).task = t
      PROVE  Announces(r, t)
  <2>1. PICK k \in DOMAIN st : 1 < k /\ IsTask(st[k], t)
    BY <1>1, <1>2, <1>6, Zenon DEF Covered
  <2>2. k # 1
    BY <1>2, <2>1
  <2> QED
    BY <1>2, <2>1, <2>2, Zenon DEF Announces
<1> QED
  BY <1>1, <1>2, <1>3, <1>4, <1>5, <1>6, Zenon DEF r

LEMMA NoEvents ==
    /\ <<>> \in Seq(Event) /\ DOMAIN <<>> = {}
    /\ \A t : Covered(<<>>, t) /\ ~ Announces(<<>>, t)
    /\ \A t, m : ~ Carries(<<>>, t, m)
<1>1. <<>> \in Seq(Event) /\ DOMAIN <<>> = {}
  BY EmptySeq
<1> QED
  BY <1>1, Zenon DEF Covered, Announces, Carries

-----------------------------------------------------------------------------
(* Types.                                                                  *)

Stamps == 0 .. Cardinality(Tasks) + Moves

LEMMA Sizes ==
    /\ Cardinality(Tasks) \in Nat /\ Cardinality(Tasks) >= 1
    /\ Cardinality(Tasks) + Moves \in Nat /\ Moves \in Nat
<1>1. Cardinality(Tasks) \in Nat /\ Cardinality(Tasks) # 0
  BY TasksAssumption, FS_CardinalityType, FS_EmptySet
<1> QED
  BY <1>1, BoundsAssumption

LEMMA StampsTyped ==
    ASSUME TypeOK
    PROVE  /\ clock \in Nat /\ clock >= 1 /\ clock \in Stamps
           /\ \A t \in Tasks : moved[t] \in Nat /\ moved[t] >= 1 /\ moved[t] <= clock
           /\ \A t \in Tasks : moved[t] \in Stamps /\ reports[t] \in Stamps
<1>1. /\ clock \in Nat /\ clock >= 1 /\ clock <= Cardinality(Tasks) + Moves
  BY Sizes DEF TypeOK
<1>2. /\ moved \in [Tasks -> 1 .. clock] /\ reports \in [Tasks -> 0 .. clock]
  BY DEF TypeOK
<1>3. \A t \in Tasks : moved[t] \in 1 .. clock /\ reports[t] \in 0 .. clock
  BY <1>2
<1> QED
  BY <1>1, <1>3, Sizes DEF Stamps

LEMMA ShownTyped ==
    ASSUME NEW s
    PROVE  s \in Shown <=>
             /\ s = [status |-> s.status, moved |-> s.moved, progress |-> s.progress]
             /\ s.status \in Active \cup Terminal \cup {"absent"}
             /\ s.moved \in Stamps /\ s.progress \in Percent
  BY DEF Shown, Stamps

LEMMA ProgressTyped ==
    ASSUME NEW s, NEW p \in Percent
    PROVE  /\ progressFor(s, p) \in Percent
           /\ s = "queued" => progressFor(s, p) = 0
           /\ s = "completed" => progressFor(s, p) = 100
  BY DEF progressFor, Percent

LEMMA CurrentTyped ==
    ASSUME TypeOK, NEW t \in Tasks, NEW p \in Percent
    PROVE  /\ Current(t, p) \in Shown
           /\ Current(t, p).status = status[t] /\ Current(t, p).moved = moved[t]
           /\ Right(Current(t, p)) /\ Fits(Current(t, p), t)
<1>1. status[t] \in Active \cup Terminal \cup {"absent"} /\ moved[t] \in Stamps
  BY StampsTyped DEF TypeOK
<1>2. moved[t] <= moved[t]
  BY StampsTyped
<1> QED
  BY <1>1, <1>2, ProgressTyped DEF Current, Shown, Stamps, Right, Fits

LEMMA LeftOutTyped ==
    ASSUME NEW m \in Stamps
    PROVE  /\ LeftOut(m) \in Shown /\ LeftOut(m).status = "absent"
           /\ LeftOut(m).moved = m /\ Right(LeftOut(m))
  BY DEF LeftOut, Shown, Stamps, Percent, Right

LEMMA NotShownTyped ==
    NotShown \in Shown /\ NotShown.moved = 0 /\ NotShown.status = "absent" /\ Right(NotShown)
  BY LeftOutTyped, Sizes DEF NotShown, Stamps

Begun(t, way) == [stage |-> "moved", way |-> way, task |-> t, shown |-> NotShown]

LEMMA HandlerTyped ==
    ASSUME TypeOK, NEW i \in Handlers, handler[i].stage # "idle"
    PROVE  /\ handler[i] \in Handler /\ handler[i].task \in Tasks
           /\ handler[i].shown \in Shown
  BY DEF TypeOK, Handler, NoHandler

\* Whoever moves a row finds an idle handler.
LEMMA BeginStep ==
    ASSUME NEW t \in Tasks, NEW way \in Ways, Begin(t, way)
    PROVE  /\ Begun(t, way) \in Handler
           /\ \E i \in Handlers : /\ handler[i].stage = "idle"
                                  /\ handler' = [handler EXCEPT ![i] = Begun(t, way)]
<1>1. Begun(t, way) \in Handler
  BY NotShownTyped DEF Begun, Handler
<1>2. Idle # {} /\ Idle \subseteq Nat
  BY NamesAssumption DEF Begin, Idle
<1>3. Min(Idle) \in Idle
  BY <1>2, MinIsIn, Zenon
<1>4. handler' = [handler EXCEPT ![Min(Idle)] = Begun(t, way)]
  BY Zenon DEF Begin, Begun
<1>5. Min(Idle) \in Handlers /\ handler[Min(Idle)].stage = "idle"
  BY <1>3 DEF Idle
<1> QED
  BY <1>1, <1>4, <1>5, Zenon

\* A row that is no longer held was settled.
LEMMA RowStep ==
    ASSUME TypeOK, NEW t \in Tasks, ApiMoves(t) \/ WorkerMoves(t)
    PROVE  /\ attempts' \in [Tasks -> 0 .. MaxAttempts]
           /\ \E way \in Ways, s \in Active \cup Terminal :
                /\ Begin(t, way)
                /\ status' = [status EXCEPT ![t] = s]
                /\ status[t] \in Held /\ s \notin Held => way = "settled"
<1>1. /\ status \in [Tasks -> Active \cup Terminal \cup {"absent"}]
      /\ attempts \in [Tasks -> 0 .. MaxAttempts] /\ MaxAttempts \in Nat
  BY BoundsAssumption DEF TypeOK
<1>2. CASE Row!Submit(t) /\ Begin(t, "created")
  BY <1>1, <1>2 DEF Row!Submit, Row!Move, Ways, Active, Terminal, Held
<1>3. CASE Row!Withdraw(t) /\ Begin(t, "asked")
  BY <1>1, <1>3 DEF Row!Withdraw, Row!Move, Ways, Active, Terminal, Held
<1>4. CASE Row!AskToStop(t) /\ Begin(t, "asked")
  BY <1>1, <1>4 DEF Row!AskToStop, Row!Move, Ways, Active, Terminal, Held
<1>5. CASE Row!Revive(t) /\ Begin(t, "asked")
  BY <1>1, <1>5 DEF Row!Revive, Row!Move, Ways, Active, Terminal, Held
<1>6. CASE Row!Start(t) /\ Begin(t, "claimed")
  <2>1. attempts' \in [Tasks -> 0 .. MaxAttempts]
    BY <1>1, <1>6 DEF Row!Start
  <2> QED
    BY <1>1, <1>6, <2>1 DEF Row!Start, Row!Move, Ways, Active, Terminal, Held
<1>7. CASE Row!End(t) /\ Begin(t, "settled")
  BY <1>1, <1>7 DEF Row!End, Row!Move, Ways, Active, Terminal
<1>8. CASE Row!TryAgain(t) /\ Begin(t, "settled")
  BY <1>1, <1>8 DEF Row!TryAgain, Row!Move, Ways, Active, Terminal
<1>9. CASE Row!GiveUp(t) /\ Begin(t, "settled")
  BY <1>1, <1>9 DEF Row!GiveUp, Row!Move, Ways, Active, Terminal
<1> QED
  BY <1>2, <1>3, <1>4, <1>5, <1>6, <1>7, <1>8, <1>9, Zenon DEF ApiMoves, WorkerMoves

\* An event under way: to the browser, if the api hears it while the stream is open.
LEMMA SendStep ==
    ASSUME TypeOK, NEW e \in Event, Sent(e)
    PROVE  /\ stream' \in Seq(Event) /\ (stream' # <<>> => connected)
           /\ excuse' \in [Tasks -> Excuses] /\ e.task \in Tasks
           /\ stream' = stream \/ (connected /\ stream' = Append(stream, e))
           /\ \A t \in Tasks : t # e.task => excuse'[t] = excuse[t]
           /\ excuse'[e.task] = "none" => /\ excuse[e.task] = "none"
                                          /\ connected => stream' = Append(stream, e)
<1>1. stream \in Seq(Event) /\ (stream # <<>> => connected) /\ excuse \in [Tasks -> Excuses]
      /\ e.task \in Tasks
  BY DEF TypeOK, Event
<1>2. Append(stream, e) \in Seq(Event)
  BY <1>1, AppendEvent, Zenon
<1>3. CASE connected /\ subscribed
  BY <1>1, <1>2, <1>3 DEF Sent
<1>4. CASE connected /\ ~ subscribed
  BY <1>1, <1>4 DEF Sent, Excuses
<1>5. CASE ~ connected
  BY <1>1, <1>5 DEF Sent
<1> QED
  BY <1>3, <1>4, <1>5

LEMMA ShowStep ==
    ASSUME TypeOK, NEW rows \in [Tasks -> Shown], Showing(rows)
    PROVE  /\ view' = rows /\ excuse' \in [Tasks -> Excuses]
           /\ \A t \in Tasks : excuse'[t] = "none" =>
                \/ rows[t].moved = moved[t] /\ Shows(rows, t) /\ Heard(t)
                \/ excuse[t] = "none" /\ ~ (rows[t].moved < view[t].moved)
<1>1. \A t \in Tasks : excuse[t] \in Excuses
  BY DEF TypeOK
<1>2. view' = rows
  BY DEF Showing
<1>3. \A t \in Tasks : excuse'[t] =
        IF rows[t].moved < view[t].moved THEN "overtaken"
        ELSE IF rows[t].moved = moved[t] /\ Shows(rows, t) /\ Heard(t) THEN "none"
        ELSE excuse[t]
  BY Zenon DEF Showing
<1>4. excuse' \in [Tasks -> Excuses]
  BY <1>1 DEF Showing, Excuses
<1>5. ASSUME NEW t \in Tasks, excuse'[t] = "none"
      PROVE  \/ rows[t].moved = moved[t] /\ Shows(rows, t) /\ Heard(t)
             \/ excuse[t] = "none" /\ ~ (rows[t].moved < view[t].moved)
  <2> HIDE DEF Shows, Heard
  <2>1. ~ (rows[t].moved < view[t].moved)
    BY <1>3, <1>5
  <2> QED
    BY <1>3, <1>5, <2>1
<1> QED
  BY <1>2, <1>4, <1>5

LEMMA AnnouncedTyped ==
    ASSUME TypeOK, NEW r \in Handler
    PROVE  /\ Announced(r) \in Shown
           /\ Announced(r).status = r.shown.status /\ Announced(r).moved = r.shown.moved
           /\ Right(r.shown) => Right(Announced(r))
           /\ [type |-> "task", task |-> r.task, shown |-> Announced(r)] \in Event
<1>1. r.shown \in Shown /\ r.task \in Tasks /\ stored[r.task] \in Percent
  BY DEF TypeOK, Handler
<1>2. progressFor(r.shown.status, stored[r.task]) \in Percent
  BY <1>1, ProgressTyped
<1>3. CASE r.way = "asked"
  BY <1>1, <1>2, <1>3, ProgressTyped DEF Announced, Shown, Right, Event
<1>4. CASE r.way # "asked"
  BY <1>1, <1>4 DEF Announced, Event
<1> QED
  BY <1>3, <1>4

LEMMA Evicted ==
    ASSUME NEW rows \in [Tasks -> Shown]
    PROVE  /\ evictOldTerminal(rows) \in [Tasks -> Shown]
           /\ \A t \in Tasks :
                \/ evictOldTerminal(rows)[t] = rows[t]
                \/ /\ rows[t].status \in Terminal
                   /\ evictOldTerminal(rows)[t] = LeftOut(rows[t].moved)
<1> DEFINE over == {t \in Tasks : rows[t].status \in Terminal}
           kept == Newest(over, [t \in Tasks |-> rows[t].moved])
<1>1. evictOldTerminal(rows) =
        [t \in Tasks |-> IF t \in over \ kept THEN LeftOut(rows[t].moved) ELSE rows[t]]
  BY DEF evictOldTerminal
<1>2. \A t \in Tasks : rows[t] \in Shown /\ LeftOut(rows[t].moved) \in Shown
  BY LeftOutTyped, ShownTyped
<1> HIDE DEF kept
<1> QED
  BY <1>1, <1>2

\* What a fetch holds when the recent rows and the percentages are there.
RowsAnswered(h) ==
    LET recent == Newest({t \in Tasks : status[t] \in Terminal}, moved)
        rows == [t \in Tasks |-> IF t \in recent THEN Current(t, 0)
                                                 ELSE hydration[h].rows[t]]
    IN  [t \in Tasks |->
           [rows[t] EXCEPT !.progress =
              IF rows[t].status = "absent" THEN 0
              ELSE progressFor(rows[t].status, stored[t])]]

LEMMA Answered ==
    ASSUME TypeOK, NEW h \in Hydrations
    PROVE  /\ RowsAnswered(h) \in [Tasks -> Shown]
           /\ \A t \in Tasks :
                /\ Right(RowsAnswered(h)[t])
                /\ \/ /\ RowsAnswered(h)[t].status = hydration[h].rows[t].status
                      /\ RowsAnswered(h)[t].moved = hydration[h].rows[t].moved
                   \/ /\ RowsAnswered(h)[t].status = status[t]
                      /\ RowsAnswered(h)[t].moved = moved[t]
<1> DEFINE recent == Newest({t \in Tasks : status[t] \in Terminal}, moved)
           rows == [t \in Tasks |-> IF t \in recent THEN Current(t, 0)
                                                    ELSE hydration[h].rows[t]]
           made(t) == [rows[t] EXCEPT !.progress =
                         IF rows[t].status = "absent" THEN 0
                         ELSE progressFor(rows[t].status, stored[t])]
<1>1. RowsAnswered(h) = [t \in Tasks |-> made(t)]
  BY DEF RowsAnswered
<1>2. \A t \in Tasks : hydration[h].rows[t] \in Shown /\ stored[t] \in Percent
  BY DEF TypeOK, Hydration
<1> HIDE DEF recent
<1>3. \A t \in Tasks : rows[t] = Current(t, 0) \/ rows[t] = hydration[h].rows[t]
  OBVIOUS
<1> HIDE DEF rows
<1>4. ASSUME NEW t \in Tasks
      PROVE  /\ made(t) \in Shown /\ Right(made(t))
             /\ \/ /\ made(t).status = hydration[h].rows[t].status
                   /\ made(t).moved = hydration[h].rows[t].moved
                \/ made(t).status = status[t] /\ made(t).moved = moved[t]
  <2>1. 0 \in Percent
    BY DEF Percent
  <2>2. rows[t] \in Shown
    BY <1>2, <1>3, <2>1, CurrentTyped
  <2>3. progressFor(rows[t].status, stored[t]) \in Percent
    BY <1>2, ProgressTyped
  <2>4. made(t).status = rows[t].status /\ made(t).moved = rows[t].moved
    BY <2>2 DEF Shown
  <2>5. made(t) \in Shown /\ Right(made(t))
    BY <1>2, <2>1, <2>2, <2>3, ProgressTyped DEF Shown, Right
  <2>6. rows[t] = Current(t, 0) => rows[t].status = status[t] /\ rows[t].moved = moved[t]
    BY <2>1, CurrentTyped
  <2> HIDE DEF made
  <2> QED
    BY <1>3, <2>4, <2>5, <2>6
<1> HIDE DEF made
<1> QED
  BY <1>1, <1>4

-----------------------------------------------------------------------------
(* Each action keeps the types.                                            *)

LEMMA TypedParts ==
    ASSUME TypeOK
    PROVE  /\ status \in [Tasks -> Active \cup Terminal \cup {"absent"}]
           /\ handler \in [Handlers -> Handler \cup {NoHandler}]
           /\ hydration \in [Hydrations -> Hydration]
           /\ view \in [Tasks -> Shown] /\ stored \in [Tasks -> Percent]
           /\ stream \in Seq(Event) /\ excuse \in [Tasks -> Excuses]
           /\ \A h \in Hydrations : hydration[h].rows \in [Tasks -> Shown]
           /\ \A h \in Hydrations : \A t \in Tasks : hydration[h].rows[t] \in Shown
           /\ NoHydration \in Hydration /\ NoHydration.rows = NoRows
           /\ NoHydration.stage = "idle" /\ NoHydration.fresh = FALSE
           /\ NoRows \in [Tasks -> Shown]
  BY NotShownTyped DEF TypeOK, Hydration, NoHydration, NoRows

LEMMA MoveRowTyped ==
    ASSUME TypeOK, NEW t \in Tasks, MoveRow(t)
    PROVE  /\ TypeOK' /\ moved' = [moved EXCEPT ![t] = clock + 1]
           /\ UNCHANGED <<stored, reports, subscribed, stream, browserVars, excuse, troubles>>
<1>1. PICK way \in Ways, s \in Active \cup Terminal :
        Begin(t, way) /\ status' = [status EXCEPT ![t] = s]
  BY RowStep, Zenon DEF MoveRow
<1>2. PICK i \in Handlers : handler' = [handler EXCEPT ![i] = Begun(t, way)]
  BY <1>1, BeginStep, Zenon
<1>3. Begun(t, way) \in Handler
  BY <1>1, BeginStep, Zenon
<1>4. /\ clock < Cardinality(Tasks) + Moves /\ clock' = clock + 1
      /\ moved' = [moved EXCEPT ![t] = clock + 1]
      /\ UNCHANGED <<stored, reports, subscribed, stream, browserVars, excuse, troubles>>
  BY DEF MoveRow, Stamp
<1>5. attempts' \in [Tasks -> 0 .. MaxAttempts]
  BY RowStep, Zenon DEF MoveRow
<1>6. status' \in [Tasks -> Active \cup Terminal \cup {"absent"}]
      /\ handler' \in [Handlers -> Handler \cup {NoHandler}]
  BY <1>1, <1>2, <1>3 DEF TypeOK
<1>7. /\ clock' \in 1 .. Cardinality(Tasks) + Moves /\ moved' \in [Tasks -> 1 .. clock']
      /\ reports' \in [Tasks -> 0 .. clock']
  <2>1. clock \in Nat /\ clock >= 1 /\ clock' = clock + 1
        /\ clock' \in 1 .. Cardinality(Tasks) + Moves
    BY <1>4, StampsTyped, Sizes
  <2>2. 1 .. clock \subseteq 1 .. clock' /\ 0 .. clock \subseteq 0 .. clock' /\ clock' \in 1 .. clock'
    BY <2>1
  <2>3. moved \in [Tasks -> 1 .. clock] /\ reports \in [Tasks -> 0 .. clock]
        /\ reports' = reports /\ moved' = [moved EXCEPT ![t] = clock']
    BY <1>4 DEF TypeOK
  <2>4. moved' \in [Tasks -> 1 .. clock']
    BY <2>2, <2>3
  <2>5. reports' \in [Tasks -> 0 .. clock']
    BY <2>2, <2>3
  <2> QED
    BY <2>1, <2>4, <2>5
<1>8. UNCHANGED <<stored, subscribed, stream, connected, hydration, view, hydrated,
                  excuse, troubles>>
  BY <1>4 DEF browserVars
<1>9. TypeOK'
  BY <1>5, <1>6, <1>7, <1>8 DEF TypeOK
<1> QED
  BY <1>4, <1>9, Zenon

LEMMA UnmovedTyped ==
    ASSUME TypeOK, NEW t \in Tasks, Unmoved(t)
    PROVE  /\ TypeOK'
           /\ \E i \in Handlers, way \in Ways :
                /\ handler[i].stage = "idle"
                /\ handler' = [handler EXCEPT ![i] = Begun(t, way)]
<1>1. PICK way \in {"asked", "settled"} : Begin(t, way)
  BY Zenon DEF Unmoved
<1>2. way \in Ways
  BY DEF Ways
<1>3. PICK i \in Handlers : handler[i].stage = "idle"
                            /\ handler' = [handler EXCEPT ![i] = Begun(t, way)]
  BY <1>1, <1>2, BeginStep, Zenon
<1>4. Begun(t, way) \in Handler
  BY <1>1, <1>2, BeginStep, Zenon
<1>5. handler' \in [Handlers -> Handler \cup {NoHandler}]
  BY <1>3, <1>4 DEF TypeOK
<1>6. troubles' \in 0 .. Troubles
  BY BoundsAssumption DEF Unmoved, Trouble, TypeOK
<1>7. UNCHANGED <<rowVars, stored, reports, subscribed, stream, browserVars, excuse>>
  BY DEF Unmoved
<1>8. TypeOK'
  BY <1>5, <1>6, <1>7 DEF TypeOK, rowVars, browserVars
<1> QED
  BY <1>2, <1>3, <1>8, Zenon

LEMMA HandlerActionsTyped ==
    ASSUME TypeOK, NEW i \in Handlers,
           ReadBack(i) \/ Clear(i) \/ Publish(i) \/ HandlerDies(i)
    PROVE  TypeOK'
<1>1. handler \in [Handlers -> Handler \cup {NoHandler}] /\ 0 \in Percent
      /\ stored \in [Tasks -> Percent]
  BY DEF TypeOK, Percent
<1>2. CASE ReadBack(i)
  <2>1. handler[i].stage # "idle"
    BY <1>2 DEF ReadBack
  <2>2. handler[i] \in Handler /\ Current(handler[i].task, 0) \in Shown
    BY <1>1, <2>1, HandlerTyped, CurrentTyped
  <2>3. handler' \in [Handlers -> Handler \cup {NoHandler}]
    BY <1>1, <1>2, <2>2 DEF ReadBack, Handler
  <2> QED
    BY <1>2, <2>3 DEF ReadBack, TypeOK, rowVars, browserVars
<1>3. CASE Clear(i)
  <2>1. handler[i].stage # "idle"
    BY <1>3 DEF Clear
  <2>2. handler[i] \in Handler /\ handler[i].task \in Tasks
    BY <2>1, HandlerTyped
  <2>3. /\ handler' \in [Handlers -> Handler \cup {NoHandler}]
        /\ stored' \in [Tasks -> Percent]
    BY <1>1, <1>3, <2>2 DEF Clear, Handler
  <2> QED
    BY <1>3, <2>3 DEF Clear, TypeOK, rowVars, browserVars
<1>4. CASE Publish(i)
  <2>1. handler[i].stage # "idle"
    BY <1>4 DEF Publish, Ready
  <2> DEFINE e == [type |-> "task", task |-> handler[i].task, shown |-> Announced(handler[i])]
  <2>2. e \in Event
    BY <2>1, HandlerTyped, AnnouncedTyped
  <2>3. Sent(e)
    BY <1>4 DEF Publish
  <2> HIDE DEF e
  <2>4. /\ stream' \in Seq(Event) /\ (stream' # <<>> => connected)
        /\ excuse' \in [Tasks -> Excuses]
    BY <2>2, <2>3, SendStep
  <2>5. handler' \in [Handlers -> Handler \cup {NoHandler}]
    BY <1>1, <1>4 DEF Publish
  <2>6. UNCHANGED <<rowVars, stored, reports, subscribed, browserVars, troubles>>
    BY <1>4 DEF Publish
  <2> QED
    BY <2>4, <2>5, <2>6 DEF TypeOK, rowVars, browserVars
<1>5. CASE HandlerDies(i)
  <2>1. handler' \in [Handlers -> Handler \cup {NoHandler}]
    BY <1>1, <1>5 DEF HandlerDies
  <2>2. excuse' \in [Tasks -> Excuses]
    BY <1>5 DEF HandlerDies, TypeOK, Excuses
  <2>3. troubles' \in 0 .. Troubles
    BY <1>5, BoundsAssumption DEF HandlerDies, Trouble, TypeOK
  <2> QED
    BY <1>5, <2>1, <2>2, <2>3 DEF HandlerDies, TypeOK, rowVars, browserVars
<1> QED
  BY <1>2, <1>3, <1>4, <1>5

LEMMA ProgressActionsTyped ==
    ASSUME TypeOK, NEW t \in Tasks, SetProgress(t) \/ PublishProgress(t)
    PROVE  TypeOK'
<1>1. CASE SetProgress(t)
  <2>1. 50 \in Percent /\ moved[t] \in 0 .. clock
    BY StampsTyped DEF Percent
  <2>2. /\ stored' \in [Tasks -> Percent] /\ reports' \in [Tasks -> 0 .. clock]
    BY <1>1, <2>1 DEF SetProgress, TypeOK
  <2>3. UNCHANGED <<rowVars, handler, subscribed, stream, browserVars, excuse, troubles>>
    BY <1>1 DEF SetProgress
  <2> QED
    BY <2>2, <2>3 DEF TypeOK, rowVars, browserVars
<1>2. CASE PublishProgress(t)
  <2> DEFINE s == [status |-> "running", moved |-> reports[t], progress |-> 50]
             e == [type |-> "progress", task |-> t, shown |-> s]
  <2>1. s \in Shown
    BY StampsTyped DEF Shown, Stamps, Percent, Active
  <2>2. e \in Event
    BY <2>1 DEF Event
  <2>3. Sent(e)
    BY <1>2 DEF PublishProgress
  <2> HIDE DEF e
  <2>4. /\ stream' \in Seq(Event) /\ (stream' # <<>> => connected)
        /\ excuse' \in [Tasks -> Excuses]
    BY <2>2, <2>3, SendStep
  <2>5. reports' \in [Tasks -> 0 .. clock]
    <3>1. 0 \in 0 .. clock
      BY StampsTyped
    <3> QED
      BY <1>2, <3>1 DEF PublishProgress, TypeOK
  <2>6. UNCHANGED <<rowVars, stored, handler, subscribed, browserVars, troubles>>
    BY <1>2 DEF PublishProgress
  <2> QED
    BY <2>4, <2>5, <2>6 DEF TypeOK, rowVars, browserVars
<1> QED
  BY <1>1, <1>2

LEMMA SnapshotActionsTyped ==
    ASSUME TypeOK, NEW h \in Hydrations,
           SelectActive(h) \/ SelectRecent(h) \/ HydrationFails(h)
    PROVE  TypeOK'
<1>1. hydration \in [Hydrations -> Hydration] /\ NoHydration \in Hydration
  BY TypedParts
<1>2. CASE SelectActive(h)
  <2> DEFINE rows == [t \in Tasks |-> IF status[t] \in Active THEN Current(t, 0)
                                      ELSE LeftOut(moved[t])]
  <2>1. \A t \in Tasks : Current(t, 0) \in Shown /\ LeftOut(moved[t]) \in Shown
    BY StampsTyped, CurrentTyped, LeftOutTyped DEF Percent
  <2>2. rows \in [Tasks -> Shown]
    BY <2>1
  <2>3. hydration' = [hydration EXCEPT ![h].stage = "active", ![h].rows = rows]
    BY <1>2 DEF SelectActive
  <2> HIDE DEF rows
  <2>4. hydration' \in [Hydrations -> Hydration]
    BY <1>1, <2>2, <2>3 DEF Hydration
  <2>5. UNCHANGED <<rowVars, serverVars, stream, connected, view, hydrated, excuse, troubles>>
    BY <1>2 DEF SelectActive
  <2> QED
    BY <2>4, <2>5 DEF TypeOK, rowVars, serverVars
<1>3. CASE SelectRecent(h)
  <2>1. hydration' = [hydration EXCEPT ![h].stage = "answered", ![h].rows = RowsAnswered(h)]
    BY <1>3, Zenon DEF SelectRecent, RowsAnswered
  <2>2. hydration' \in [Hydrations -> Hydration]
    <3>1. RowsAnswered(h) \in [Tasks -> Shown]
      BY Answered, Zenon
    <3> QED
      BY <1>1, <2>1, <3>1 DEF Hydration
  <2>3. UNCHANGED <<rowVars, serverVars, stream, connected, view, hydrated, excuse, troubles>>
    BY <1>3, Zenon DEF SelectRecent
  <2> QED
    BY <2>2, <2>3 DEF TypeOK, rowVars, serverVars
<1>4. CASE HydrationFails(h)
  <2>1. hydration' \in [Hydrations -> Hydration]
    BY <1>1, <1>4 DEF HydrationFails
  <2>2. troubles' \in 0 .. Troubles
    BY <1>4, BoundsAssumption DEF HydrationFails, Trouble, TypeOK
  <2> QED
    BY <1>4, <2>1, <2>2 DEF HydrationFails, TypeOK, rowVars, serverVars
<1> QED
  BY <1>2, <1>3, <1>4

LEMMA HydrateTyped ==
    ASSUME TypeOK, NEW h \in Hydrations, Hydrate(h)
    PROVE  TypeOK'
<1>1. /\ hydration \in [Hydrations -> Hydration] /\ NoHydration \in Hydration
      /\ hydration[h].rows \in [Tasks -> Shown] /\ hydration[h].fresh \in BOOLEAN
  BY TypedParts DEF Hydration
<1>2. Showing(hydration[h].rows)
  BY DEF Hydrate
<1>3. view' \in [Tasks -> Shown] /\ excuse' \in [Tasks -> Excuses]
  BY <1>1, <1>2, ShowStep
<1>4. hydration' \in [Hydrations -> Hydration] /\ hydrated' \in BOOLEAN
  BY <1>1 DEF Hydrate
<1>5. UNCHANGED <<stream, rowVars, serverVars, connected, troubles>>
  BY DEF Hydrate
<1> QED
  BY <1>3, <1>4, <1>5 DEF TypeOK, rowVars, serverVars

\* The rows shown when the first event, with a row, has been applied.
RowsApplied == evictOldTerminal([view EXCEPT ![Head(stream).task] = Head(stream).shown])

LEMMA ApplyTaskStep ==
    ASSUME TypeOK, ApplyTask
    PROVE  /\ stream # <<>> /\ Head(stream) \in Event /\ IsTask(Head(stream), Head(stream).task)
           /\ Head(stream).task \in Tasks /\ Head(stream).shown \in Shown
           /\ [view EXCEPT ![Head(stream).task] = Head(stream).shown] \in [Tasks -> Shown]
           /\ stream' = Tail(stream) /\ Showing(RowsApplied)
           /\ RowsApplied \in [Tasks -> Shown]
           /\ UNCHANGED <<rowVars, serverVars, connected, hydration, hydrated, troubles>>
<1>1. stream # <<>> /\ Head(stream).type = "task" /\ stream' = Tail(stream)
      /\ UNCHANGED <<rowVars, serverVars, connected, hydration, hydrated, troubles>>
  BY DEF ApplyTask
<1>2. Showing(RowsApplied)
  BY Zenon DEF ApplyTask, RowsApplied
<1>3. Head(stream) \in Event
  BY <1>1, TypedParts, TailEvent, Zenon
<1>4. Head(stream).task \in Tasks /\ Head(stream).shown \in Shown
  BY <1>3 DEF Event
<1>5. [view EXCEPT ![Head(stream).task] = Head(stream).shown] \in [Tasks -> Shown]
  BY <1>4, TypedParts
<1>6. RowsApplied \in [Tasks -> Shown]
  BY <1>5, Evicted, Zenon DEF RowsApplied
<1> QED
  BY <1>1, <1>2, <1>3, <1>4, <1>5, <1>6 DEF IsTask

LEMMA ApplyTyped ==
    ASSUME TypeOK, ApplyTask \/ ApplyProgress
    PROVE  TypeOK'
<1>1. CASE ApplyTask
  <2>1. view' \in [Tasks -> Shown] /\ excuse' \in [Tasks -> Excuses]
    BY <1>1, ApplyTaskStep, ShowStep
  <2>2. stream' \in Seq(Event) /\ (stream' # <<>> => connected)
    BY <1>1, ApplyTaskStep, TypedParts, TailEvent DEF TypeOK
  <2>3. UNCHANGED <<rowVars, serverVars, connected, hydration, hydrated, troubles>>
    BY <1>1, ApplyTaskStep
  <2> QED
    BY <2>1, <2>2, <2>3 DEF TypeOK, rowVars, serverVars
<1>2. CASE ApplyProgress
  <2>1. stream # <<>> /\ Head(stream) \in Event /\ Tail(stream) \in Seq(Event)
    BY <1>2, TypedParts, TailEvent DEF ApplyProgress
  <2>2. Head(stream).shown.progress \in Percent
    BY <2>1 DEF Event, Shown
  <2>3. view' \in [Tasks -> Shown]
    <3> DEFINE t == Head(stream).task
               p == Head(stream).shown.progress
    <3>1. view' = view \/ view' = [view EXCEPT ![t].progress = p]
      <4>1. view' = IF view[t].status = "absent" THEN view
                    ELSE [view EXCEPT ![t].progress = p]
        BY <1>2, Zenon DEF ApplyProgress
      <4> HIDE DEF t, p
      <4> QED
        BY <4>1
    <3>2. \A u \in Tasks : [view[u] EXCEPT !.progress = p] \in Shown
      <4>1. \A u \in Tasks : view[u] \in Shown
        BY TypedParts
      <4> QED
        BY <2>2, <4>1 DEF Shown
    <3> HIDE DEF t, p
    <3> QED
      BY <3>1, <3>2, TypedParts
  <2>4. stream' \in Seq(Event) /\ (stream' # <<>> => connected)
    BY <1>2, <2>1 DEF ApplyProgress, TypeOK
  <2>5. UNCHANGED <<rowVars, serverVars, connected, hydration, hydrated, excuse, troubles>>
    BY <1>2 DEF ApplyProgress
  <2> QED
    BY <2>3, <2>4, <2>5 DEF TypeOK, rowVars, serverVars
<1> QED
  BY <1>1, <1>2

LEMMA ConnectionsTyped ==
    ASSUME TypeOK, Open \/ Break \/ Unsubscribe \/ Resubscribe
    PROVE  TypeOK'
<1>1. CASE Open
  <2>1. \A h \in Hydrations : hydration[h] \in Hydration
    BY TypedParts
  <2>2. /\ [NoHydration EXCEPT !.stage = "sent", !.fresh = TRUE] \in Hydration
        /\ \A h \in Hydrations : [hydration[h] EXCEPT !.fresh = FALSE] \in Hydration
    BY <2>1, TypedParts DEF Hydration
  <2>3. hydration' \in [Hydrations -> Hydration]
    <3> DEFINE first == Min({h \in Hydrations : hydration[h].stage = "idle"})
    <3>1. hydration' = [h \in Hydrations |->
            IF h = first THEN [NoHydration EXCEPT !.stage = "sent", !.fresh = TRUE]
            ELSE [hydration[h] EXCEPT !.fresh = FALSE]]
      BY <1>1, Zenon DEF Open
    <3> HIDE DEF first
    <3> QED
      BY <2>2, <3>1
  <2>4. /\ connected' = TRUE /\ stream' = <<>> /\ hydrated' = FALSE
        /\ UNCHANGED <<rowVars, serverVars, view, troubles>>
    BY <1>1, Zenon DEF Open
  <2>5. excuse' \in [Tasks -> Excuses]
    <3>1. excuse' = [t \in Tasks |-> IF reports[t] = 0 THEN "none" ELSE excuse[t]]
      BY <1>1, Zenon DEF Open
    <3> QED
      BY <3>1 DEF TypeOK, Excuses
  <2> QED
    BY <2>3, <2>4, <2>5, NoEvents DEF TypeOK, rowVars, serverVars
<1>2. CASE Break
  <2>1. troubles' \in 0 .. Troubles
    BY <1>2, BoundsAssumption DEF Break, Trouble, TypeOK
  <2> QED
    BY <1>2, <2>1, NoEvents DEF Break, TypeOK, rowVars, serverVars
<1>3. CASE Unsubscribe
  <2>1. troubles' \in 0 .. Troubles
    BY <1>3, BoundsAssumption DEF Unsubscribe, Trouble, TypeOK
  <2> QED
    BY <1>3, <2>1 DEF Unsubscribe, TypeOK, rowVars, browserVars
<1>4. CASE Resubscribe
  BY <1>4 DEF Resubscribe, TypeOK, rowVars, browserVars
<1> QED
  BY <1>1, <1>2, <1>3, <1>4

LEMMA InitTyped == Init => TypeOK
<1> SUFFICES ASSUME Init
             PROVE  TypeOK
  OBVIOUS
<1>1. moved \in [Tasks -> 1 .. clock] /\ clock \in 1 .. Cardinality(Tasks) + Moves
  BY Sizes DEF Init, Bijection, Injection
<1>2. attempts \in [Tasks -> 0 .. MaxAttempts]
  <2>1. \A s : Spent(s) \in 0 .. MaxAttempts
    BY BoundsAssumption DEF Spent
  <2> QED
    BY <2>1 DEF Init
<1>3. /\ NoHydration \in Hydration /\ NoRows \in [Tasks -> Shown]
  BY NotShownTyped DEF Hydration, NoHydration, NoRows
<1>4. /\ handler \in [Handlers -> Handler \cup {NoHandler}]
      /\ hydration \in [Hydrations -> Hydration] /\ view \in [Tasks -> Shown]
  BY <1>3 DEF Init
<1>5. /\ stored \in [Tasks -> Percent] /\ excuse \in [Tasks -> Excuses]
      /\ reports \in [Tasks -> 0 .. clock]
  BY <1>1, Sizes DEF Init, Percent, Excuses
<1>6. /\ stream = <<>> /\ stream \in Seq(Event) /\ troubles \in 0 .. Troubles
      /\ subscribed \in BOOLEAN /\ connected \in BOOLEAN /\ hydrated \in BOOLEAN
      /\ status \in [Tasks -> Active \cup Terminal \cup {"absent"}]
  <2>1. stream = <<>> /\ stream \in Seq(Event)
    BY NoEvents, Zenon DEF Init
  <2>2. troubles \in 0 .. Troubles
    BY BoundsAssumption DEF Init
  <2> QED
    BY <2>1, <2>2 DEF Init
<1> QED
  BY <1>1, <1>2, <1>4, <1>5, <1>6 DEF TypeOK

LEMMA StepTyped ==
    ASSUME TypeOK, [Next]_vars
    PROVE  TypeOK'
<1>1. CASE \E t \in Tasks : MoveRow(t) \/ Unmoved(t) \/ SetProgress(t) \/ PublishProgress(t)
  <2>1. PICK t \in Tasks : MoveRow(t) \/ Unmoved(t) \/ SetProgress(t) \/ PublishProgress(t)
    BY <1>1
  <2>2. CASE MoveRow(t)
    BY <2>2, MoveRowTyped, Zenon
  <2>3. CASE Unmoved(t)
    BY <2>3, UnmovedTyped, Zenon
  <2>4. CASE SetProgress(t) \/ PublishProgress(t)
    BY <2>4, ProgressActionsTyped, Zenon
  <2> QED
    BY <2>1, <2>2, <2>3, <2>4, Zenon
<1>2. CASE \E i \in Handlers : ReadBack(i) \/ Clear(i) \/ Publish(i) \/ HandlerDies(i)
  BY <1>2, HandlerActionsTyped, Zenon
<1>3. CASE \E h \in Hydrations : SelectActive(h) \/ SelectRecent(h) \/ HydrationFails(h)
  BY <1>3, SnapshotActionsTyped, Zenon
<1>4. CASE \E h \in Hydrations : Hydrate(h)
  BY <1>4, HydrateTyped, Zenon
<1>5. CASE Open \/ Break \/ Unsubscribe \/ Resubscribe
  BY <1>5, ConnectionsTyped, Zenon
<1>6. CASE ApplyTask \/ ApplyProgress
  BY <1>6, ApplyTyped, Zenon
<1>7. CASE UNCHANGED vars
  BY <1>7 DEF vars, rowVars, serverVars, browserVars, TypeOK
<1> QED
  BY <1>1, <1>2, <1>3, <1>4, <1>5, <1>6, <1>7, Zenon DEF Next

(* Types, for any tasks, handlers, fetches and bounds; the events under    *)
(* way are lost with the stream they are sent on.                          *)
THEOREM ViewTyped == Spec => []TypeOK
<1>1. TypeOK /\ [Next]_vars => TypeOK'
  BY StepTyped
<1> QED
  BY InitTyped, <1>1, PTL DEF Spec

-----------------------------------------------------------------------------
(* What is published, fetched or shown stays true while no row moves.      *)

LEMMA SameRow ==
    ASSUME NEW t, NEW s, status'[t] = status[t], moved'[t] = moved[t]
    PROVE  (Fits(s, t)' <=> Fits(s, t)) /\ (Published(s, t)' <=> Published(s, t))
  BY DEF Fits, Published, Right

LEMMA TrueKept ==
    ASSUME UNCHANGED <<status, moved>>
    PROVE  /\ ViewTrue /\ view' = view => ViewTrue'
           /\ SnapshotsTrue /\ hydration' = hydration => SnapshotsTrue'
           /\ HandlersTrue /\ handler' = handler => HandlersTrue'
           /\ StreamTrue /\ stream' = stream => StreamTrue'
<1>1. ViewTrue /\ view' = view => ViewTrue'
  BY DEF ViewTrue, Fits
<1>2. SnapshotsTrue /\ hydration' = hydration => SnapshotsTrue'
  BY DEF SnapshotsTrue, SnapshotTrue, Fits, Right
<1>3. HandlersTrue /\ handler' = handler => HandlersTrue'
  BY DEF HandlersTrue, HandlerTrue, Published, Fits, Right
<1>4. StreamTrue /\ stream' = stream => StreamTrue'
  BY DEF StreamTrue, EventTrue, Published, Fits, Right
<1> QED
  BY <1>1, <1>2, <1>3, <1>4

LEMMA HandlerSet ==
    ASSUME TypeOK, HandlersTrue, UNCHANGED <<status, moved>>,
           NEW i \in Handlers, NEW r, HandlerTrue(r), handler' = [handler EXCEPT ![i] = r]
    PROVE  /\ HandlersTrue' /\ handler'[i] = r
           /\ \A j \in Handlers : j # i => handler'[j] = handler[j]
<1>1. handler'[i] = r /\ \A j \in Handlers : j # i => handler'[j] = handler[j]
  BY TypedParts
<1>2. ASSUME NEW q, HandlerTrue(q)
      PROVE  HandlerTrue(q)'
  BY <1>2 DEF HandlerTrue, Published, Fits, Right
<1>3. ASSUME NEW j \in Handlers
      PROVE  HandlerTrue(handler[j])'
  <2>1. PICK q : q = handler'[j]
    OBVIOUS
  <2>2. HandlerTrue(q)
    BY <1>1, <2>1, Zenon DEF HandlersTrue
  <2>3. HandlerTrue(q)'
    BY <1>2, <2>2
  <2> QED
    BY <2>1, <2>3 DEF HandlerTrue, Published, Fits, Right
<1> QED
  BY <1>1, <1>3, Zenon DEF HandlersTrue

LEMMA EventsTrue ==
    ASSUME UNCHANGED <<status, moved>>, StreamTrue,
           \A k \in DOMAIN stream' :
             EventTrue(stream'[k]) \/ \E j \in DOMAIN stream : stream'[k] = stream[j]
    PROVE  StreamTrue'
<1>1. ASSUME NEW k \in DOMAIN stream'
      PROVE  EventTrue(stream[k])'
  <2>1. PICK e : e = stream'[k]
    OBVIOUS
  <2>2. EventTrue(e)
    BY <2>1, Zenon DEF StreamTrue
  <2>3. EventTrue(e)'
    BY <2>2 DEF EventTrue, Published, Fits, Right
  <2> QED
    BY <2>1, <2>3 DEF EventTrue, Published, Fits, Right
<1> QED
  BY <1>1, Zenon DEF StreamTrue

LEMMA EventSent ==
    ASSUME TypeOK, StreamTrue, UNCHANGED <<status, moved>>, NEW e \in Event, EventTrue(e),
           stream' = stream \/ stream' = Append(stream, e)
    PROVE  StreamTrue'
<1>1. CASE stream' = stream
  BY <1>1, TrueKept
<1>2. CASE stream' = Append(stream, e)
  <2>1. \A k \in DOMAIN stream' : stream'[k] = e \/ (k \in DOMAIN stream /\ stream'[k] = stream[k])
    BY <1>2, TypedParts, AppendEvent, Zenon
  <2> QED
    BY <2>1, EventsTrue, Zenon
<1> QED
  BY <1>1, <1>2

LEMMA EventTaken ==
    ASSUME TypeOK, StreamTrue, UNCHANGED <<status, moved>>,
           stream # <<>>, stream' = Tail(stream)
    PROVE  StreamTrue' /\ EventTrue(Head(stream))
<1>1. /\ 1 \in DOMAIN stream /\ Head(stream) = stream[1]
      /\ \A k \in DOMAIN Tail(stream) : \E j \in DOMAIN stream : Tail(stream)[k] = stream[j]
  BY TypedParts, TailEvent, Zenon
<1>2. EventTrue(Head(stream))
  BY <1>1, Zenon DEF StreamTrue
<1>3. \A k \in DOMAIN stream' : \E j \in DOMAIN stream : stream'[k] = stream[j]
  BY <1>1, Zenon
<1> QED
  BY <1>2, <1>3, EventsTrue, Zenon

-----------------------------------------------------------------------------
(* What is still to come of a task when a handler goes on.                 *)

LEMMA HandlerFrame ==
    ASSUME TypeOK, NEW t \in Tasks, FollowUp(t),
           status'[t] = status[t], moved'[t] = moved[t], view'[t] = view[t],
           UNCHANGED <<stream, connected, hydrated, hydration>>,
           NEW i \in Handlers, NEW r, handler' = [handler EXCEPT ![i] = r],
           Tells(handler[i], t, moved[t]) => Tells(r, t, moved[t]),
           Settles(handler[i], t) => Settles(r, t),
           \/ reports'[t] = 0
           \/ /\ reports'[t] = reports[t]
              /\ Settles(handler[i], t) /\ handler[i].stage # "cleared" => r.stage # "cleared"
    PROVE  FollowUp(t)'
<1>1. handler'[i] = r /\ \A j \in Handlers : j # i => handler'[j] = handler[j]
  BY TypedParts
<1>2. ASSUME Due(t)
      PROVE  Due(t)'
  <2>1. CASE Carries(stream, t, moved[t])
    BY <2>1, Zenon DEF Due, Carries
  <2>2. CASE \E j \in Handlers : Tells(handler[j], t, moved[t])
    <3>1. PICK j \in Handlers : Tells(handler[j], t, moved[t])
      BY <2>2
    <3>2. Tells(handler'[j], t, moved[t])
      BY <1>1, <3>1, Zenon
    <3>3. Tells(handler[j], t, moved[t])'
      BY <3>2 DEF Tells
    <3> QED
      BY <3>3, Zenon DEF Due
  <2> QED
    BY <1>2, <2>1, <2>2 DEF Due
<1>3. ASSUME NEW j \in Handlers, Settles(handler[j], t)
      PROVE  Settles(handler[j], t)'
  <2>1. Settles(handler'[j], t)
    BY <1>1, <1>3, Zenon
  <2> QED
    BY <2>1 DEF Settles
<1>4. Coming(t) => Coming(t)'
  BY <1>3, Zenon DEF Coming, Settling, Announces
<1>5. Known(t) => Known(t)'
  BY <1>2 DEF Known
<1>6. InTime(t)'
  <2>1. CASE reports'[t] = 0
    BY <2>1 DEF InTime
  <2>2. CASE reports'[t] = reports[t] /\ reports[t] # 0 /\ status[t] \notin Held
    <3>1. PICK j \in Handlers : Settles(handler[j], t) /\ handler[j].stage # "cleared"
      BY <2>2, Zenon DEF InTime, FollowUp
    <3>2. handler'[j].stage # "cleared"
      BY <1>1, <2>2, <3>1
    <3> QED
      BY <1>3, <3>1, <3>2, Zenon DEF InTime
  <2> QED
    BY <2>1, <2>2 DEF InTime
<1>7. Followed(t)' /\ Corrected(t)' /\ Behind(t)'
  <2>1. Followed(t)'
    BY <1>5 DEF FollowUp, Followed
  <2>2. Corrected(t)'
    BY <1>4 DEF FollowUp, Corrected, Right
  <2>3. Behind(t)'
    BY <1>3, Zenon DEF FollowUp, Behind, Settling, Covered
  <2> QED
    BY <2>1, <2>2, <2>3
<1>8. Fetched(t)'
  BY <1>5 DEF FollowUp, Fetched
<1> QED
  BY <1>6, <1>7, <1>8 DEF FollowUp

-----------------------------------------------------------------------------
(* The invariant is kept: those who move rows and publish them.            *)

LEMMA Parts ==
    ASSUME ViewInv
    PROVE  /\ TypeOK /\ ViewTrue /\ SnapshotsTrue /\ HandlersTrue /\ StreamTrue
           /\ \A t \in Tasks : excuse[t] = "none" => FollowUp(t)
           /\ \A t \in Tasks : FollowUp(t) => /\ Followed(t) /\ Fetched(t) /\ Corrected(t)
                                              /\ InTime(t) /\ Behind(t)
  BY DEF ViewInv, FollowUp

LEMMA BegunTells ==
    ASSUME NEW t, NEW way, NEW m
    PROVE  /\ Tells(Begun(t, way), t, m) /\ Begun(t, way).stage = "moved"
           /\ Settles(Begun(t, way), t) <=> way = "settled"
           /\ Begun(t, way).task = t
  BY DEF Begun, Tells, Settles

LEMMA IdleTells ==
    ASSUME NEW r, r.stage = "idle", NEW t, NEW m
    PROVE  ~ Tells(r, t, m) /\ ~ Settles(r, t)
  BY DEF Tells, Settles

LEMMA MoveRowKeeps ==
    ASSUME ViewInv, NEW t0 \in Tasks, MoveRow(t0)
    PROVE  ViewInv'
<1>1. /\ TypeOK /\ ViewTrue /\ SnapshotsTrue /\ HandlersTrue /\ StreamTrue
      /\ \A t \in Tasks : excuse[t] = "none" => FollowUp(t)
  BY Parts
<1>2. /\ TypeOK' /\ moved' = [moved EXCEPT ![t0] = clock + 1]
      /\ UNCHANGED <<reports, stream, excuse>>
      /\ UNCHANGED <<connected, hydration, view, hydrated>>
  BY <1>1, MoveRowTyped DEF browserVars
<1>3. PICK way \in Ways, s \in Active \cup Terminal :
        /\ Begin(t0, way) /\ status' = [status EXCEPT ![t0] = s]
        /\ status[t0] \in Held /\ s \notin Held => way = "settled"
  BY <1>1, RowStep, Zenon DEF MoveRow
<1>4. PICK i \in Handlers : handler[i].stage = "idle"
                            /\ handler' = [handler EXCEPT ![i] = Begun(t0, way)]
  BY <1>3, BeginStep, Zenon
<1>5. /\ moved'[t0] = clock + 1 /\ \A t \in Tasks : t # t0 => moved'[t] = moved[t]
      /\ status'[t0] = s /\ \A t \in Tasks : t # t0 => status'[t] = status[t]
      /\ s # "absent"
  BY <1>1, <1>2, <1>3 DEF TypeOK, Active, Terminal
<1>6. /\ handler'[i] = Begun(t0, way)
      /\ \A j \in Handlers : j # i => handler'[j] = handler[j]
  BY <1>1, <1>4, TypedParts
<1>7. ASSUME NEW t \in Tasks, NEW y \in Shown
      PROVE  /\ Fits(y, t) => Fits(y, t)'
             /\ Published(y, t) => Published(y, t)'
  <2>1. CASE t = t0
    <3>1. Fits(y, t) => y.moved < clock + 1
      BY <1>1, <2>1, StampsTyped DEF Fits, Shown
    <3>2. y.moved < clock + 1 => Fits(y, t)'
      BY <1>1, <1>5, <2>1, StampsTyped DEF Fits, Shown
    <3> QED
      BY <3>1, <3>2 DEF Published, Right
  <2>2. CASE t # t0
    BY <1>5, <2>2, SameRow
  <2> QED
    BY <2>1, <2>2
<1>8. ViewTrue'
  BY <1>1, <1>2, <1>7, TypedParts DEF ViewTrue, Fits
<1>9. SnapshotsTrue'
  <2>1. ASSUME NEW h \in Hydrations, NEW t \in Tasks
        PROVE  Fits(hydration[h].rows[t], t)' /\ Right(hydration[h].rows[t])'
    <3>1. PICK y \in Shown : y = hydration[h].rows[t]
      BY <1>1, TypedParts
    <3>2. Fits(y, t)' /\ Right(y)
      BY <1>1, <1>7, <3>1 DEF SnapshotsTrue, SnapshotTrue
    <3> QED
      BY <1>2, <3>1, <3>2 DEF Fits, Right
  <2> QED
    BY <2>1 DEF SnapshotsTrue, SnapshotTrue
<1>10. HandlersTrue'
  <2>1. ASSUME NEW j \in Handlers, handler'[j].stage # "idle"
        PROVE  /\ (status[handler[j].task] # "absent")'
               /\ (handler[j].stage # "moved" => Published(handler[j].shown, handler[j].task))'
    <3>1. CASE j = i
      BY <1>5, <1>6, <3>1, BegunTells
    <3>2. CASE j # i
      <4>1. PICK r : r = handler[j] /\ r = handler'[j] /\ r.stage # "idle"
        BY <1>6, <2>1, <3>2
      <4>2. r.task \in Tasks /\ r.shown \in Shown
        BY <1>1, <4>1, HandlerTyped
      <4>3. status[r.task] # "absent" /\ (r.stage # "moved" => Published(r.shown, r.task))
        BY <1>1, <4>1 DEF HandlersTrue, HandlerTrue
      <4>4. status'[r.task] # "absent" /\ (r.stage # "moved" => Published(r.shown, r.task)')
        BY <1>5, <1>7, <4>2, <4>3
      <4> QED
        BY <4>1, <4>4 DEF Published, Fits, Right
    <3> QED
      BY <3>1, <3>2
  <2> QED
    BY <2>1, Zenon DEF HandlersTrue, HandlerTrue
<1>11. StreamTrue'
  <2>1. ASSUME NEW k \in DOMAIN stream
        PROVE  EventTrue(stream[k])'
    <3>1. PICK e \in Event : e = stream[k]
      BY <1>1, TypedParts, EventsTyped
    <3>2. e.task \in Tasks /\ e.shown \in Shown
      BY DEF Event
    <3>3. e.type = "task" => Published(e.shown, e.task)'
      BY <1>1, <1>7, <3>1, <3>2 DEF StreamTrue, EventTrue
    <3> QED
      BY <1>2, <3>1, <3>3 DEF EventTrue, Published, Fits, Right
  <2> QED
    BY <1>2, <2>1 DEF StreamTrue
<1>12. ASSUME NEW t \in Tasks, excuse'[t] = "none"
       PROVE  FollowUp(t)'
  <2>1. FollowUp(t)
    BY <1>1, <1>2, <1>12
  <2>2. CASE t # t0
    <3>1. /\ UNCHANGED <<stream, connected, hydrated, hydration>> /\ reports'[t] = reports[t]
          /\ status'[t] = status[t] /\ moved'[t] = moved[t] /\ view'[t] = view[t]
      BY <1>2, <1>5, <2>2
    <3>2. ~ Tells(handler[i], t, moved[t]) /\ ~ Settles(handler[i], t)
      BY <1>4, IdleTells, Zenon
    <3>3. PICK r : r = Begun(t0, way)
      OBVIOUS
    <3>4. handler' = [handler EXCEPT ![i] = r]
      BY <1>4, <3>3, Zenon
    <3> QED
      <4>1. \/ reports'[t] = 0
            \/ /\ reports'[t] = reports[t]
               /\ Settles(handler[i], t) /\ handler[i].stage # "cleared" => r.stage # "cleared"
        BY <3>1, <3>2, Zenon
      <4> QED
        BY <1>1, <2>1, <3>1, <3>2, <3>4, <4>1, HandlerFrame, Zenon
  <2>3. CASE t = t0
    <3>1. Tells(handler'[i], t, moved'[t]) /\ handler'[i].stage # "cleared"
      <4>1. /\ Tells(Begun(t0, way), t0, moved'[t0])
            /\ Begun(t0, way).stage # "cleared"
        BY BegunTells
      <4> QED
        BY <1>6, <2>3, <4>1, Zenon
    <3>2. Due(t)'
      BY <3>1 DEF Due, Tells
    <3>3. Followed(t)' /\ Fetched(t)'
      BY <3>2, Zenon DEF Followed, Fetched, Known
    <3>4. Corrected(t)'
      <4>1. view[t].moved <= moved[t] /\ view[t].moved \in Nat
        BY <1>1, TypedParts, Sizes DEF ViewTrue, Fits, Shown
      <4>2. moved[t] \in Nat /\ clock \in Nat /\ moved[t] <= clock
        BY <1>1, StampsTyped
      <4>3. view[t].moved # clock + 1
        BY <4>1, <4>2
      <4>4. view'[t].moved # moved'[t]
        BY <1>2, <1>5, <2>3, <4>3
      <4> QED
        BY <4>4 DEF Corrected
    <3>5. \A j \in Handlers : Settles(handler[j], t) =>
            handler'[j] = handler[j] /\ Settles(handler'[j], t)
      BY <1>4, <1>6, IdleTells, Zenon
    <3>6. way = "settled" => Settles(handler'[i], t)
      <4>1. way = "settled" => Settles(Begun(t0, way), t0)
        BY BegunTells
      <4> QED
        BY <1>6, <2>3, <4>1, Zenon
    <3>7. CASE status[t] \in Held
      <4>1. status'[t] \notin Held => Settles(handler[i], t)'
        BY <1>3, <1>5, <2>3, <3>6, <3>7 DEF Settles
      <4>2. InTime(t)'
        BY <3>1, <4>1, Zenon DEF InTime
      <4>3. Behind(t)'
        BY <4>1, Zenon DEF Behind, Settling
      <4> QED
        BY <2>1, <3>3, <3>4, <4>2, <4>3 DEF FollowUp
    <3>8. CASE status[t] \notin Held
      <4>1. \A j \in Handlers : Settles(handler[j], t) =>
              handler'[j] = handler[j] /\ Settles(handler[j], t)'
        BY <3>5 DEF Settles
      <4>2. InTime(t)'
        BY <1>2, <2>1, <3>8, <4>1 DEF InTime, FollowUp
      <4>3. Behind(t)'
        BY <1>2, <2>1, <3>8, <4>1 DEF Behind, Settling, FollowUp, Covered
      <4> QED
        BY <2>1, <3>3, <3>4, <4>2, <4>3 DEF FollowUp
    <3> QED
      BY <3>7, <3>8
  <2> QED
    BY <2>2, <2>3
<1> QED
  BY <1>2, <1>8, <1>9, <1>10, <1>11, <1>12 DEF ViewInv

LEMMA UnmovedKeeps ==
    ASSUME ViewInv, NEW t0 \in Tasks, Unmoved(t0)
    PROVE  ViewInv'
<1>1. /\ TypeOK /\ ViewTrue /\ SnapshotsTrue /\ HandlersTrue /\ StreamTrue
      /\ \A t \in Tasks : excuse[t] = "none" => FollowUp(t)
  BY Parts
<1>2. TypeOK'
  BY <1>1, UnmovedTyped, Zenon
<1>3. PICK i \in Handlers, way \in Ways :
        handler[i].stage = "idle" /\ handler' = [handler EXCEPT ![i] = Begun(t0, way)]
  BY <1>1, UnmovedTyped, Zenon
<1>4. PICK r : r = Begun(t0, way)
  OBVIOUS
<1>5. handler' = [handler EXCEPT ![i] = r]
  BY <1>3, <1>4, Zenon
<1>6. /\ status[t0] # "absent"
      /\ UNCHANGED <<status, moved, reports, stream, connected, hydration, view,
                     hydrated, excuse>>
  BY DEF Unmoved, Active, Terminal, rowVars, browserVars
<1>7. HandlerTrue(r)
  BY <1>4, <1>6 DEF HandlerTrue, Begun
<1>8. ViewTrue' /\ SnapshotsTrue' /\ HandlersTrue' /\ StreamTrue'
  BY <1>1, <1>5, <1>6, <1>7, TrueKept, HandlerSet
<1>9. ASSUME NEW t \in Tasks, excuse'[t] = "none"
      PROVE  FollowUp(t)'
  <2>1. /\ FollowUp(t) /\ UNCHANGED <<stream, connected, hydrated, hydration>>
        /\ status'[t] = status[t] /\ moved'[t] = moved[t] /\ view'[t] = view[t]
        /\ reports'[t] = reports[t]
    BY <1>1, <1>6, <1>9
  <2>2. ~ Tells(handler[i], t, moved[t]) /\ ~ Settles(handler[i], t)
    BY <1>3, IdleTells, Zenon
  <2>3. \/ reports'[t] = 0
        \/ /\ reports'[t] = reports[t]
           /\ Settles(handler[i], t) /\ handler[i].stage # "cleared" => r.stage # "cleared"
    BY <2>1, <2>2, Zenon
  <2> QED
    BY <1>1, <1>5, <2>1, <2>2, <2>3, HandlerFrame, Zenon
<1> QED
  BY <1>2, <1>8, <1>9 DEF ViewInv

LEMMA ReadBackKeeps ==
    ASSUME ViewInv, NEW i \in Handlers, ReadBack(i)
    PROVE  ViewInv'
<1>1. /\ TypeOK /\ ViewTrue /\ SnapshotsTrue /\ HandlersTrue /\ StreamTrue
      /\ \A t \in Tasks : excuse[t] = "none" => FollowUp(t)
  BY Parts
<1>2. TypeOK'
  BY <1>1, HandlerActionsTyped, Zenon
<1>3. /\ handler[i].stage = "moved" /\ handler[i] \in Handler /\ handler[i].task \in Tasks
      /\ UNCHANGED <<status, moved, reports, stream, connected, hydration, view,
                     hydrated, excuse>>
  BY <1>1, HandlerTyped DEF ReadBack, rowVars, browserVars
<1>4. PICK q : q = Current(handler[i].task, 0)
  OBVIOUS
<1>5. /\ q.status = status[handler[i].task] /\ q.moved = moved[handler[i].task]
      /\ Right(q) /\ Fits(q, handler[i].task)
  BY <1>1, <1>3, <1>4, CurrentTyped DEF Percent
<1>6. PICK r : r = [handler[i] EXCEPT !.stage = "read", !.shown = q]
  OBVIOUS
<1>7. handler' = [handler EXCEPT ![i] = r]
  BY <1>1, <1>4, <1>6, TypedParts DEF ReadBack
<1>8. /\ r.stage = "read" /\ r.shown = q /\ r.task = handler[i].task
      /\ r.way = handler[i].way
  BY <1>3, <1>6 DEF Handler
<1>9. HandlerTrue(r)
  <2>1. status[handler[i].task] # "absent"
    BY <1>1, <1>3 DEF HandlersTrue, HandlerTrue
  <2> QED
    BY <1>5, <1>8, <2>1 DEF HandlerTrue, Published
<1>10. ViewTrue' /\ SnapshotsTrue' /\ HandlersTrue' /\ StreamTrue'
  BY <1>1, <1>3, <1>7, <1>9, TrueKept, HandlerSet
<1>11. ASSUME NEW t \in Tasks, excuse'[t] = "none"
       PROVE  FollowUp(t)'
  <2>1. /\ FollowUp(t) /\ UNCHANGED <<stream, connected, hydrated, hydration>>
        /\ status'[t] = status[t] /\ moved'[t] = moved[t] /\ view'[t] = view[t]
        /\ reports'[t] = reports[t]
    BY <1>1, <1>3, <1>11
  <2>2. /\ Tells(handler[i], t, moved[t]) => Tells(r, t, moved[t])
        /\ Settles(handler[i], t) => Settles(r, t)
    BY <1>3, <1>5, <1>8 DEF Tells, Settles
  <2>3. \/ reports'[t] = 0
        \/ /\ reports'[t] = reports[t]
           /\ Settles(handler[i], t) /\ handler[i].stage # "cleared" => r.stage # "cleared"
    BY <1>8, <2>1
  <2> QED
    BY <1>1, <1>7, <2>1, <2>2, <2>3, HandlerFrame, Zenon
<1> QED
  BY <1>2, <1>10, <1>11 DEF ViewInv

\* No progress is still to be published when one is cleared.
LEMMA ClearKeeps ==
    ASSUME ViewInv, NEW i \in Handlers, Clear(i)
    PROVE  ViewInv'
<1>1. /\ TypeOK /\ ViewTrue /\ SnapshotsTrue /\ HandlersTrue /\ StreamTrue
      /\ \A t \in Tasks : excuse[t] = "none" => FollowUp(t)
  BY Parts
<1>2. TypeOK'
  BY <1>1, HandlerActionsTyped, Zenon
<1>3. /\ handler[i].stage = "read" /\ handler[i].way = "settled" /\ handler[i] \in Handler
      /\ \A t \in Tasks : reports[t] = 0
      /\ UNCHANGED <<status, moved, reports, stream, connected, hydration, view,
                     hydrated, excuse>>
  BY <1>1, HandlerTyped DEF Clear, Reported, rowVars, browserVars
<1>4. PICK r : r = [handler[i] EXCEPT !.stage = "cleared"]
  OBVIOUS
<1>5. handler' = [handler EXCEPT ![i] = r]
  BY <1>1, <1>4, TypedParts DEF Clear
<1>6. /\ r.stage = "cleared" /\ r.shown = handler[i].shown /\ r.task = handler[i].task
      /\ r.way = handler[i].way
  BY <1>3, <1>4 DEF Handler
<1>7. HandlerTrue(r)
  BY <1>1, <1>3, <1>6 DEF HandlersTrue, HandlerTrue
<1>8. ViewTrue' /\ SnapshotsTrue' /\ HandlersTrue' /\ StreamTrue'
  BY <1>1, <1>3, <1>5, <1>7, TrueKept, HandlerSet
<1>9. ASSUME NEW t \in Tasks, excuse'[t] = "none"
      PROVE  FollowUp(t)'
  <2>1. /\ FollowUp(t) /\ UNCHANGED <<stream, connected, hydrated, hydration>>
        /\ status'[t] = status[t] /\ moved'[t] = moved[t] /\ view'[t] = view[t]
        /\ reports'[t] = 0
    BY <1>1, <1>3, <1>9
  <2>2. /\ Tells(handler[i], t, moved[t]) => Tells(r, t, moved[t])
        /\ Settles(handler[i], t) => Settles(r, t)
    BY <1>3, <1>6 DEF Tells, Settles
  <2> QED
    BY <1>1, <1>5, <2>1, <2>2, HandlerFrame, Zenon
<1> QED
  BY <1>2, <1>8, <1>9 DEF ViewInv

-----------------------------------------------------------------------------
(* Events are sent.                                                        *)

LEMMA FollowUpKept ==
    ASSUME NEW t \in Tasks, FollowUp(t),
           status'[t] = status[t], moved'[t] = moved[t], view'[t] = view[t],
           UNCHANGED <<connected, hydrated, hydration>>,
           connected => (Due(t) => Due(t)'),
           connected => (Coming(t) => Coming(t)'),
           InTime(t)', Behind(t)'
    PROVE  FollowUp(t)'
<1>1. connected => (Known(t) => Known(t)')
  BY DEF Known
<1>2. Followed(t)'
  BY <1>1 DEF FollowUp, Followed
<1>3. Fetched(t)'
  BY <1>1 DEF FollowUp, Fetched
<1>4. Corrected(t)'
  BY DEF FollowUp, Corrected, Right
<1> QED
  BY <1>2, <1>3, <1>4 DEF FollowUp

\* An event about another task, from a handler of another task, if from one.
LEMMA OtherSent ==
    ASSUME TypeOK, NEW t \in Tasks, FollowUp(t),
           status'[t] = status[t], moved'[t] = moved[t], view'[t] = view[t],
           reports'[t] = reports[t],
           UNCHANGED <<connected, hydrated, hydration>>,
           NEW e \in Event, e.task # t,
           stream' = stream \/ stream' = Append(stream, e),
           \A j \in Handlers :
             (handler[j].stage # "idle" => handler[j].task # t) \/ handler'[j] = handler[j]
    PROVE  FollowUp(t)'
<1>1. \A j \in Handlers : Tells(handler[j], t, moved[t]) => Tells(handler[j], t, moved[t])'
  <2>1. ASSUME NEW j \in Handlers, Tells(handler[j], t, moved[t])
        PROVE  handler'[j] = handler[j]
    BY <2>1 DEF Tells
  <2> QED
    BY <2>1 DEF Tells
<1>2. \A j \in Handlers : Settles(handler[j], t) =>
        Settles(handler[j], t)' /\ handler'[j] = handler[j]
  BY DEF Settles
<1>3. /\ Carries(stream, t, moved[t]) => Carries(stream', t, moved[t])
      /\ Announces(stream, t) => Announces(stream', t)
      /\ Covered(stream, t) => Covered(stream', t)
  <2>1. CASE stream' = stream
    BY <2>1, Zenon
  <2>2. CASE stream' = Append(stream, e)
    BY <2>2, TypedParts, AppendEvent, Zenon
  <2> QED
    BY <2>1, <2>2
<1>4. /\ Carries(stream, t, moved[t]) => Carries(stream, t, moved[t])'
      /\ Announces(stream, t) => Announces(stream, t)'
      /\ Covered(stream, t) => Covered(stream, t)'
  BY <1>3 DEF Carries, Announces, Covered
<1>5. Due(t) => Due(t)'
  BY <1>1, <1>4, Zenon DEF Due
<1>6. Settling(t) => Settling(t)'
  BY <1>2, Zenon DEF Settling
<1>7. Coming(t) => Coming(t)'
  BY <1>4, <1>6, Zenon DEF Coming
<1>8. InTime(t)'
  BY <1>2 DEF FollowUp, InTime
<1>9. Behind(t)'
  BY <1>4, <1>6 DEF FollowUp, Behind
<1> QED
  BY <1>5, <1>7, <1>8, <1>9, FollowUpKept

LEMMA PublishKeeps ==
    ASSUME ViewInv, NEW i \in Handlers, Publish(i)
    PROVE  ViewInv'
<1>1. /\ TypeOK /\ ViewTrue /\ SnapshotsTrue /\ HandlersTrue /\ StreamTrue
      /\ \A t \in Tasks : excuse[t] = "none" => FollowUp(t)
  BY Parts
<1>2. TypeOK'
  BY <1>1, HandlerActionsTyped, Zenon
<1>3. PICK r : r = handler[i]
  OBVIOUS
<1>4. /\ Ready(r) /\ r.stage # "idle"
  BY <1>3 DEF Publish, Ready
<1>5. r \in Handler /\ r.task \in Tasks /\ r.shown \in Shown
  BY <1>1, <1>3, <1>4, HandlerTyped
<1>6. PICK e : e = [type |-> "task", task |-> r.task, shown |-> Announced(r)]
  OBVIOUS
<1>7. /\ e \in Event /\ IsTask(e, r.task) /\ e.task = r.task /\ e.shown = Announced(r)
      /\ e.shown.moved = r.shown.moved /\ e.shown.status = r.shown.status
      /\ Right(r.shown) => Right(e.shown)
  BY <1>1, <1>5, <1>6, AnnouncedTyped DEF IsTask
<1>8. /\ Sent(e) /\ handler' = [handler EXCEPT ![i] = NoHandler]
      /\ UNCHANGED <<status, moved, reports, connected, hydration, view, hydrated>>
  BY <1>3, <1>6 DEF Publish, rowVars, browserVars
<1>9. /\ stream' = stream \/ (connected /\ stream' = Append(stream, e))
      /\ \A t \in Tasks : t # e.task => excuse'[t] = excuse[t]
      /\ excuse'[e.task] = "none" => /\ excuse[e.task] = "none"
                                     /\ connected => stream' = Append(stream, e)
  BY <1>1, <1>7, <1>8, SendStep
<1>10. EventTrue(e)
  <2>1. Published(r.shown, r.task)
    BY <1>1, <1>3, <1>4 DEF HandlersTrue, HandlerTrue, Ready
  <2> QED
    BY <1>7, <2>1 DEF EventTrue, Published, Fits
<1>11. /\ HandlersTrue' /\ handler'[i] = NoHandler
       /\ \A j \in Handlers : j # i => handler'[j] = handler[j]
  <2>1. HandlerTrue(NoHandler)
    BY DEF HandlerTrue, NoHandler
  <2> QED
    BY <1>1, <1>8, <2>1, HandlerSet
<1>12. ViewTrue' /\ SnapshotsTrue' /\ StreamTrue'
  <2>1. StreamTrue'
    BY <1>1, <1>7, <1>8, <1>9, <1>10, EventSent
  <2> QED
    BY <1>1, <1>8, <2>1, TrueKept
<1>13. ASSUME NEW t \in Tasks, excuse'[t] = "none"
       PROVE  FollowUp(t)'
  <2>1. CASE t # r.task
    <3>1. /\ FollowUp(t) /\ UNCHANGED <<connected, hydrated, hydration>>
          /\ status'[t] = status[t] /\ moved'[t] = moved[t] /\ view'[t] = view[t]
          /\ reports'[t] = reports[t] /\ e.task # t
          /\ stream' = stream \/ stream' = Append(stream, e)
      BY <1>1, <1>7, <1>8, <1>9, <1>13, <2>1
    <3>2. \A j \in Handlers :
            (handler[j].stage # "idle" => handler[j].task # t) \/ handler'[j] = handler[j]
      BY <1>3, <1>11, <2>1
    <3> QED
      BY <1>1, <1>7, <3>1, <3>2, OtherSent, Zenon
  <2>2. CASE t = r.task
    <3>1. /\ FollowUp(t) /\ UNCHANGED <<connected, hydrated, hydration>>
          /\ status'[t] = status[t] /\ moved'[t] = moved[t] /\ view'[t] = view[t]
          /\ reports'[t] = reports[t] /\ IsTask(e, t)
          /\ connected => stream' = Append(stream, e)
      BY <1>1, <1>7, <1>8, <1>9, <1>13, <2>2
    <3>2. connected => /\ \A m : Carries(stream, t, m) => Carries(stream', t, m)
                       /\ Carries(stream', t, r.shown.moved)
                       /\ Announces(stream', t) /\ Covered(stream', t)
      <4>1. stream \in Seq(Event)
        BY <1>1, TypedParts
      <4>2. /\ \A m : Carries(stream, t, m) => Carries(Append(stream, e), t, m)
            /\ Carries(Append(stream, e), t, e.shown.moved)
            /\ Announces(Append(stream, e), t) /\ Covered(Append(stream, e), t)
        BY <1>7, <3>1, <4>1, AppendEvent, Zenon
      <4> QED
        BY <1>7, <3>1, <4>2, Zenon
    <3>3. connected => /\ \A m : Carries(stream, t, m) => Carries(stream, t, m)'
                       /\ Carries(stream, t, r.shown.moved)'
                       /\ Announces(stream, t)' /\ Covered(stream, t)'
      BY <3>2 DEF Carries, Announces, Covered
    <3>4. ASSUME connected, Due(t)
          PROVE  Due(t)'
      <4>1. CASE Carries(stream, t, moved[t])
        BY <3>1, <3>3, <3>4, <4>1 DEF Due, Carries
      <4>2. CASE \E j \in Handlers : Tells(handler[j], t, moved[t])
        <5>1. PICK j \in Handlers : Tells(handler[j], t, moved[t])
          BY <4>2
        <5>2. CASE j = i
          <6>1. r.shown.moved = moved[t]
            BY <1>3, <1>4, <5>1, <5>2 DEF Tells, Ready
          <6> QED
            BY <3>1, <3>3, <3>4, <6>1 DEF Due, Carries
        <5>3. CASE j # i
          <6>1. handler'[j] = handler[j]
            BY <1>11, <5>3
          <6>2. Tells(handler[j], t, moved[t])'
            BY <3>1, <5>1, <6>1 DEF Tells
          <6> QED
            BY <6>2, Zenon DEF Due
        <5> QED
          BY <5>2, <5>3
      <4> QED
        BY <3>4, <4>1, <4>2 DEF Due
    <3>5. connected => Coming(t)'
      BY <3>3 DEF Coming
    <3>6. InTime(t)'
      <4>1. ASSUME NEW j \in Handlers, Settles(handler[j], t), handler[j].stage # "cleared"
            PROVE  Settles(handler[j], t)' /\ handler'[j].stage # "cleared"
        <5>1. j # i
          BY <1>3, <1>4, <4>1 DEF Settles, Ready
        <5>2. handler'[j] = handler[j]
          BY <1>11, <5>1
        <5> QED
          BY <4>1, <5>2 DEF Settles
      <4> QED
        BY <3>1, <4>1 DEF FollowUp, InTime
    <3>7. Behind(t)'
      <4>1. CASE connected
        BY <3>3, <4>1 DEF Behind
      <4>2. CASE ~ connected
        <5>1. stream' = <<>>
          BY <1>1, <1>9, <4>2 DEF TypeOK
        <5>2. Covered(stream', t)
          BY <5>1, NoEvents, Zenon
        <5> QED
          BY <5>2 DEF Behind, Covered
      <4> QED
        BY <4>1, <4>2
    <3> QED
      BY <3>1, <3>4, <3>5, <3>6, <3>7, FollowUpKept
  <2> QED
    BY <2>1, <2>2
<1> QED
  BY <1>2, <1>11, <1>12, <1>13 DEF ViewInv

LEMMA SetProgressKeeps ==
    ASSUME ViewInv, NEW t0 \in Tasks, SetProgress(t0)
    PROVE  ViewInv'
<1>1. /\ TypeOK /\ ViewTrue /\ SnapshotsTrue /\ HandlersTrue /\ StreamTrue
      /\ \A t \in Tasks : excuse[t] = "none" => FollowUp(t)
  BY Parts
<1>2. TypeOK'
  BY <1>1, ProgressActionsTyped, Zenon
<1>3. /\ status[t0] \in Held /\ reports' = [reports EXCEPT ![t0] = moved[t0]]
      /\ UNCHANGED <<status, moved, handler, stream, connected, hydration, view,
                     hydrated, excuse>>
  BY DEF SetProgress, rowVars, browserVars
<1>4. ViewTrue' /\ SnapshotsTrue' /\ HandlersTrue' /\ StreamTrue'
  BY <1>1, <1>3, TrueKept
<1>5. ASSUME NEW t \in Tasks, excuse'[t] = "none"
      PROVE  FollowUp(t)'
  <2>1. FollowUp(t)
    BY <1>1, <1>3, <1>5
  <2>2. (Due(t) => Due(t)') /\ (Coming(t) => Coming(t)')
    BY <1>3 DEF Due, Coming, Settling, Tells, Settles, Carries, Announces, IsTask
  <2>3. Behind(t)'
    BY <1>3, <2>1 DEF FollowUp, Behind, Covered, Settling, Settles, IsTask
  <2>4. InTime(t)'
    <3>1. CASE t = t0
      BY <1>3, <3>1 DEF InTime
    <3>2. CASE t # t0
      <4>1. reports'[t] = reports[t]
        BY <1>1, <1>3, <3>2 DEF TypeOK
      <4> QED
        BY <1>3, <2>1, <4>1 DEF FollowUp, InTime, Settles
    <3> QED
      BY <3>1, <3>2
  <2> QED
    BY <1>3, <2>1, <2>2, <2>3, <2>4, FollowUpKept
<1> QED
  BY <1>2, <1>4, <1>5 DEF ViewInv

\* A progress is published while whoever ended its attempt has not.
LEMMA PublishProgressKeeps ==
    ASSUME ViewInv, NEW t0 \in Tasks, PublishProgress(t0)
    PROVE  ViewInv'
<1>1. /\ TypeOK /\ ViewTrue /\ SnapshotsTrue /\ HandlersTrue /\ StreamTrue
      /\ \A t \in Tasks : excuse[t] = "none" => FollowUp(t)
  BY Parts
<1>2. TypeOK'
  BY <1>1, ProgressActionsTyped, Zenon
<1>3. PICK e : e = [type |-> "progress", task |-> t0,
                    shown |-> [status |-> "running", moved |-> reports[t0], progress |-> 50]]
  OBVIOUS
<1>4. e \in Event /\ e.type = "progress" /\ e.task = t0
  <2>1. [status |-> "running", moved |-> reports[t0], progress |-> 50] \in Shown
    BY <1>1, StampsTyped DEF Shown, Stamps, Percent, Active
  <2> QED
    BY <1>3, <2>1 DEF Event
<1>5. /\ Sent(e) /\ reports[t0] # 0 /\ reports' = [reports EXCEPT ![t0] = 0]
      /\ UNCHANGED <<status, moved, handler, connected, hydration, view, hydrated>>
  BY <1>3 DEF PublishProgress, rowVars, browserVars
<1>6. /\ stream' = stream \/ (connected /\ stream' = Append(stream, e))
      /\ \A t \in Tasks : t # e.task => excuse'[t] = excuse[t]
      /\ excuse'[e.task] = "none" => excuse[e.task] = "none"
  BY <1>1, <1>4, <1>5, SendStep
<1>7. EventTrue(e)
  BY <1>4 DEF EventTrue
<1>8. ViewTrue' /\ SnapshotsTrue' /\ HandlersTrue' /\ StreamTrue'
  <2>1. StreamTrue'
    BY <1>1, <1>4, <1>5, <1>6, <1>7, EventSent
  <2> QED
    BY <1>1, <1>5, <2>1, TrueKept
<1>9. ASSUME NEW t \in Tasks, excuse'[t] = "none"
      PROVE  FollowUp(t)'
  <2>1. /\ FollowUp(t) /\ UNCHANGED <<connected, hydrated, hydration>>
        /\ status'[t] = status[t] /\ moved'[t] = moved[t] /\ view'[t] = view[t]
    BY <1>1, <1>4, <1>5, <1>6, <1>9
  <2>2. CASE t # t0
    <3>1. /\ reports'[t] = reports[t] /\ e.task # t
          /\ stream' = stream \/ stream' = Append(stream, e)
          /\ \A j \in Handlers : (handler[j].stage # "idle" => handler[j].task # t)
                                 \/ handler'[j] = handler[j]
      BY <1>1, <1>4, <1>5, <1>6, <2>2 DEF TypeOK
    <3> QED
      BY <1>1, <1>4, <2>1, <3>1, OtherSent, Zenon
  <2>3. CASE t = t0
    <3>1. InTime(t)'
      BY <1>1, <1>5, <2>3 DEF TypeOK, InTime
    <3>2. Behind(t)'
      <4>1. status[t] \notin Held => Settling(t)
        BY <1>5, <2>1, <2>3, Zenon DEF FollowUp, InTime, Settling
      <4> QED
        BY <1>5, <2>1, <4>1 DEF Behind, Settling, Settles
    <3>3. /\ \A m : Carries(stream, t, m) => Carries(stream', t, m)
          /\ Announces(stream, t) => Announces(stream', t)
      <4>1. CASE stream' = stream
        BY <4>1, Zenon
      <4>2. CASE stream' = Append(stream, e)
        <5>1. stream \in Seq(Event)
          BY <1>1, TypedParts
        <5> QED
          BY <1>4, <4>2, <5>1, AppendEvent, Zenon
      <4> QED
        BY <1>6, <4>1, <4>2
    <3>4. Due(t) => Due(t)'
      <4>1. Carries(stream, t, moved[t]) => Carries(stream, t, moved[t])'
        BY <2>1, <3>3 DEF Carries
      <4> QED
        BY <1>5, <2>1, <4>1 DEF Due, Tells
    <3>5. Coming(t) => Coming(t)'
      <4>1. Announces(stream, t) => Announces(stream, t)'
        BY <3>3 DEF Announces
      <4> QED
        BY <1>5, <4>1 DEF Coming, Settling, Settles
    <3> QED
      BY <2>1, <3>1, <3>2, <3>4, <3>5, FollowUpKept
  <2> QED
    BY <2>2, <2>3
<1> QED
  BY <1>2, <1>8, <1>9 DEF ViewInv

-----------------------------------------------------------------------------
(* Streams open and break, snapshots are fetched.                          *)

LEMMA HandlerDiesKeeps ==
    ASSUME ViewInv, NEW i \in Handlers, HandlerDies(i)
    PROVE  ViewInv'
<1>1. /\ TypeOK /\ ViewTrue /\ SnapshotsTrue /\ HandlersTrue /\ StreamTrue
      /\ \A t \in Tasks : excuse[t] = "none" => FollowUp(t)
  BY Parts
<1>2. TypeOK'
  BY <1>1, HandlerActionsTyped, Zenon
<1>3. /\ handler[i].stage # "idle"
      /\ handler' = [handler EXCEPT ![i] = NoHandler]
      /\ excuse' = [excuse EXCEPT ![handler[i].task] = "lost"]
      /\ UNCHANGED <<status, moved, reports, stream, connected, hydration, view, hydrated>>
  BY DEF HandlerDies, rowVars, browserVars
<1>4. HandlerTrue(NoHandler)
  BY DEF HandlerTrue, NoHandler
<1>5. ViewTrue' /\ SnapshotsTrue' /\ HandlersTrue' /\ StreamTrue'
  BY <1>1, <1>3, <1>4, TrueKept, HandlerSet
<1>6. ASSUME NEW t \in Tasks, excuse'[t] = "none"
      PROVE  FollowUp(t)'
  <2>1. t # handler[i].task /\ excuse[t] = "none"
    BY <1>1, <1>3, <1>6, TypedParts
  <2>2. /\ FollowUp(t) /\ UNCHANGED <<stream, connected, hydrated, hydration>>
        /\ status'[t] = status[t] /\ moved'[t] = moved[t] /\ view'[t] = view[t]
        /\ reports'[t] = reports[t]
    BY <1>1, <1>3, <2>1
  <2>3. ~ Tells(handler[i], t, moved[t]) /\ ~ Settles(handler[i], t)
    BY <2>1 DEF Tells, Settles
  <2>4. \/ reports'[t] = 0
        \/ /\ reports'[t] = reports[t]
           /\ Settles(handler[i], t) /\ handler[i].stage # "cleared"
                => NoHandler.stage # "cleared"
    BY <2>2, <2>3, Zenon
  <2> QED
    BY <1>1, <1>3, <2>2, <2>3, <2>4, HandlerFrame, Zenon
<1> QED
  BY <1>2, <1>5, <1>6 DEF ViewInv

LEMMA ConnectionsKeep ==
    ASSUME ViewInv, Break \/ Unsubscribe \/ Resubscribe
    PROVE  ViewInv'
<1>1. /\ TypeOK /\ ViewTrue /\ SnapshotsTrue /\ HandlersTrue /\ StreamTrue
      /\ \A t \in Tasks : excuse[t] = "none" => FollowUp(t)
  BY Parts
<1>2. TypeOK'
  BY <1>1, ConnectionsTyped, Zenon
<1>3. CASE Break
  <2>1. /\ stream' = <<>> /\ connected' = FALSE
        /\ UNCHANGED <<status, moved, reports, handler, hydration, view, excuse>>
    BY <1>3 DEF Break, rowVars, serverVars
  <2>2. StreamTrue'
    BY <2>1, NoEvents DEF StreamTrue
  <2>3. ViewTrue' /\ SnapshotsTrue' /\ HandlersTrue'
    BY <1>1, <2>1, TrueKept
  <2>4. ASSUME NEW t \in Tasks, excuse'[t] = "none"
        PROVE  FollowUp(t)'
    <3>1. InTime(t)'
      BY <1>1, <2>1, <2>4 DEF FollowUp, InTime, Settles
    <3>2. Covered(stream', t)
      BY <2>1, NoEvents, Zenon
    <3>3. Behind(t)'
      BY <3>2 DEF Behind, Covered
    <3> QED
      BY <2>1, <3>1, <3>3 DEF FollowUp, Followed, Fetched, Corrected
  <2> QED
    BY <1>2, <2>2, <2>3, <2>4 DEF ViewInv
<1>4. CASE Unsubscribe \/ Resubscribe
  <2>1. UNCHANGED <<status, moved, reports, handler, stream, connected, hydration, view,
                    hydrated, excuse>>
    BY <1>4 DEF Unsubscribe, Resubscribe, rowVars, browserVars
  <2>2. ViewTrue' /\ SnapshotsTrue' /\ HandlersTrue' /\ StreamTrue'
    BY <1>1, <2>1, TrueKept
  <2>3. ASSUME NEW t \in Tasks, excuse'[t] = "none"
        PROVE  FollowUp(t)'
    <3>1. FollowUp(t)
      BY <1>1, <2>1, <2>3
    <3>2. (Due(t) => Due(t)') /\ (Coming(t) => Coming(t)')
      BY <2>1 DEF Due, Coming, Settling, Tells, Settles, Carries, Announces, IsTask
    <3>3. InTime(t)' /\ Behind(t)'
      BY <2>1, <3>1 DEF FollowUp, InTime, Behind, Covered, Settling, Settles, IsTask
    <3> QED
      BY <2>1, <3>1, <3>2, <3>3, FollowUpKept
  <2> QED
    BY <1>2, <2>2, <2>3 DEF ViewInv
<1> QED
  BY <1>3, <1>4

\* What was fetched for a stream that is gone is old; so is what was shown.  A
\* row is followed anew, unless a progress of it might come after its end.
LEMMA OpenKeeps ==
    ASSUME ViewInv, Open
    PROVE  ViewInv'
<1>1. /\ TypeOK /\ ViewTrue /\ SnapshotsTrue /\ HandlersTrue /\ StreamTrue
      /\ \A t \in Tasks : excuse[t] = "none" => FollowUp(t)
  BY Parts
<1>2. TypeOK'
  BY <1>1, ConnectionsTyped, Zenon
<1>3. /\ connected' = TRUE /\ stream' = <<>> /\ hydrated' = FALSE
      /\ UNCHANGED <<status, moved, reports, handler, view>>
      /\ \A t \in Tasks : excuse'[t] = "none" => excuse[t] = "none" \/ reports[t] = 0
  <2>1. /\ connected' = TRUE /\ stream' = <<>> /\ hydrated' = FALSE
        /\ UNCHANGED <<rowVars, serverVars, view, troubles>>
    BY Zenon DEF Open
  <2>2. excuse' = [t \in Tasks |-> IF reports[t] = 0 THEN "none" ELSE excuse[t]]
    BY Zenon DEF Open
  <2> QED
    BY <2>1, <2>2 DEF rowVars, serverVars
<1>4. \A h \in Hydrations :
        \/ hydration'[h].stage = "sent" /\ hydration'[h].rows = NoRows
        \/ hydration'[h].fresh = FALSE /\ hydration'[h].rows = hydration[h].rows
  <2> DEFINE first == Min({h \in Hydrations : hydration[h].stage = "idle"})
  <2>1. hydration' = [h \in Hydrations |->
          IF h = first THEN [NoHydration EXCEPT !.stage = "sent", !.fresh = TRUE]
          ELSE [hydration[h] EXCEPT !.fresh = FALSE]]
    BY Zenon DEF Open
  <2>2. \A h \in Hydrations : hydration[h] \in Hydration
    BY <1>1, TypedParts
  <2>3. NoHydration \in Hydration /\ NoHydration.rows = NoRows
    BY <1>1, TypedParts
  <2> HIDE DEF first
  <2> QED
    BY <2>1, <2>2, <2>3 DEF Hydration
<1>5. SnapshotTrue(NoRows)
  <2>1. \A t \in Tasks : NoRows[t] = NotShown /\ moved[t] >= 1 /\ moved[t] \in Nat
    BY <1>1, StampsTyped DEF NoRows
  <2>2. NotShown.moved = 0 /\ Right(NotShown)
    BY NotShownTyped
  <2> QED
    BY <2>1, <2>2 DEF SnapshotTrue, Fits
<1>6. SnapshotsTrue'
  <2>1. ASSUME NEW h \in Hydrations, NEW t \in Tasks
        PROVE  Fits(hydration[h].rows[t], t)' /\ Right(hydration[h].rows[t])'
    <3>1. PICK y : y = hydration'[h].rows[t]
      OBVIOUS
    <3>2. Fits(y, t) /\ Right(y)
      BY <1>1, <1>4, <1>5, <3>1 DEF SnapshotsTrue, SnapshotTrue
    <3> QED
      BY <1>3, <3>1, <3>2 DEF Fits, Right
  <2> QED
    BY <2>1 DEF SnapshotsTrue, SnapshotTrue
<1>7. ViewTrue' /\ HandlersTrue' /\ StreamTrue'
  <2>1. StreamTrue'
    BY <1>3, NoEvents DEF StreamTrue
  <2> QED
    BY <1>1, <1>3, <2>1, TrueKept
<1>8. ASSUME NEW t \in Tasks, excuse'[t] = "none"
      PROVE  FollowUp(t)'
  <2>1. InTime(t)'
    <3>1. InTime(t)
      BY <1>1, <1>3, <1>8 DEF FollowUp, InTime
    <3> QED
      BY <1>3, <3>1 DEF InTime, Settles
  <2>2. Covered(stream', t)
    BY <1>3, NoEvents, Zenon
  <2>3. Behind(t)'
    BY <2>2 DEF Behind, Covered
  <2>4. Followed(t)' /\ Corrected(t)'
    BY <1>3 DEF Followed, Corrected
  <2>5. Fetched(t)'
    <3>1. \A h \in Hydrations : hydration'[h].fresh => hydration'[h].stage = "sent"
      BY <1>4
    <3> QED
      BY <3>1 DEF Fetched
  <2> QED
    BY <2>1, <2>3, <2>4, <2>5 DEF FollowUp
<1> QED
  BY <1>2, <1>6, <1>7, <1>8 DEF ViewInv

LEMMA FetchFrame ==
    ASSUME NEW t \in Tasks, FollowUp(t),
           UNCHANGED <<status, moved, reports, handler, stream, connected, view, hydrated>>
    PROVE  /\ Known(t) => Known(t)'
           /\ Fetched(t)' => FollowUp(t)'
<1>1. Due(t) => Due(t)'
  BY DEF Due, Tells, Carries, IsTask
<1>2. Known(t) => Known(t)'
  BY <1>1 DEF Known
<1>3. Followed(t)'
  BY <1>2 DEF FollowUp, Followed
<1>4. Corrected(t)'
  <2>1. Coming(t) => Coming(t)'
    BY DEF Coming, Settling, Settles, Announces, IsTask
  <2> QED
    BY <2>1 DEF FollowUp, Corrected, Right
<1>5. InTime(t)' /\ Behind(t)'
  BY DEF FollowUp, InTime, Behind, Covered, Settling, Settles, IsTask
<1> QED
  BY <1>2, <1>3, <1>4, <1>5 DEF FollowUp

\* A fetch goes on, and what it holds is true.
LEMMA FetchKeeps ==
    ASSUME ViewInv, TypeOK',
           UNCHANGED <<status, moved, reports, handler, stream, connected, view, hydrated, excuse>>,
           NEW h \in Hydrations, NEW y, hydration' = [hydration EXCEPT ![h] = y],
           SnapshotTrue(y.rows),
           \A t \in Tasks : y.stage \in {"active", "answered"} =>
             \/ y.rows[t].moved = moved[t]
             \/ /\ y.fresh = hydration[h].fresh
                /\ hydration[h].stage \in {"active", "answered"}
                /\ y.rows[t].moved = hydration[h].rows[t].moved
    PROVE  ViewInv'
<1>1. /\ TypeOK /\ ViewTrue /\ SnapshotsTrue /\ HandlersTrue /\ StreamTrue
      /\ \A t \in Tasks : excuse[t] = "none" => FollowUp(t)
  BY Parts
<1>2. /\ hydration'[h] = y
      /\ \A g \in Hydrations : g # h => hydration'[g] = hydration[g]
  BY <1>1, TypedParts
<1>3. ViewTrue' /\ HandlersTrue' /\ StreamTrue'
  BY <1>1, TrueKept
<1>4. SnapshotsTrue'
  <2>1. ASSUME NEW g \in Hydrations, NEW t \in Tasks
        PROVE  Fits(hydration[g].rows[t], t)' /\ Right(hydration[g].rows[t])'
    <3>1. PICK s : s = hydration'[g].rows[t]
      OBVIOUS
    <3>2. Fits(s, t) /\ Right(s)
      BY <1>1, <1>2, <3>1 DEF SnapshotsTrue, SnapshotTrue
    <3> QED
      BY <3>1, <3>2 DEF Fits, Right
  <2> QED
    BY <2>1 DEF SnapshotsTrue, SnapshotTrue
<1>5. ASSUME NEW t \in Tasks, excuse'[t] = "none"
      PROVE  FollowUp(t)'
  <2>1. FollowUp(t) /\ Fetched(t)
    BY <1>1, <1>5 DEF FollowUp
  <2>2. Known(t) => Known(t)'
    BY <2>1, FetchFrame
  <2>3. ASSUME NEW g \in Hydrations, connected, hydration'[g].fresh,
               hydration'[g].stage \in {"active", "answered"}
        PROVE  hydration'[g].rows[t].moved = moved[t] \/ Known(t)
    <3>1. CASE g = h
      BY <1>2, <2>1, <2>3, <3>1 DEF Fetched
    <3>2. CASE g # h
      BY <1>2, <2>1, <2>3, <3>2 DEF Fetched
    <3> QED
      BY <3>1, <3>2
  <2>4. Fetched(t)'
    BY <2>2, <2>3 DEF Fetched
  <2> QED
    BY <2>1, <2>4, FetchFrame
<1> QED
  BY <1>3, <1>4, <1>5 DEF ViewInv

LEMMA SnapshotActionsKeep ==
    ASSUME ViewInv, NEW h \in Hydrations,
           SelectActive(h) \/ SelectRecent(h) \/ HydrationFails(h)
    PROVE  ViewInv'
<1>1. /\ TypeOK /\ SnapshotsTrue /\ hydration \in [Hydrations -> Hydration]
      /\ hydration[h] \in Hydration /\ hydration[h].rows \in [Tasks -> Shown]
  BY Parts, TypedParts
<1>2. TypeOK'
  BY <1>1, SnapshotActionsTyped, Zenon
<1>3. UNCHANGED <<status, moved, reports, handler, stream, connected, view, hydrated, excuse>>
  BY DEF SelectActive, SelectRecent, HydrationFails, rowVars, serverVars
<1>4. CASE SelectActive(h)
  <2>1. PICK rows : rows = [t \in Tasks |-> IF status[t] \in Active THEN Current(t, 0)
                                            ELSE LeftOut(moved[t])]
    OBVIOUS
  <2>2. PICK y : y = [hydration[h] EXCEPT !.stage = "active", !.rows = rows]
    OBVIOUS
  <2>3. hydration' = [hydration EXCEPT ![h] = y]
    <3>1. hydration' = [hydration EXCEPT ![h].stage = "active", ![h].rows = rows]
      BY <1>4, <2>1 DEF SelectActive
    <3> QED
      BY <1>1, <2>2, <3>1
  <2>4. ASSUME NEW t \in Tasks
        PROVE  Fits(rows[t], t) /\ Right(rows[t]) /\ rows[t].moved = moved[t]
    <3>1. CASE status[t] \in Active
      BY <1>1, <2>1, <3>1, CurrentTyped DEF Percent
    <3>2. CASE status[t] \notin Active
      <4>1. status[t] \in Terminal \cup {"absent"}
        BY <1>1, <3>2, TypedParts
      <4>2. /\ rows[t] = LeftOut(moved[t]) /\ moved[t] \in Stamps /\ moved[t] \in Nat
        BY <1>1, <2>1, <3>2, StampsTyped
      <4>3. /\ LeftOut(moved[t]).status = "absent" /\ LeftOut(moved[t]).moved = moved[t]
            /\ Right(LeftOut(moved[t]))
        BY <4>2, LeftOutTyped
      <4> QED
        BY <4>1, <4>2, <4>3 DEF Fits
    <3> QED
      BY <3>1, <3>2
  <2>5. y.rows = rows
    BY <1>1, <2>2 DEF Hydration
  <2>6. SnapshotTrue(y.rows)
    BY <2>4, <2>5 DEF SnapshotTrue
  <2>7. \A t \in Tasks :
           \/ y.rows[t].moved = moved[t]
           \/ /\ y.fresh = hydration[h].fresh
              /\ hydration[h].stage \in {"active", "answered"}
              /\ y.rows[t].moved = hydration[h].rows[t].moved
    BY <2>4, <2>5, Zenon
  <2> QED
    BY <1>2, <1>3, <2>3, <2>6, <2>7, FetchKeeps
<1>5. CASE SelectRecent(h)
  <2>1. PICK rows : rows = RowsAnswered(h)
    OBVIOUS
  <2>2. PICK y : y = [hydration[h] EXCEPT !.stage = "answered", !.rows = rows]
    OBVIOUS
  <2>3. hydration' = [hydration EXCEPT ![h] = y]
    <3>1. hydration' = [hydration EXCEPT ![h].stage = "answered", ![h].rows = RowsAnswered(h)]
      BY <1>5, Zenon DEF SelectRecent, RowsAnswered
    <3> QED
      BY <1>1, <2>1, <2>2, <3>1
  <2>4. ASSUME NEW t \in Tasks
        PROVE  /\ Fits(rows[t], t) /\ Right(rows[t])
               /\ rows[t].moved = moved[t] \/ rows[t].moved = hydration[h].rows[t].moved
    <3>1. /\ Right(rows[t])
          /\ \/ /\ rows[t].status = hydration[h].rows[t].status
                /\ rows[t].moved = hydration[h].rows[t].moved
             \/ rows[t].status = status[t] /\ rows[t].moved = moved[t]
      BY <1>1, <2>1, Answered
    <3>2. Fits(hydration[h].rows[t], t) /\ moved[t] \in Nat
      BY <1>1, StampsTyped DEF SnapshotsTrue, SnapshotTrue
    <3> QED
      BY <3>1, <3>2 DEF Fits
  <2>5. y.rows = rows /\ y.fresh = hydration[h].fresh /\ hydration[h].stage = "active"
    BY <1>1, <1>5, <2>2 DEF Hydration, SelectRecent
  <2>6. SnapshotTrue(y.rows)
    BY <2>4, <2>5 DEF SnapshotTrue
  <2>7. \A t \in Tasks :
           \/ y.rows[t].moved = moved[t]
           \/ /\ y.fresh = hydration[h].fresh
              /\ hydration[h].stage \in {"active", "answered"}
              /\ y.rows[t].moved = hydration[h].rows[t].moved
    BY <2>4, <2>5
  <2> QED
    BY <1>2, <1>3, <2>3, <2>6, <2>7, FetchKeeps
<1>6. CASE HydrationFails(h)
  <2>1. hydration' = [hydration EXCEPT ![h] = NoHydration]
    BY <1>6 DEF HydrationFails
  <2>2. NoHydration.rows = NoRows /\ NoHydration.stage = "idle"
    BY <1>1, TypedParts
  <2>3. SnapshotTrue(NoHydration.rows)
    <3>1. \A t \in Tasks : NoRows[t] = NotShown /\ moved[t] >= 1 /\ moved[t] \in Nat
      BY <1>1, StampsTyped DEF NoRows
    <3> QED
      BY <2>2, <3>1, NotShownTyped DEF SnapshotTrue, Fits
  <2>4. PICK y : y = NoHydration
    OBVIOUS
  <2>5. /\ hydration' = [hydration EXCEPT ![h] = y] /\ SnapshotTrue(y.rows)
        /\ y.stage \notin {"active", "answered"}
    BY <2>1, <2>2, <2>3, <2>4
  <2> QED
    BY <1>2, <1>3, <2>5, FetchKeeps
<1> QED
  BY <1>4, <1>5, <1>6

-----------------------------------------------------------------------------
(* What is shown when the browser applies a snapshot or an event.          *)

\* Shown as it is, with nothing older to come.
LEMMA FreshlyShown ==
    ASSUME NEW t \in Tasks, view'[t].moved = moved'[t], Right(view'[t]),
           reports'[t] = 0, \A k \in DOMAIN stream' : stream'[k].task # t
    PROVE  FollowUp(t)'
<1>1. Followed(t)' /\ Fetched(t)'
  BY DEF Followed, Fetched, Known
<1>2. Corrected(t)'
  BY DEF Corrected, Right
<1>3. InTime(t)'
  BY DEF InTime
<1>4. Behind(t)'
  BY DEF Behind, Covered
<1> QED
  BY <1>1, <1>2, <1>3, <1>4 DEF FollowUp

LEMMA HydrateKeeps ==
    ASSUME ViewInv, NEW h \in Hydrations, Hydrate(h)
    PROVE  ViewInv'
<1>1. /\ TypeOK /\ ViewTrue /\ SnapshotsTrue /\ HandlersTrue /\ StreamTrue
      /\ \A t \in Tasks : excuse[t] = "none" => FollowUp(t)
  BY Parts
<1>2. TypeOK'
  BY <1>1, HydrateTyped, Zenon
<1>3. PICK rows \in [Tasks -> Shown] : rows = hydration[h].rows
  BY <1>1, TypedParts
<1>4. /\ Showing(rows) /\ hydration[h].stage = "answered"
      /\ hydrated' = (hydrated \/ hydration[h].fresh)
      /\ hydration' = [hydration EXCEPT ![h] = NoHydration]
      /\ UNCHANGED <<status, moved, reports, handler, stream, connected>>
  BY <1>3 DEF Hydrate, rowVars, serverVars
<1>5. /\ view' = rows
      /\ \A t \in Tasks : excuse'[t] = "none" =>
           \/ rows[t].moved = moved[t] /\ Shows(rows, t) /\ Heard(t)
           \/ excuse[t] = "none" /\ ~ (rows[t].moved < view[t].moved)
  BY <1>1, <1>4, ShowStep
<1>6. SnapshotTrue(rows)
  BY <1>1, <1>3 DEF SnapshotsTrue
<1>7. /\ hydration'[h] = NoHydration
      /\ \A g \in Hydrations : g # h => hydration'[g] = hydration[g]
  BY <1>1, <1>4, TypedParts
<1>8. ViewTrue' /\ HandlersTrue' /\ StreamTrue'
  <2>1. ViewTrue'
    BY <1>4, <1>5, <1>6 DEF ViewTrue, SnapshotTrue, Fits
  <2> QED
    BY <1>1, <1>4, <2>1, TrueKept
<1>9. SnapshotsTrue'
  <2>1. SnapshotTrue(NoRows)
    <3>1. \A t \in Tasks : NoRows[t] = NotShown /\ moved[t] >= 1 /\ moved[t] \in Nat
      BY <1>1, StampsTyped DEF NoRows
    <3> QED
      BY <3>1, NotShownTyped DEF SnapshotTrue, Fits
  <2>2. ASSUME NEW g \in Hydrations, NEW t \in Tasks
        PROVE  Fits(hydration[g].rows[t], t)' /\ Right(hydration[g].rows[t])'
    <3>1. PICK s : s = hydration'[g].rows[t]
      OBVIOUS
    <3>2. Fits(s, t) /\ Right(s)
      <4>1. CASE g = h
        BY <1>1, <1>7, <2>1, <3>1, <4>1, TypedParts DEF SnapshotTrue
      <4>2. CASE g # h
        BY <1>1, <1>7, <3>1, <4>2 DEF SnapshotsTrue, SnapshotTrue
      <4> QED
        BY <4>1, <4>2
    <3> QED
      BY <1>4, <3>1, <3>2 DEF Fits, Right
  <2> QED
    BY <2>2 DEF SnapshotsTrue, SnapshotTrue
<1>10. ASSUME NEW t \in Tasks, excuse'[t] = "none"
       PROVE  FollowUp(t)'
  <2>1. view'[t] = rows[t] /\ Right(rows[t]) /\ Fits(rows[t], t)
    BY <1>5, <1>6 DEF SnapshotTrue
  <2>2. CASE rows[t].moved = moved[t] /\ Shows(rows, t) /\ Heard(t)
    <3>1. /\ view'[t].moved = moved'[t] /\ Right(view'[t]) /\ reports'[t] = 0
          /\ \A k \in DOMAIN stream' : stream'[k].task # t
      BY <1>4, <2>1, <2>2 DEF Heard
    <3> QED
      BY <3>1, FreshlyShown
  <2>3. CASE excuse[t] = "none" /\ ~ (rows[t].moved < view[t].moved)
    <3>1. FollowUp(t)
      BY <1>1, <2>3
    <3>2. Due(t) => Due(t)'
      BY <1>4 DEF Due, Tells, Carries, IsTask
    <3>3. view[t].moved = moved[t] => rows[t].moved = moved[t]
      <4>1. rows[t].moved \in Nat /\ moved[t] \in Nat /\ rows[t].moved <= moved[t]
        BY <1>1, <2>1, StampsTyped, Sizes DEF Shown, Fits
      <4> QED
        BY <2>3, <4>1
    <3>4. Known(t) => Known(t)'
      BY <1>4, <2>1, <3>2, <3>3 DEF Known
    <3>5. Followed(t)'
      <4>1. ASSUME connected, hydrated \/ hydration[h].fresh
            PROVE  rows[t].moved = moved[t] \/ Known(t)
        BY <1>3, <1>4, <3>1, <4>1 DEF FollowUp, Followed, Fetched
      <4>2. rows[t].moved = moved[t] => Known(t)'
        BY <1>4, <2>1 DEF Known
      <4> QED
        BY <1>4, <3>4, <4>1, <4>2 DEF Followed
    <3>6. Fetched(t)'
      <4>1. ASSUME NEW g \in Hydrations, connected, hydration'[g].fresh,
                   hydration'[g].stage \in {"active", "answered"}
            PROVE  hydration'[g].rows[t].moved = moved[t] \/ Known(t)
        <5>1. g # h
          BY <1>1, <1>7, <4>1, TypedParts
        <5> QED
          BY <1>7, <3>1, <4>1, <5>1 DEF FollowUp, Fetched
      <4> QED
        BY <1>4, <3>4, <4>1 DEF Fetched
    <3>7. Corrected(t)'
      BY <2>1 DEF Corrected, Right
    <3>8. InTime(t)' /\ Behind(t)'
      BY <1>4, <3>1 DEF FollowUp, InTime, Behind, Covered, Settling, Settles, IsTask
    <3> QED
      BY <3>5, <3>6, <3>7, <3>8 DEF FollowUp
  <2> QED
    BY <1>5, <1>10, <2>2, <2>3
<1> QED
  BY <1>2, <1>8, <1>9, <1>10 DEF ViewInv

\* An event taken from the stream is shown, or another one is to come.
LEMMA TakenFrame ==
    ASSUME TypeOK, NEW t \in Tasks, FollowUp(t),
           UNCHANGED <<status, moved, reports, handler, connected, hydration, hydrated>>,
           stream # <<>>, stream' = Tail(stream)
    PROVE  /\ Due(t) => \/ Due(t)'
                        \/ IsTask(Head(stream), t) /\ Head(stream).shown.moved = moved[t]
           /\ Coming(t) => Coming(t)' \/ IsTask(Head(stream), t)
           /\ Head(stream).type = "progress" /\ Head(stream).task = t /\ status[t] \notin Held
                => Coming(t)'
           /\ InTime(t)' /\ Behind(t)'
<1>1. stream \in Seq(Event)
  BY TypedParts
<1>2. PICK e : e = Head(stream)
  OBVIOUS
<1>3. /\ \A m : Carries(stream, t, m) =>
           Carries(stream', t, m) \/ (IsTask(e, t) /\ e.shown.moved = m)
      /\ Announces(stream, t) => Announces(stream', t) \/ IsTask(e, t)
      /\ Covered(stream, t) => Covered(stream', t)
      /\ Covered(stream, t) /\ e.type = "progress" /\ e.task = t => Announces(stream', t)
  BY <1>1, <1>2, TailEvent, Zenon
<1>4. \A j \in Handlers : /\ Tells(handler[j], t, moved[t]) => Tells(handler[j], t, moved[t])'
                          /\ Settles(handler[j], t) => Settles(handler[j], t)'
  BY DEF Tells, Settles
<1>5. /\ Carries(stream, t, moved[t]) =>
           Carries(stream, t, moved[t])' \/ (IsTask(e, t) /\ e.shown.moved = moved[t])
      /\ Announces(stream, t) => Announces(stream, t)' \/ IsTask(e, t)
      /\ Covered(stream, t) => Covered(stream, t)'
      /\ Covered(stream, t) /\ e.type = "progress" /\ e.task = t => Announces(stream, t)'
  BY <1>3 DEF Carries, Announces, Covered
<1>6. Due(t) => Due(t)' \/ (IsTask(e, t) /\ e.shown.moved = moved[t])
  BY <1>4, <1>5, Zenon DEF Due
<1>7. Settling(t) => Settling(t)'
  BY <1>4, Zenon DEF Settling
<1>8. Coming(t) => Coming(t)' \/ IsTask(e, t)
  BY <1>5, <1>7, Zenon DEF Coming
<1>9. InTime(t)'
  BY DEF FollowUp, InTime, Settles
<1>10. Behind(t)'
  BY <1>5, <1>7 DEF FollowUp, Behind
<1>11. e.type = "progress" /\ e.task = t /\ status[t] \notin Held => Coming(t)'
  BY <1>5, <1>7, Zenon DEF FollowUp, Behind, Coming
<1> QED
  BY <1>2, <1>6, <1>8, <1>9, <1>10, <1>11

LEMMA ApplyTaskKeeps ==
    ASSUME ViewInv, ApplyTask
    PROVE  ViewInv'
<1>1. /\ TypeOK /\ ViewTrue /\ SnapshotsTrue /\ HandlersTrue /\ StreamTrue
      /\ \A t \in Tasks : excuse[t] = "none" => FollowUp(t)
  BY Parts
<1>2. TypeOK'
  BY <1>1, ApplyTyped, Zenon
<1>3. PICK e \in Event : e = Head(stream)
  BY <1>1, ApplyTaskStep
<1>4. PICK base \in [Tasks -> Shown] : base = [view EXCEPT ![e.task] = e.shown]
  BY <1>1, <1>3, ApplyTaskStep
<1>5. PICK rows \in [Tasks -> Shown] : rows = evictOldTerminal(base) /\ Showing(rows)
  <2>1. RowsApplied = evictOldTerminal(base)
    BY <1>3, <1>4, Zenon DEF RowsApplied
  <2> QED
    BY <1>1, <2>1, ApplyTaskStep, Zenon
<1>6. /\ stream # <<>> /\ stream' = Tail(stream) /\ e.type = "task" /\ e.task \in Tasks
      /\ UNCHANGED <<status, moved, reports, handler, connected, hydration, hydrated>>
  BY <1>1, <1>3, ApplyTaskStep DEF IsTask, rowVars, serverVars
<1>7. /\ view' = rows
      /\ \A t \in Tasks : excuse'[t] = "none" =>
           \/ rows[t].moved = moved[t] /\ Shows(rows, t) /\ Heard(t)
           \/ excuse[t] = "none" /\ ~ (rows[t].moved < view[t].moved)
  BY <1>1, <1>5, ShowStep, Zenon
<1>8. StreamTrue' /\ Published(e.shown, e.task)
  BY <1>1, <1>3, <1>6, EventTaken DEF EventTrue
<1>9. SnapshotsTrue' /\ HandlersTrue'
  BY <1>1, <1>6, TrueKept
<1>10. ASSUME NEW t \in Tasks
       PROVE  /\ base[t] \in Shown /\ Fits(base[t], t)
              /\ t = e.task => base[t] = e.shown /\ Right(base[t])
              /\ t # e.task => base[t] = view[t]
  BY <1>1, <1>4, <1>6, <1>8, TypedParts DEF ViewTrue, Published
<1>11. ASSUME NEW t \in Tasks
       PROVE  /\ Fits(rows[t], t) /\ rows[t].moved = base[t].moved
              /\ Right(base[t]) => Right(rows[t])
  <2>1. rows[t] = base[t] \/ (base[t].status \in Terminal /\ rows[t] = LeftOut(base[t].moved))
    BY <1>4, <1>5, Evicted, Zenon
  <2>2. CASE rows[t] = base[t]
    BY <1>10, <2>2, Zenon
  <2>3. CASE base[t].status \in Terminal /\ rows[t] = LeftOut(base[t].moved)
    <3>1. /\ rows[t].status = "absent" /\ rows[t].moved = base[t].moved /\ Right(rows[t])
      BY <1>10, <2>3, ShownTyped, LeftOutTyped
    <3> QED
      BY <1>10, <2>3, <3>1 DEF Fits, Terminal
  <2> QED
    BY <2>1, <2>2, <2>3
<1>12. ViewTrue'
  BY <1>6, <1>7, <1>11 DEF ViewTrue, Fits
<1>13. ASSUME NEW t \in Tasks, excuse'[t] = "none"
       PROVE  FollowUp(t)'
  <2>1. view'[t] = rows[t] /\ rows[t] \in Shown
    BY <1>7
  <2>2. CASE rows[t].moved = moved[t] /\ Shows(rows, t) /\ Heard(t)
    <3>1. Right(rows[t])
      <4>1. CASE rows[t] = Current(t, rows[t].progress)
        <5>1. rows[t].progress \in Percent
          BY <2>1, ShownTyped
        <5>2. Right(Current(t, rows[t].progress))
          BY <1>1, <5>1, CurrentTyped
        <5> QED
          BY <4>1, <5>2, Zenon
      <4>2. CASE rows[t].status = "absent"
        BY <4>2 DEF Right
      <4> QED
        BY <2>2, <4>1, <4>2 DEF Shows
    <3>2. /\ view'[t].moved = moved'[t] /\ Right(view'[t]) /\ reports'[t] = 0
          /\ \A k \in DOMAIN stream' : stream'[k].task # t
      BY <1>6, <2>1, <2>2, <3>1 DEF Heard
    <3> QED
      BY <3>2, FreshlyShown
  <2>3. CASE excuse[t] = "none" /\ ~ (rows[t].moved < view[t].moved)
    <3>1. FollowUp(t)
      BY <1>1, <2>3
    <3>2. /\ Due(t) => Due(t)' \/ (IsTask(e, t) /\ e.shown.moved = moved[t])
          /\ Coming(t) => Coming(t)' \/ IsTask(e, t)
          /\ InTime(t)' /\ Behind(t)'
      BY <1>1, <1>3, <1>6, <3>1, TakenFrame, Zenon
    <3>3. view[t].moved = moved[t] => rows[t].moved = moved[t]
      <4>1. rows[t].moved \in Nat /\ moved[t] \in Nat /\ rows[t].moved <= moved[t]
        BY <1>1, <1>11, <2>1, StampsTyped, Sizes DEF Shown, Fits
      <4> QED
        BY <2>3, <4>1
    <3>4. IsTask(e, t) => rows[t].moved = e.shown.moved /\ Right(rows[t])
      BY <1>10, <1>11 DEF IsTask
    <3>5. Known(t) => Known(t)'
      <4>1. Known(t) => rows[t].moved = moved[t] \/ Due(t)'
        BY <3>2, <3>3, <3>4, Zenon DEF Known
      <4> QED
        BY <1>6, <2>1, <4>1 DEF Known
    <3>6. Followed(t)'
      BY <1>6, <3>1, <3>5 DEF FollowUp, Followed
    <3>7. Fetched(t)'
      BY <1>6, <3>1, <3>5 DEF FollowUp, Fetched
    <3>8. Corrected(t)'
      <4>1. CASE t = e.task
        <5>1. Right(rows[t])
          BY <1>6, <3>4, <4>1 DEF IsTask
        <5> QED
          BY <2>1, <5>1 DEF Corrected, Right
      <4>2. CASE t # e.task
        <5>1. rows[t].moved = view[t].moved /\ (Right(view[t]) => Right(rows[t]))
          BY <1>10, <1>11, <4>2
        <5>2. Coming(t) => Coming(t)'
          BY <3>2, <4>2 DEF IsTask
        <5> QED
          BY <1>6, <2>1, <3>1, <5>1, <5>2 DEF FollowUp, Corrected, Right
      <4> QED
        BY <4>1, <4>2
    <3> QED
      BY <3>2, <3>6, <3>7, <3>8 DEF FollowUp
  <2> QED
    BY <1>7, <1>13, <2>2, <2>3
<1> QED
  BY <1>2, <1>8, <1>9, <1>12, <1>13 DEF ViewInv

\* A progress: of an attempt that goes on, or the end of it is to come.
LEMMA ApplyProgressKeeps ==
    ASSUME ViewInv, ApplyProgress
    PROVE  ViewInv'
<1>1. /\ TypeOK /\ ViewTrue /\ SnapshotsTrue /\ HandlersTrue /\ StreamTrue
      /\ \A t \in Tasks : excuse[t] = "none" => FollowUp(t)
  BY Parts
<1>2. TypeOK'
  BY <1>1, ApplyTyped, Zenon
<1>3. PICK e : e = Head(stream)
  OBVIOUS
<1>4. /\ stream # <<>> /\ stream' = Tail(stream) /\ e.type = "progress"
      /\ UNCHANGED <<status, moved, reports, handler, connected, hydration, hydrated, excuse>>
  BY <1>3 DEF ApplyProgress, rowVars, serverVars
<1>5. view' = view \/ view' = [view EXCEPT ![e.task].progress = e.shown.progress]
  <2>1. view' = IF view[e.task].status = "absent" THEN view
                ELSE [view EXCEPT ![e.task].progress = e.shown.progress]
    BY <1>3, Zenon DEF ApplyProgress
  <2> QED
    BY <2>1
<1>6. ASSUME NEW t \in Tasks
      PROVE  /\ view'[t].status = view[t].status /\ view'[t].moved = view[t].moved
             /\ t # e.task => view'[t] = view[t]
  <2>1. view \in [Tasks -> Shown] /\ view[t] \in Shown
    BY <1>1, TypedParts
  <2>2. CASE view' = view
    BY <2>2
  <2>3. CASE view' = [view EXCEPT ![e.task].progress = e.shown.progress]
    <3>1. CASE t = e.task
      <4>1. view'[t] = [view[t] EXCEPT !.progress = e.shown.progress]
        BY <2>1, <2>3, <3>1
      <4> QED
        BY <2>1, <3>1, <4>1 DEF Shown
    <3>2. CASE t # e.task
      BY <2>1, <2>3, <3>2
    <3> QED
      BY <3>1, <3>2
  <2> QED
    BY <1>5, <2>2, <2>3
<1>7. StreamTrue' /\ SnapshotsTrue' /\ HandlersTrue'
  BY <1>1, <1>4, EventTaken, TrueKept
<1>8. ViewTrue'
  BY <1>1, <1>4, <1>6 DEF ViewTrue, Fits
<1>9. ASSUME NEW t \in Tasks, excuse'[t] = "none"
      PROVE  FollowUp(t)'
  <2>1. FollowUp(t)
    BY <1>1, <1>4, <1>9
  <2>2. ~ IsTask(e, t)
    BY <1>4 DEF IsTask
  <2>3. /\ Due(t) => Due(t)'
        /\ Coming(t) => Coming(t)'
        /\ e.task = t /\ status[t] \notin Held => Coming(t)'
        /\ InTime(t)' /\ Behind(t)'
    BY <1>1, <1>3, <1>4, <2>1, <2>2, TakenFrame, Zenon
  <2>4. Known(t) => Known(t)'
    BY <1>4, <1>6, <2>3 DEF Known
  <2>5. Followed(t)'
    BY <1>4, <2>1, <2>4 DEF FollowUp, Followed
  <2>6. Fetched(t)'
    BY <1>4, <2>1, <2>4 DEF FollowUp, Fetched
  <2>7. Corrected(t)'
    <3>1. CASE t # e.task
      BY <1>4, <1>6, <2>1, <2>3, <3>1 DEF FollowUp, Corrected, Right
    <3>2. CASE t = e.task /\ status[t] \notin Held
      BY <2>3, <3>2 DEF Corrected
    <3>3. CASE status[t] \in Held
      <4>1. view'[t].moved = moved'[t] => view'[t].status \in Held
        BY <1>1, <1>4, <1>6, <3>3 DEF ViewTrue, Fits, Held, Terminal
      <4>2. view'[t].moved = moved'[t] => Right(view'[t])
        BY <4>1 DEF Right, Held
      <4> QED
        BY <4>2 DEF Corrected, Right
    <3> QED
      BY <3>1, <3>2, <3>3
  <2> QED
    BY <2>3, <2>5, <2>6, <2>7 DEF FollowUp
<1> QED
  BY <1>2, <1>7, <1>8, <1>9 DEF ViewInv

-----------------------------------------------------------------------------
(* The invariant, from the first state on.                                 *)

LEMMA InitKeeps == Init => ViewInv
<1> SUFFICES ASSUME Init
             PROVE  ViewInv
  OBVIOUS
<1>1. TypeOK
  BY InitTyped
<1>2. /\ \A t \in Tasks : view[t] = NotShown /\ reports[t] = 0
      /\ \A i \in Handlers : handler[i].stage = "idle"
      /\ \A h \in Hydrations : hydration[h] = NoHydration
      /\ stream = <<>> /\ connected = FALSE
  BY DEF Init, NoRows, NoHandler
<1>3. \A t \in Tasks : moved[t] >= 1 /\ moved[t] \in Nat
  BY <1>1, StampsTyped
<1>4. \A t \in Tasks : Fits(NotShown, t) /\ Right(NotShown)
  BY <1>3, NotShownTyped DEF Fits
<1>5. ViewTrue
  BY <1>2, <1>4 DEF ViewTrue
<1>6. SnapshotsTrue
  <2>1. \A h \in Hydrations : hydration[h].rows = NoRows
    BY <1>1, <1>2, TypedParts, Zenon
  <2>2. \A t \in Tasks : NoRows[t] = NotShown
    BY DEF NoRows
  <2> QED
    BY <1>4, <2>1, <2>2, Zenon DEF SnapshotsTrue, SnapshotTrue
<1>7. HandlersTrue
  BY <1>2, Zenon DEF HandlersTrue, HandlerTrue
<1>8. StreamTrue
  BY <1>2, NoEvents, Zenon DEF StreamTrue
<1>9. ASSUME NEW t \in Tasks
      PROVE  FollowUp(t)
  <2>1. Covered(stream, t)
    BY <1>2, NoEvents, Zenon
  <2>2. Followed(t) /\ Fetched(t) /\ Corrected(t)
    BY <1>2 DEF Followed, Fetched, Corrected
  <2>3. InTime(t)
    BY <1>2 DEF InTime
  <2> QED
    BY <2>1, <2>2, <2>3 DEF FollowUp, Behind
<1> QED
  BY <1>1, <1>5, <1>6, <1>7, <1>8, <1>9 DEF ViewInv

LEMMA StutterKeeps ==
    ASSUME ViewInv, UNCHANGED vars
    PROVE  ViewInv'
<1>1. /\ TypeOK /\ ViewTrue /\ SnapshotsTrue /\ HandlersTrue /\ StreamTrue
      /\ \A t \in Tasks : excuse[t] = "none" => FollowUp(t)
  BY Parts
<1>2. TypeOK'
  BY <1>1, StepTyped, Zenon
<1>3. UNCHANGED <<status, moved, reports, handler, stream, connected, hydration, view,
                  hydrated, excuse>>
  BY DEF vars, rowVars, serverVars, browserVars
<1>4. ViewTrue' /\ SnapshotsTrue' /\ HandlersTrue' /\ StreamTrue'
  BY <1>1, <1>3, TrueKept
<1>5. ASSUME NEW t \in Tasks, excuse'[t] = "none"
      PROVE  FollowUp(t)'
  <2>1. FollowUp(t)
    BY <1>1, <1>3, <1>5
  <2>2. (Due(t) => Due(t)') /\ (Coming(t) => Coming(t)')
    BY <1>3 DEF Due, Coming, Settling, Tells, Settles, Carries, Announces, IsTask
  <2>3. InTime(t)' /\ Behind(t)'
    BY <1>3, <2>1 DEF FollowUp, InTime, Behind, Covered, Settling, Settles, IsTask
  <2> QED
    BY <1>3, <2>1, <2>2, <2>3, FollowUpKept
<1> QED
  BY <1>2, <1>4, <1>5 DEF ViewInv

LEMMA StepKeeps ==
    ASSUME ViewInv, [Next]_vars
    PROVE  ViewInv'
<1>1. CASE \E t \in Tasks : MoveRow(t) \/ Unmoved(t) \/ SetProgress(t) \/ PublishProgress(t)
  BY <1>1, MoveRowKeeps, UnmovedKeeps, SetProgressKeeps, PublishProgressKeeps, Zenon
<1>2. CASE \E i \in Handlers : ReadBack(i) \/ Clear(i) \/ Publish(i) \/ HandlerDies(i)
  BY <1>2, ReadBackKeeps, ClearKeeps, PublishKeeps, HandlerDiesKeeps, Zenon
<1>3. CASE \E h \in Hydrations : SelectActive(h) \/ SelectRecent(h) \/ HydrationFails(h)
  BY <1>3, SnapshotActionsKeep, Zenon
<1>4. CASE \E h \in Hydrations : Hydrate(h)
  BY <1>4, HydrateKeeps, Zenon
<1>5. CASE Open
  BY <1>5, OpenKeeps, Zenon
<1>6. CASE Break \/ Unsubscribe \/ Resubscribe
  BY <1>6, ConnectionsKeep, Zenon
<1>7. CASE ApplyTask
  BY <1>7, ApplyTaskKeeps, Zenon
<1>8. CASE ApplyProgress
  BY <1>8, ApplyProgressKeeps, Zenon
<1>9. CASE UNCHANGED vars
  BY <1>9, StutterKeeps, Zenon
<1> QED
  BY <1>1, <1>2, <1>3, <1>4, <1>5, <1>6, <1>7, <1>8, <1>9, Zenon DEF Next

LEMMA ViewSafe == Spec => []ViewInv
<1>1. ViewInv /\ [Next]_vars => ViewInv'
  BY StepKeeps
<1> QED
  BY InitKeeps, <1>1, PTL DEF Spec

(* A row that a browser with nothing under way shows otherwise than it is  *)
(* had an event lost, or something older shown over something newer, since *)
(* the stream opened.  Whatever the order of streams, snapshots, handlers  *)
(* and events, for any number of them (event-bus.ts, sse-hub.ts,           *)
(* use-task-stream.ts, task-store.ts), each open makes up for what went    *)
(* wrong before.                                                           *)
THEOREM ViewCatchesUpAlways == Spec => []ViewCatchesUp
<1>1. ASSUME ViewInv, Quiet, NEW t \in Tasks, excuse[t] = "none"
      PROVE  Shows(view, t)
  <2>1. /\ TypeOK /\ Fits(view[t], t) /\ FollowUp(t) /\ view[t] \in Shown
    BY <1>1, Parts, TypedParts DEF ViewTrue
  <2>2. ~ Due(t) /\ ~ Coming(t)
    <3>1. /\ \A m : ~ Carries(stream, t, m)
          /\ ~ Announces(stream, t)
      BY <1>1, NoEvents, Zenon DEF Quiet
    <3>2. \A i \in Handlers : ~ Settles(handler[i], t) /\ ~ Tells(handler[i], t, moved[t])
      BY <1>1, IdleTells, Zenon DEF Quiet
    <3> QED
      BY <3>1, <3>2, Zenon DEF Due, Coming, Settling
  <2>3. view[t].moved = moved[t]
    BY <1>1, <2>1, <2>2 DEF FollowUp, Followed, Known, Quiet
  <2>4. Right(view[t])
    BY <1>1, <2>1, <2>2, <2>3 DEF FollowUp, Corrected, Quiet
  <2>5. CASE view[t].status = status[t]
    <3>1. progressFor(status[t], view[t].progress) = view[t].progress
      BY <2>4, <2>5 DEF Right, progressFor
    <3> QED
      BY <2>1, <2>3, <2>5, <3>1, ShownTyped DEF Shows, Current
  <2>6. CASE view[t].status = "absent" /\ status[t] \in Terminal
    BY <2>6 DEF Shows
  <2> QED
    BY <2>1, <2>3, <2>5, <2>6 DEF Fits
<1>2. ViewInv => ViewCatchesUp
  <2>1. ASSUME ViewInv, Quiet, NEW t \in Tasks
        PROVE  Shows(view, t) \/ excuse[t] # "none"
    BY <1>1, <2>1, Zenon
  <2> QED
    BY <2>1, Zenon DEF ViewCatchesUp
<1> QED
  BY <1>2, ViewSafe, PTL

-----------------------------------------------------------------------------
(* What disappears.                                                        *)

\* If something is evicted, something that ended later stays.
LEMMA LatestKept ==
    ASSUME NEW rows \in [Tasks -> Shown], NEW t \in Tasks, rows[t].status \in Terminal,
           evictOldTerminal(rows)[t] # rows[t]
    PROVE  \E u \in Tasks : /\ rows[u].status \in Terminal /\ rows[u].moved > rows[t].moved
                            /\ evictOldTerminal(rows)[u] = rows[u]
<1> DEFINE over == {u \in Tasks : rows[u].status \in Terminal}
           age == [u \in Tasks |-> rows[u].moved]
           kept == Newest(over, age)
<1>1. evictOldTerminal(rows) =
        [u \in Tasks |-> IF u \in over \ kept THEN LeftOut(rows[u].moved) ELSE rows[u]]
  BY DEF evictOldTerminal
<1>2. \A u \in over : age[u] \in Stamps /\ age[u] \in Nat
  BY ShownTyped, Sizes DEF Stamps
<1>3. t \in over /\ over \subseteq Tasks
  OBVIOUS
<1>4. \A u \in over : rows[u].status \in Terminal /\ age[u] = rows[u].moved
  OBVIOUS
<1> HIDE DEF over, age
<1>5. PICK u \in over : \A w \in over : age[w] <= age[u]
  <2>1. \A w \in over : age[w] \in 0 .. Cardinality(Tasks) + Moves
    BY <1>2 DEF Stamps
  <2> QED
    BY <1>3, <2>1, Sizes, LatestIn
<1>6. {w \in over : age[w] > age[u]} = {}
  BY <1>2, <1>5
<1>7. Cardinality({w \in over : age[w] > age[u]}) < RECENT_TERMINAL_LIMIT
  BY <1>6, FS_EmptySet, BoundsAssumption
<1>8. u \in kept
  BY <1>7 DEF Newest
<1>9. \E w \in over : age[w] > age[t]
  <2>1. t \notin kept
    BY <1>1, Zenon
  <2>2. {w \in over : age[w] > age[t]} # {}
    BY <1>3, <2>1, FS_EmptySet, BoundsAssumption DEF Newest
  <2> QED
    BY <2>2
<1> HIDE DEF kept
<1>10. evictOldTerminal(rows)[u] = rows[u]
  BY <1>1, <1>3, <1>8
<1>11. age[u] > age[t]
  BY <1>2, <1>3, <1>5, <1>9
<1> QED
  BY <1>3, <1>4, <1>10, <1>11

\* What an event makes disappear has ended, and something that ended later is shown.
LEMMA AppliedEvicts ==
    ASSUME ViewInv, ApplyTask, NEW t \in Tasks,
           view[t].status # "absent", view'[t].status = "absent"
    PROVE  /\ view[t].status \in Terminal \/ Head(stream).task = t
           /\ \E u \in Tasks : view'[u].status \in Terminal
                               /\ view'[u].moved > view'[t].moved
<1>1. TypeOK /\ StreamTrue /\ view \in [Tasks -> Shown]
  BY Parts, TypedParts
<1>2. PICK e \in Event : e = Head(stream)
  BY <1>1, ApplyTaskStep
<1>3. PICK base \in [Tasks -> Shown] : base = [view EXCEPT ![e.task] = e.shown]
  BY <1>1, <1>2, ApplyTaskStep
<1>4. view' = evictOldTerminal(base)
  <2>1. RowsApplied = evictOldTerminal(base)
    BY <1>2, <1>3, Zenon DEF RowsApplied
  <2> QED
    BY <1>1, <2>1, ApplyTaskStep, ShowStep, Zenon
<1>5. e.shown.status # "absent"
  <2>1. e = stream[1] /\ 1 \in DOMAIN stream /\ e.type = "task"
    BY <1>1, <1>2, ApplyTaskStep, TailEvent DEF IsTask
  <2> QED
    BY <1>1, <2>1 DEF StreamTrue, EventTrue, Published
<1>6. base[t].status # "absent" /\ (t # e.task => base[t] = view[t])
  BY <1>1, <1>3, <1>5
<1>7. /\ base[t].status \in Terminal /\ view'[t] # base[t]
      /\ view'[t].moved = base[t].moved
  <2>1. view'[t] = base[t] \/ (base[t].status \in Terminal /\ view'[t] = LeftOut(base[t].moved))
    BY <1>3, <1>4, Evicted, Zenon
  <2>2. base[t].moved \in Stamps
    BY <1>3, ShownTyped
  <2> QED
    BY <1>6, <2>1, <2>2, LeftOutTyped
<1>8. PICK u \in Tasks : /\ base[u].status \in Terminal /\ base[u].moved > base[t].moved
                         /\ view'[u] = base[u]
  BY <1>3, <1>4, <1>7, LatestKept, Zenon
<1> QED
  BY <1>2, <1>6, <1>7, <1>8

LEMMA OthersEvictNone ==
    ASSUME ViewInv, [Next]_vars, NEW t \in Tasks,
           view[t].status # "absent", view'[t].status = "absent"
    PROVE  ApplyTask \/ \E h \in Hydrations : Hydrate(h)
<1>1. view \in [Tasks -> Shown]
  BY Parts, TypedParts
<1>2. CASE \E s \in Tasks : MoveRow(s) \/ Unmoved(s) \/ SetProgress(s) \/ PublishProgress(s)
  BY <1>2 DEF MoveRow, Unmoved, SetProgress, PublishProgress, browserVars
<1>3. CASE \E i \in Handlers : ReadBack(i) \/ Clear(i) \/ Publish(i) \/ HandlerDies(i)
  BY <1>3 DEF ReadBack, Clear, Publish, HandlerDies, browserVars
<1>4. CASE \E h \in Hydrations : SelectActive(h) \/ SelectRecent(h) \/ HydrationFails(h)
  BY <1>4 DEF SelectActive, SelectRecent, HydrationFails
<1>5. CASE Open \/ Break \/ Unsubscribe \/ Resubscribe
  BY <1>5 DEF Open, Break, Unsubscribe, Resubscribe, browserVars
<1>6. CASE ApplyProgress
  <2>1. PICK e : e = Head(stream)
    OBVIOUS
  <2>2. view' = IF view[e.task].status = "absent" THEN view
                ELSE [view EXCEPT ![e.task].progress = e.shown.progress]
    BY <1>6, <2>1, Zenon DEF ApplyProgress
  <2>3. CASE view' = [view EXCEPT ![e.task].progress = e.shown.progress] /\ t = e.task
    <3>1. view'[t] = [view[t] EXCEPT !.progress = e.shown.progress] /\ view[t] \in Shown
      BY <1>1, <2>3
    <3> QED
      BY <3>1 DEF Shown
  <2>4. CASE view' = view \/ t # e.task
    BY <1>1, <2>2, <2>4
  <2> QED
    BY <2>2, <2>3, <2>4
<1>7. CASE UNCHANGED vars
  BY <1>7 DEF vars, browserVars
<1> QED
  BY <1>2, <1>3, <1>4, <1>5, <1>6, <1>7, Zenon DEF Next

(* A task disappears from an open dashboard only when a snapshot replaces  *)
(* the picture, or when it has ended and another one that ended later is   *)
(* shown (evictOldTerminal of task-store.ts).                              *)
THEOREM OldEvictedOnly == Spec => OnlyOldEvicted
<1>1. ASSUME ViewInv, [Next]_vars, NEW t \in Tasks,
             view[t].status # "absent", view'[t].status = "absent"
      PROVE  \/ \E h \in Hydrations : hydration[h].stage = "answered"
                                      /\ hydration'[h].stage = "idle"
             \/ /\ view[t].status \in Terminal \/ Head(stream).task = t
                /\ \E u \in Tasks : view'[u].status \in Terminal
                                    /\ view'[u].moved > view'[t].moved
  <2>1. CASE ApplyTask
    BY <1>1, <2>1, AppliedEvicts, Zenon
  <2>2. CASE \E h \in Hydrations : Hydrate(h)
    <3>1. PICK h \in Hydrations : Hydrate(h)
      BY <2>2
    <3>2. hydration[h].stage = "answered" /\ hydration' = [hydration EXCEPT ![h] = NoHydration]
      BY <3>1 DEF Hydrate
    <3>3. hydration'[h].stage = "idle"
      BY <1>1, <3>2, Parts, TypedParts
    <3> QED
      BY <3>2, <3>3
  <2> QED
    BY <1>1, <2>1, <2>2, OthersEvictNone, Zenon
<1>2. ViewInv /\ [Next]_vars =>
        [\A t \in Tasks :
           view[t].status # "absent" /\ view'[t].status = "absent" =>
             \/ \E h \in Hydrations : hydration[h].stage = "answered"
                                      /\ hydration'[h].stage = "idle"
             \/ /\ view[t].status \in Terminal \/ Head(stream).task = t
                /\ \E u \in Tasks : view'[u].status \in Terminal
                                    /\ view'[u].moved > view'[t].moved]_vars
  BY <1>1, Zenon
<1> QED
  BY <1>2, ViewSafe, PTL DEF Spec, OnlyOldEvicted

=============================================================================

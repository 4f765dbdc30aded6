------------------------------- MODULE LiveView -------------------------------
(***************************************************************************)
(* How a browser comes to show the tasks: every process that moves a row   *)
(* reads it back and publishes it (event-bus.ts), the api fans what it     *)
(* hears out to the open streams (sse-hub.ts), and the browser applies it  *)
(* to what it fetched when the stream opened (use-task-stream.ts,          *)
(* task-store.ts).  There is no log and no sequence number.                *)
(*                                                                         *)
(* Rows move as TaskLifecycle says; `moved` stamps each move, so that ages *)
(* can be compared.  The code carries no such stamp.  One api, one worker, *)
(* one browser.                                                            *)
(***************************************************************************)
EXTENDS Naturals, Sequences, FiniteSets, FiniteSetsExt, Functions

CONSTANTS
    Tasks, MaxAttempts,
    Resting,        \* bound: tasks that have ended and stay so
    Handlers,       \* bound on the handlers publishing at a time
    Hydrations,     \* bound on the fetches of a snapshot at a time
    Moves,          \* bound on the moves of rows
    Troubles,       \* bound on losses of connections, processes and answers
    Upsets,         \* bound on moves and troubles together
    RECENT_TERMINAL_LIMIT

ASSUME TasksAssumption == IsFiniteSet(Tasks) /\ Tasks # {} /\ Resting \subseteq Tasks
ASSUME NamesAssumption == Handlers \subseteq Nat /\ Hydrations \subseteq Nat
ASSUME BoundsAssumption ==
    /\ MaxAttempts \in Nat \ {0} /\ RECENT_TERMINAL_LIMIT \in Nat \ {0}
    /\ Moves \in Nat /\ Troubles \in Nat /\ Upsets \in Nat

VARIABLES
    status, attempts,   \* the rows, see TaskLifecycle
    moved,      \* moved[t]: stamp of the last move of t
    clock,      \* the stamps given
    stored,     \* stored[t]: the percentage kept in Redis, 0 if there is none
    reports,    \* reports[t]: the stamp of the attempt whose progress is set and
                \* about to be published, 0 if there is none
    handler,    \* handler[i]: a handler that moved a row, see Handler
    subscribed, \* the api hears the channel
    stream,     \* events on their way to the browser, if connected
    connected,  \* the stream is open
    hydration,  \* hydration[h]: see Hydration
    view,       \* view[t]: what the browser shows of t
    hydrated,   \* a snapshot fetched since the stream opened is shown (history)
    excuse,     \* excuse[t]: why t may be shown stale since the stream opened
                \* (history)
    troubles    \* counts what the bound Troubles is for

rowVars == <<status, attempts, moved, clock>>
serverVars == <<stored, reports, handler, subscribed>>
browserVars == <<connected, hydration, view, hydrated>>
vars == <<rowVars, serverVars, stream, browserVars, excuse, troubles>>

Row == INSTANCE TaskLifecycle

Active == {"queued", "running", "cancelling"}
Terminal == {"completed", "failed", "cancelled", "dead_letter"}
Held == {"running", "cancelling"}

\* Percentages: none, some, all.
Percent == {0, 50, 100}

(* A task as it is published and shown.  The status of one that is not     *)
(* shown is "absent"; its stamp says what of it was left out or evicted.   *)
Shown == [status : Active \cup Terminal \cup {"absent"}, moved : 0 .. Cardinality(Tasks) + Moves,
          progress : Percent]
LeftOut(m) == [status |-> "absent", moved |-> m, progress |-> 0]
NotShown == LeftOut(0)

progressFor(s, p) ==
    IF s = "completed" THEN 100 ELSE IF s = "queued" THEN 0 ELSE p

(* A handler that publishes what became of a row.  way: "created" is       *)
(* create, "asked" publishUpdate of the api, "claimed" the dispatcher,     *)
(* "settled" TaskRecovery.publish.  shown: the row as read back.           *)
Ways == {"created", "asked", "claimed", "settled"}
Handler == [stage : {"moved", "read", "cleared"}, way : Ways,
            task : Tasks, shown : Shown]

Event == [type : {"task", "progress"}, task : Tasks, shown : Shown]

(* A fetch of the dashboard: sent, the active rows selected, the recent    *)
(* ones too; the answer is on its way.                                     *)
Hydration == [stage : {"idle", "sent", "active", "answered"},
              rows : [Tasks -> Shown], fresh : BOOLEAN]

NoRows == [t \in Tasks |-> NotShown]
NoHydration == [stage |-> "idle", rows |-> NoRows, fresh |-> FALSE]
NoHandler == [stage |-> "idle"]

Excuses == {"none", "lost", "overtaken"}

(* The browser comes to a system that has been running.  Bound: a row that *)
(* is not given up is in its first attempt.  What has not ended has the    *)
(* older stamps: only those of tasks that have ended are ever compared.    *)
Spent(s) ==
    CASE s \in {"absent", "queued", "cancelled"} -> 0
      [] s = "dead_letter" -> MaxAttempts
      [] OTHER -> 1

Init ==
    /\ status \in [Tasks -> Active \cup Terminal \cup {"absent"}]
    /\ attempts = [t \in Tasks |-> Spent(status[t])]
    /\ \A t \in Resting : status[t] = "completed"
    /\ moved \in Bijection(Tasks, 1 .. Cardinality(Tasks))
    /\ \A t, u \in Tasks :
         status[t] \notin Terminal /\ status[u] \in Terminal => moved[t] < moved[u]
    /\ clock = Cardinality(Tasks)
    /\ stored = [t \in Tasks |-> 0]
    /\ reports = [t \in Tasks |-> 0]
    /\ handler = [i \in Handlers |-> NoHandler]
    /\ subscribed = TRUE
    /\ stream = <<>>
    /\ connected = FALSE
    /\ hydration = [h \in Hydrations |-> NoHydration]
    /\ view = NoRows
    /\ hydrated = FALSE
    /\ excuse = [t \in Tasks |-> "none"]
    /\ troubles = 0

-----------------------------------------------------------------------------
(* Rows move, and whoever moved one reads it back and publishes it.        *)

Idle == {i \in Handlers : handler[i].stage = "idle"}

Begin(t, way) ==
    /\ Idle # {}
    /\ handler' = [handler EXCEPT ![Min(Idle)] =
                     [stage |-> "moved", way |-> way, task |-> t, shown |-> NotShown]]

Bounded == clock + troubles < Cardinality(Tasks) + Upsets

Stamp(t) ==
    /\ Bounded /\ clock < Cardinality(Tasks) + Moves
    /\ clock' = clock + 1
    /\ moved' = [moved EXCEPT ![t] = clock + 1]

ApiMoves(t) ==
    \/ Row!Submit(t) /\ Begin(t, "created")
    \/ (Row!Withdraw(t) \/ Row!AskToStop(t) \/ Row!Revive(t)) /\ Begin(t, "asked")

WorkerMoves(t) ==
    \/ Row!Start(t) /\ Begin(t, "claimed")
    \/ (Row!End(t) \/ Row!TryAgain(t) \/ Row!GiveUp(t)) /\ Begin(t, "settled")

MoveRow(t) ==
    /\ ApiMoves(t) \/ WorkerMoves(t)
    /\ Stamp(t)
    /\ UNCHANGED <<stored, reports, subscribed, stream, browserVars, excuse, troubles>>

Current(t, p) ==
    [status |-> status[t], moved |-> moved[t], progress |-> progressFor(status[t], p)]

\* findById after the statement.
ReadBack(i) ==
    LET t == handler[i].task
    IN /\ handler[i].stage = "moved"
       /\ handler' = [handler EXCEPT ![i].stage = "read", ![i].shown = Current(t, 0)]
       /\ UNCHANGED <<rowVars, stored, reports, subscribed, stream, browserVars,
                      excuse, troubles>>

\* No progress is set and still to be published.
Reported == \A t \in Tasks : reports[t] = 0

(* progress.clear, when its reply arrives.  Replies come in the order of   *)
(* the commands: that of any progress set before has arrived, and the      *)
(* progress has been published.                                            *)
Clear(i) ==
    /\ handler[i].stage = "read" /\ handler[i].way = "settled"
    /\ Reported
    /\ stored' = [stored EXCEPT ![handler[i].task] = 0]
    /\ handler' = [handler EXCEPT ![i].stage = "cleared"]
    /\ UNCHANGED <<rowVars, reports, subscribed, stream, browserVars, excuse, troubles>>

\* Slip: the hub writes to a stream that has closed.
SentAnyway(e) == stream' = Append(stream, e) /\ UNCHANGED excuse

(* An event reaches the browser if the api hears it while the stream is    *)
(* open.  Otherwise it is gone; a stream that opens later makes up for it. *)
Sent(e) ==
    /\ stream' = IF connected /\ subscribed THEN Append(stream, e) ELSE stream
    /\ excuse' = IF connected /\ ~ subscribed
                 THEN [excuse EXCEPT ![e.task] = "lost"] ELSE excuse

\* Slip: a settlement is published without waiting for the progress.
ReadyAtOnce(r) == r.stage = "read"

Ready(r) ==
    \/ r.stage = "read" /\ r.way \in {"created", "asked", "claimed"}
    \/ r.stage = "cleared"

\* publishUpdate of the api adds the percentage of the moment.
Announced(r) ==
    IF r.way = "asked"
    THEN [r.shown EXCEPT !.progress = progressFor(r.shown.status, stored[r.task])]
    ELSE r.shown

Publish(i) ==
    /\ Ready(handler[i])
    /\ Sent([type |-> "task", task |-> handler[i].task, shown |-> Announced(handler[i])])
    /\ handler' = [handler EXCEPT ![i] = NoHandler]
    /\ UNCHANGED <<rowVars, stored, reports, subscribed, browserVars, troubles>>

(* onProgress: the percentage is set, and published when that is           *)
(* confirmed.  One tick of an attempt stands for all: a second one would   *)
(* set and publish the same.  A thread that works on after its lease has   *)
(* lapsed (see TaskEngine) reports nothing here.                           *)
SetProgress(t) ==
    /\ status[t] \in Held
    /\ reports[t] = 0 /\ stored[t] = 0
    /\ stored' = [stored EXCEPT ![t] = 50]
    /\ reports' = [reports EXCEPT ![t] = moved[t]]
    /\ UNCHANGED <<rowVars, handler, subscribed, stream, browserVars, excuse, troubles>>

PublishProgress(t) ==
    /\ reports[t] # 0
    /\ reports' = [reports EXCEPT ![t] = 0]
    /\ Sent([type |-> "progress", task |-> t,
             shown |-> [status |-> "running", moved |-> reports[t], progress |-> 50]])
    /\ UNCHANGED <<rowVars, stored, handler, subscribed, browserVars, troubles>>

-----------------------------------------------------------------------------
(* The browser.                                                            *)

\* The newest of the terminal tasks are kept.
Newest(T, age) ==
    {t \in T : Cardinality({u \in T : age[u] > age[t]}) < RECENT_TERMINAL_LIMIT}

\* rows show t as it is, or leave out that it has ended.
Shows(rows, t) ==
    \/ rows[t] = Current(t, rows[t].progress)
    \/ rows[t].status = "absent" /\ status[t] \in Terminal \cup {"absent"}

\* No event about t is still to come.
Heard(t) == reports[t] = 0 /\ \A k \in DOMAIN stream' : stream'[k].task # t

(* What showing rows makes of the history: an excuse holds until the row   *)
(* is shown as it is and nothing older is still to come, or the stream     *)
(* opens again.                                                            *)
Showing(rows) ==
    /\ view' = rows
    /\ excuse' = [t \in Tasks |->
         IF rows[t].moved < view[t].moved THEN "overtaken"
         ELSE IF rows[t].moved = moved[t] /\ Shows(rows, t) /\ Heard(t) THEN "none"
         ELSE excuse[t]]

(* The stream opens: onopen fetches a snapshot.  It is to make up for      *)
(* everything before, so the excuses end; not if a progress about to be    *)
(* published may outlive the attempt, its end having been lost.            *)
Open ==
    /\ ~ connected
    /\ \E h \in Hydrations : hydration[h].stage = "idle"
    /\ LET free == {h \in Hydrations : hydration[h].stage = "idle"}
       IN hydration' = [h \in Hydrations |->
            IF h = Min(free) THEN [NoHydration EXCEPT !.stage = "sent", !.fresh = TRUE]
            ELSE [hydration[h] EXCEPT !.fresh = FALSE]]
    /\ connected' = TRUE
    /\ stream' = <<>>
    /\ hydrated' = FALSE
    /\ excuse' = [t \in Tasks |-> IF reports[t] = 0 THEN "none" ELSE excuse[t]]
    /\ UNCHANGED <<rowVars, serverVars, view, troubles>>

\* findActiveAndRecent: two statements.
SelectActive(h) ==
    /\ hydration[h].stage = "sent"
    /\ hydration' = [hydration EXCEPT ![h].stage = "active",
                       ![h].rows = [t \in Tasks |->
                          IF status[t] \in Active THEN Current(t, 0)
                          ELSE LeftOut(moved[t])]]
    /\ UNCHANGED <<rowVars, serverVars, stream, connected, view, hydrated,
                   excuse, troubles>>

\* The recent rows come behind and win; then the percentages.
SelectRecent(h) ==
    LET recent == Newest({t \in Tasks : status[t] \in Terminal}, moved)
        rows == [t \in Tasks |-> IF t \in recent THEN Current(t, 0)
                                                 ELSE hydration[h].rows[t]]
    IN /\ hydration[h].stage = "active"
       /\ hydration' = [hydration EXCEPT ![h].stage = "answered",
                          ![h].rows = [t \in Tasks |->
                             [rows[t] EXCEPT !.progress =
                                IF rows[t].status = "absent" THEN 0
                                ELSE progressFor(rows[t].status, stored[t])]]]
       /\ UNCHANGED <<rowVars, serverVars, stream, connected, view, hydrated,
                      excuse, troubles>>

\* hydrate: everything shown is replaced.
Hydrate(h) ==
    /\ hydration[h].stage = "answered"
    /\ UNCHANGED stream
    /\ Showing(hydration[h].rows)
    /\ hydrated' = (hydrated \/ hydration[h].fresh)
    /\ hydration' = [hydration EXCEPT ![h] = NoHydration]
    /\ UNCHANGED <<rowVars, serverVars, connected, troubles>>

\* Slip: what has ended is dropped first, whatever is left.
EvictedAny(rows) ==
    LET kept == Newest(Tasks, [t \in Tasks |-> rows[t].moved])
    IN [t \in Tasks |-> IF t \in kept THEN rows[t] ELSE LeftOut(rows[t].moved)]

evictOldTerminal(rows) ==
    LET over == {t \in Tasks : rows[t].status \in Terminal}
        kept == Newest(over, [t \in Tasks |-> rows[t].moved])
    IN [t \in Tasks |-> IF t \in over \ kept THEN LeftOut(rows[t].moved) ELSE rows[t]]

\* applyEvent, created and updated alike.
ApplyTask ==
    /\ stream # <<>> /\ Head(stream).type = "task"
    /\ stream' = Tail(stream)
    /\ Showing(evictOldTerminal([view EXCEPT ![Head(stream).task] = Head(stream).shown]))
    /\ UNCHANGED <<rowVars, serverVars, connected, hydration, hydrated, troubles>>

\* Progress of a task that is not shown is ignored.
ApplyProgress ==
    /\ stream # <<>> /\ Head(stream).type = "progress"
    /\ LET t == Head(stream).task
       IN view' = IF view[t].status = "absent" THEN view
                  ELSE [view EXCEPT ![t].progress = Head(stream).shown.progress]
    /\ stream' = Tail(stream)
    /\ UNCHANGED <<rowVars, serverVars, connected, hydration, hydrated, excuse, troubles>>

-----------------------------------------------------------------------------
(* Trouble.                                                                *)

Trouble == Bounded /\ troubles < Troubles /\ troubles' = troubles + 1

(* The statement of a handler changes nothing: another one was first.  The *)
(* row is read and published all the same.                                 *)
Unmoved(t) ==
    /\ Trouble
    /\ status[t] \in Active \cup Terminal
    /\ \E way \in {"asked", "settled"} : Begin(t, way)
    /\ UNCHANGED <<rowVars, stored, reports, subscribed, stream, browserVars, excuse>>

\* The stream breaks; what is on its way is lost.
Break ==
    /\ Trouble
    /\ connected
    /\ connected' = FALSE
    /\ stream' = <<>>
    /\ hydrated' = FALSE
    /\ UNCHANGED <<rowVars, serverVars, hydration, view, excuse>>

\* The fetch fails: the stream stays open and nothing is tried again.
HydrationFails(h) ==
    /\ Trouble
    /\ hydration[h].stage # "idle"
    /\ hydration' = [hydration EXCEPT ![h] = NoHydration]
    /\ UNCHANGED <<rowVars, serverVars, stream, connected, view, hydrated, excuse>>

\* The subscription of the api is interrupted, and made again.
Unsubscribe ==
    /\ Trouble
    /\ subscribed
    /\ subscribed' = FALSE
    /\ UNCHANGED <<rowVars, stored, reports, handler, stream, browserVars, excuse>>

Resubscribe ==
    /\ ~ subscribed
    /\ subscribed' = TRUE
    /\ UNCHANGED <<rowVars, stored, reports, handler, stream, browserVars, excuse, troubles>>

\* A process dies between moving a row and publishing it.
HandlerDies(i) ==
    /\ Trouble
    /\ handler[i].stage # "idle"
    /\ handler' = [handler EXCEPT ![i] = NoHandler]
    /\ excuse' = [excuse EXCEPT ![handler[i].task] = "lost"]
    /\ UNCHANGED <<rowVars, stored, reports, subscribed, stream, browserVars>>

Next ==
    \/ \E t \in Tasks \ Resting : MoveRow(t) \/ Unmoved(t) \/ SetProgress(t) \/ PublishProgress(t)
    \/ \E i \in Handlers : ReadBack(i) \/ Clear(i) \/ Publish(i) \/ HandlerDies(i)
    \/ Open \/ ApplyTask \/ ApplyProgress
    \/ \E h \in Hydrations :
         SelectActive(h) \/ SelectRecent(h) \/ Hydrate(h) \/ HydrationFails(h)
    \/ Break \/ Unsubscribe \/ Resubscribe

Spec == Init /\ [][Next]_vars

-----------------------------------------------------------------------------
TypeOK ==
    /\ status \in [Tasks -> Active \cup Terminal \cup {"absent"}]
    /\ attempts \in [Tasks -> 0 .. MaxAttempts]
    /\ clock \in 1 .. Cardinality(Tasks) + Moves /\ moved \in [Tasks -> 1 .. clock]
    /\ stored \in [Tasks -> Percent]
    /\ reports \in [Tasks -> 0 .. clock]
    /\ handler \in [Handlers -> Handler \cup {NoHandler}]
    /\ subscribed \in BOOLEAN /\ connected \in BOOLEAN /\ hydrated \in BOOLEAN
    /\ stream \in Seq(Event) /\ (stream # <<>> => connected)
    /\ hydration \in [Hydrations -> Hydration]
    /\ view \in [Tasks -> Shown]
    /\ excuse \in [Tasks -> Excuses]
    /\ troubles \in 0 .. Troubles

\* Nothing is under way.
Quiet ==
    /\ connected /\ hydrated /\ stream = <<>> /\ Reported
    /\ \A i \in Handlers : handler[i].stage = "idle"
    /\ \A h \in Hydrations : hydration[h].stage = "idle"

(* use-task-stream.ts: a snapshot fetched at every open is "correct by     *)
(* construction", without a log and without sequence numbers               *)
(* (ARCHITECTURE 7).  When nothing is under way, the browser would show    *)
(* every row as it is.  It does not, with nothing lost and nothing failed: *)
(* a snapshot selected before an event is shown over it.                   *)
ViewIsCurrent == Quiet => \A t \in Tasks : Shows(view, t)

(* What does hold.  When nothing is under way and the browser shows a row  *)
(* otherwise than it is, completed ones full and queued ones empty, then   *)
(* since the stream opened an event about the row got lost, or something   *)
(* older was shown over something newer.  Nothing else goes wrong: closed  *)
(* streams, the gap between open and snapshot, the two selects of a        *)
(* snapshot, progress beside settlements and handlers under each other are *)
(* all made up for, and what was lost or overtaken before is repaired by   *)
(* the next open.                                                          *)
ViewCatchesUp ==
    Quiet => \A t \in Tasks : Shows(view, t) \/ excuse[t] # "none"

(* "Active tasks are never evicted": what disappears while a dashboard is  *)
(* open has ended, and something that ended later has taken its place.     *)
OnlyOldEvicted ==
    [][\A t \in Tasks :
         view[t].status # "absent" /\ view'[t].status = "absent" =>
           \/ \E h \in Hydrations : hydration[h].stage = "answered"
                                    /\ hydration'[h].stage = "idle"
           \/ /\ view[t].status \in Terminal \/ Head(stream).task = t
              /\ \E u \in Tasks : view'[u].status \in Terminal
                                /\ view'[u].moved > view'[t].moved]_vars

=============================================================================

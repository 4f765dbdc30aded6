------------------------------ MODULE ApiServer ------------------------------
(***************************************************************************)
(* The life of the api process: it boots (container.ts: migrations, then   *)
(* the subscription), listens (server.ts), takes submissions through the   *)
(* chain of routes/index.ts and routes/task.routes.ts (key, rate limit,    *)
(* schema, controller), holds event streams open, and stops on SIGTERM or  *)
(* dies.  The seed script boots the same container beside it.              *)
(*                                                                         *)
(* What a created task goes through afterwards is TaskEngine's.            *)
(***************************************************************************)
EXTENDS RateLimiter, Migrator, TaskTypes

CONSTANTS
    BodyOf,         \* BodyOf[r]: the body of request r
    Streams,        \* bound on the streams open at a time
    Boots           \* bound on the times a process is started

Api == "api"
ASSUME ProcessesAssumption == Api \in Processes
ASSUME BoundsAssumption == Streams \in Nat /\ Boots \in Nat

VARIABLES
    server,     \* the http server: "none", "listening" or "closing"
    request,    \* request[r]: where it stands, see Stages
    tasks,      \* requests whose row exists
    streams,    \* event streams open
    boots       \* how often a process was started

serverVars == <<server, request, tasks, streams>>
vars == <<limiterVars, migratorVars, serverVars, boots>>

(* The response codes of error.middleware.ts; "lost" is a connection that  *)
(* ended without any.                                                      *)
Codes == {"201", "400", "401", "429", "500"}
Stages == {"new", "known", "limited", "admitted", "inserted", "lost"}
            \cup Codes
Settled == Codes \cup {"lost"}

Init ==
    /\ LimiterInit
    /\ MigratorInit
    /\ server = "none"
    /\ request = [r \in Requests |-> "new"]
    /\ tasks = {}
    /\ streams = 0
    /\ boots = 0

-----------------------------------------------------------------------------
(* Processes.                                                              *)

\* connect, then on to the migrations.  Beside the api only while there is
\* something to migrate: bounds the runs.
Start(p) ==
    /\ p = Api \/ applied # Statements
    /\ boot[p].stage \in {"down", "failed"}
    /\ boots < Boots
    /\ boots' = boots + 1
    /\ boot' = [boot EXCEPT ![p] = [Down EXCEPT !.stage = "connected"]]
    /\ UNCHANGED <<limiterVars, applied, recorded, serverVars>>

Booting(p) == Migrate(p) /\ UNCHANGED <<limiterVars, serverVars, boots>>

\* onEvent, createApp and listen.
Listen ==
    /\ boot[Api].stage = "migrated" /\ server = "none"
    /\ server' = "listening"
    /\ UNCHANGED <<limiterVars, migratorVars, request, tasks, streams, boots>>

\* The seed script is done, or fails.
Leave(p) ==
    /\ p # Api
    /\ boot[p].stage = "migrated"
    /\ boot' = [boot EXCEPT ![p] = Down]
    /\ UNCHANGED <<limiterVars, applied, recorded, serverVars, boots>>

\* A process is killed, whatever it is doing.
Die(p) ==
    /\ boot[p].stage \notin {"down", "failed"}
    /\ boots < Boots
    /\ boot' = [boot EXCEPT ![p] = Down]
    /\ IF p = Api
       THEN /\ server' = "none"
            /\ streams' = 0
            /\ request' = [r \in Requests |->
                             IF request[r] \in {"new"} \cup Settled
                             THEN request[r] ELSE "lost"]
            /\ Abandon
       ELSE UNCHANGED <<limiterVars, server, streams, request>>
    /\ UNCHANGED <<applied, recorded, tasks, boots>>

\* SIGTERM: server.close, which takes no more connections.
Terminate ==
    /\ server = "listening"
    /\ server' = "closing"
    /\ UNCHANGED <<limiterVars, migratorVars, request, tasks, streams, boots>>

(* The callback of server.close: once every connection has ended, and only *)
(* then, the container is shut down, which would have ended the streams.   *)
Exit ==
    /\ server = "closing"
    /\ streams = 0
    /\ \A r \in Requests : request[r] \in {"new"} \cup Settled
    /\ server' = "none"
    /\ boot' = [boot EXCEPT ![Api] = Down]
    /\ UNCHANGED <<limiterVars, applied, recorded, request, tasks,
                   streams, boots>>

OpenStream ==
    /\ server = "listening" /\ streams < Streams
    /\ streams' = streams + 1
    /\ UNCHANGED <<limiterVars, migratorVars, server, request, tasks, boots>>

\* Slip: a connection that is gone is detached once more.
CloseStreamTwice ==
    /\ streams' = streams - 1
    /\ UNCHANGED <<limiterVars, migratorVars, server, request, tasks, boots>>

\* The browser leaves.
CloseStream ==
    /\ streams > 0
    /\ streams' = streams - 1
    /\ UNCHANGED <<limiterVars, migratorVars, server, request, tasks, boots>>

-----------------------------------------------------------------------------
(* A submission on its way down the chain.                                 *)

Goes(r, from, to) ==
    /\ request[r] = from
    /\ request' = [request EXCEPT ![r] = to]

Rest == <<migratorVars, server, streams, boots>>

\* Keys are rows of the table the second migration fills.
Keys == IF applied = Statements THEN Clients ELSE {}

\* authMiddleware, with the key of a client.
Authenticate(r) ==
    /\ server = "listening"
    /\ Goes(r, "new", IF ClientOf[r] \in Keys THEN "known" ELSE "401")
    /\ UNCHANGED <<limiterVars, Rest, tasks>>

\* With no key, or with one nobody has.
Unauthorized(r) ==
    /\ server = "listening"
    /\ Goes(r, "new", "401")
    /\ UNCHANGED <<limiterVars, Rest, tasks>>

\* Slip: a server that closes does not go on with what it has accepted.
LimitRateOpen(r) ==
    /\ server = "listening" /\ request[r] = "known"
    /\ Attempt(r)
    /\ Goes(r, "known", IF check'[r].state = "admitted" THEN "admitted" ELSE "limited")
    /\ UNCHANGED <<Rest, tasks>>

\* rateLimitMiddleware.
LimitRate(r) ==
    /\ request[r] = "known"
    /\ Attempt(r)
    /\ Goes(r, "known", IF check'[r].state = "admitted" THEN "admitted" ELSE "limited")
    /\ UNCHANGED <<Rest, tasks>>

RemoveEntry(r) ==
    /\ request[r] = "limited"
    /\ TakeBack(r)
    /\ UNCHANGED <<Rest, request, tasks>>

Refuse(r) ==
    /\ Reject(r)
    /\ Goes(r, "limited", "429")
    /\ UNCHANGED <<Rest, tasks>>

(* validate({ body: createTaskSchema }) and TaskService.create up to the   *)
(* row: validatePayload follows the schema in one turn.                    *)
Create(r) ==
    LET valid == ValidBody(BodyOf[r]) /\ ValidPayload(BodyOf[r])
    IN /\ Goes(r, "admitted", IF valid THEN "inserted" ELSE "400")
       /\ tasks' = IF valid THEN tasks \cup {r} ELSE tasks
       /\ UNCHANGED <<limiterVars, Rest>>

\* The queue, the event and the answer: see TaskEngine.
Enqueue(r) ==
    /\ Goes(r, "inserted", "201")
    /\ UNCHANGED <<limiterVars, Rest, tasks>>

\* Redis fails: the row stays, and the reconciler will find it.
EnqueueFails(r) ==
    /\ Goes(r, "inserted", "500")
    /\ UNCHANGED <<limiterVars, Rest, tasks>>

Handle(r) ==
    \/ Authenticate(r) \/ Unauthorized(r)
    \/ LimitRate(r) \/ RemoveEntry(r) \/ Refuse(r)
    \/ Create(r) \/ Enqueue(r) \/ EnqueueFails(r)

Clock == Pass /\ UNCHANGED <<migratorVars, serverVars, boots>>

Next ==
    \/ \E p \in Processes : Start(p) \/ Booting(p) \/ Leave(p) \/ Die(p)
    \/ Listen \/ Terminate \/ Exit \/ OpenStream \/ CloseStream
    \/ \E r \in Requests : Handle(r)
    \/ Clock

Spec == Init /\ [][Next]_vars

(* The process runs while it is there: it boots, answers what it has       *)
(* accepted, and leaves when its connections have ended; not each step of  *)
(* it, only some one at a time.  Nothing brings it back (docker-compose.yml *)
(* has no restart policy) and no browser must go away.                     *)
Proceed ==
    \/ \E p \in Processes : Booting(p) \/ Leave(p)
    \/ Listen \/ Exit
    \/ \E r \in Requests : request[r] # "new" /\ Handle(r)

Fairness == WF_vars(Proceed)

FairSpec == Spec /\ Fairness

-----------------------------------------------------------------------------
TypeOK ==
    /\ LimiterTypeOK
    /\ MigratorTypeOK
    /\ server \in {"none", "listening", "closing"}
    /\ request \in [Requests -> Stages]
    /\ tasks \subseteq Requests
    /\ streams \in 0 .. Streams
    /\ boots \in 0 .. Boots

(* What an answer says is so: an error of the client has created nothing,  *)
(* "created" has created; only 500 and a lost connection leave             *)
(* the client in doubt.  And "bad work never reaches the queue": whatever  *)
(* has a row can be run.                                                   *)
AnswersAreTrue ==
    \A r \in Requests :
        /\ request[r] \in {"400", "401", "429"} => r \notin tasks
        /\ request[r] = "201" => r \in tasks
        /\ r \in tasks => /\ check[r].state = "admitted"
                          /\ Runnable(BodyOf[r])

(* SIGTERM stops the process once everyone is answered and nobody watches: *)
(* whatever requests are under way, it ends, unless an event stream is     *)
(* held open, for which server.close waits although nothing will end it.   *)
StopsUnlessWatched ==
    server = "closing" ~> server = "none" \/ streams > 0

=============================================================================

---------------------------- MODULE ApiServerProofs ----------------------------
(***************************************************************************)
(* Theorems about ApiServer, for any number of processes, files, requests  *)
(* and clients, any limit and window, whoever dies and whenever.           *)
(***************************************************************************)
EXTENDS ApiServer, RateLimiterProofs

-----------------------------------------------------------------------------
(* Migrations.                                                             *)

\* Everything that is written before statement n of file f took effect.
AppliedUpTo(f, n) == \A s \in Statements : Before(s, <<f, n>>) => s \in applied

\* What the loops of a process rely on.
BootOK(r) ==
    /\ r \in Boot
    /\ r.names \subseteq recorded
    /\ r.stage = "applying" =>
          /\ r.file \in DOMAIN Files
          /\ r.next \in 1 .. Count[r.file] + 1
          /\ AppliedUpTo(r.file, r.next)
    /\ r.stage = "migrated" => applied = Statements

MigratorInv ==
    /\ MigratorTypeOK
    /\ RecordedIsApplied
    /\ \A p \in Processes : BootOK(boot[p])

LEMMA FilesTyped ==
    /\ Len(Files) \in Nat
    /\ DOMAIN Files = 1 .. Len(Files)
    /\ \A f \in DOMAIN Files : Count[f] \in Nat
    /\ \A s \in Statements : /\ s[1] \in DOMAIN Files /\ s[2] \in 1 .. Count[s[1]]
                             /\ s = <<s[1], s[2]>>
    /\ \A f \in DOMAIN Files : \A n \in 1 .. Count[f] : <<f, n>> \in Statements
  BY FilesAssumption, CountAssumption DEF Count, Statements

LEMMA MigratorStarts ==
    ASSUME MigratorInit
    PROVE  MigratorInv
  BY FilesTyped DEF MigratorInit, MigratorInv, MigratorTypeOK, RecordedIsApplied,
                    BootOK, Boot, BootStages, Down

\* What was relied on stays so while statements and names are added.
LEMMA BootStays ==
    ASSUME MigratorInv, NEW r, BootOK(r),
           applied \subseteq applied', applied' \subseteq Statements,
           recorded \subseteq recorded'
    PROVE  BootOK(r)'
<1>1. AppliedUpTo(r.file, r.next) => AppliedUpTo(r.file, r.next)'
  BY DEF AppliedUpTo
<1> QED
  BY <1>1 DEF BootOK

LEMMA BootsStay ==
    ASSUME MigratorInv, NEW p \in Processes, NEW r,
           boot' = [boot EXCEPT ![p] = r], BootOK(r)',
           MigratorTypeOK', RecordedIsApplied',
           applied \subseteq applied', recorded \subseteq recorded'
    PROVE  MigratorInv'
<1> SUFFICES ASSUME NEW q \in Processes
             PROVE  BootOK(boot[q])'
  BY DEF MigratorInv
<1>1. CASE q = p
  <2>1. boot'[q] = r
    BY <1>1 DEF MigratorInv, MigratorTypeOK
  <2> QED
    BY <2>1 DEF BootOK
<1>2. CASE q # p
  <2>1. boot'[q] = boot[q] /\ BootOK(boot[q]) /\ applied' \subseteq Statements
    BY <1>2 DEF MigratorInv, MigratorTypeOK
  <2> QED
    BY <2>1, BootStays DEF BootOK, AppliedUpTo
<1> QED
  BY <1>1, <1>2

(* Going on with file f is right if all files before it are applied: those *)
(* skipped are recorded, and so is everything if there is none left.       *)
LEMMA FromOK ==
    ASSUME RecordedIsApplied, applied \subseteq Statements,
           NEW f \in 1 .. Len(Files) + 1,
           NEW r \in Boot, r.names \subseteq recorded,
           \A s \in Statements : s[1] < f => s \in applied
    PROVE  BootOK(From(f, r))
<1> USE FilesTyped
<1> DEFINE P == Pending(f, r.names)
<1>1. P \subseteq Nat /\ P \subseteq DOMAIN Files
  BY DEF Pending
<1>2. CASE P = {}
  <2>1. \A s \in Statements : s[1] < f \/ s[1] \in recorded
    BY <1>2 DEF Pending
  <2>2. \A s \in Statements : s \in applied
    BY <2>1 DEF RecordedIsApplied
  <2>3. applied = Statements
    BY <2>2
  <2>4. From(f, r) = [r EXCEPT !.stage = "migrated"]
    BY <1>2 DEF From
  <2> QED
    BY <2>3, <2>4 DEF BootOK, Boot, BootStages
<1>3. CASE P # {}
  <2> DEFINE g == CHOOSE g \in P : \A h \in P : g <= h
  <2>1. g \in P /\ \A h \in P : g <= h
    <3>1. \E x \in P : \A y \in P : x <= y
      <4> HIDE DEF P
      <4> QED
        BY <1>1, <1>3, LeastNumber
    <3> QED
      BY <3>1
  <2>2. From(f, r) = [r EXCEPT !.stage = "applying", !.file = g, !.next = 1]
    BY <1>3 DEF From
  <2> HIDE DEF g
  <2>3. g \in DOMAIN Files /\ g >= f
    BY <1>1, <2>1 DEF Pending
  <2>4. \A s \in Statements : s[1] < g => s[1] < f \/ s[1] \in recorded
    BY <2>1, <2>3 DEF Pending
  <2>5. \A s \in Statements : s[1] < g => s \in applied
    BY <2>4 DEF RecordedIsApplied
  <2>6. AppliedUpTo(g, 1)
    BY <2>3, <2>5 DEF AppliedUpTo, Before
  <2>7. From(f, r) \in Boot /\ From(f, r).names = r.names /\ From(f, r).file = g
        /\ From(f, r).next = 1 /\ From(f, r).stage = "applying"
    <3>1. r = [stage |-> r.stage, names |-> r.names, file |-> r.file, next |-> r.next]
          /\ r.names \in SUBSET DOMAIN Files
      BY DEF Boot
    <3>2. From(f, r) = [stage |-> "applying", names |-> r.names, file |-> g, next |-> 1]
      BY <2>2, <3>1
    <3>3. g \in 0 .. Len(Files) + 1 /\ "applying" \in BootStages /\ 1 \in Nat
      BY <2>3 DEF BootStages
    <3> QED
      BY <3>1, <3>2, <3>3 DEF Boot
  <2>8. 1 \in 1 .. Count[g] + 1
    BY <2>3
  <2> QED
    BY <2>3, <2>6, <2>7, <2>8 DEF BootOK
<1> QED
  BY <1>2, <1>3

LEMMA CreateTableKeeps ==
    ASSUME MigratorInv, NEW p \in Processes, CreateTable(p)
    PROVE  MigratorInv'
<1>0. PICK r : r = [boot[p] EXCEPT !.stage = "reading"]
  OBVIOUS
<1>1. boot[p] \in Boot /\ BootOK(boot[p])
  BY DEF MigratorInv, MigratorTypeOK
<1>2. boot' = [boot EXCEPT ![p] = r] /\ UNCHANGED <<applied, recorded>>
  BY <1>0 DEF CreateTable
<1>3. r \in Boot /\ BootOK(r)
  BY <1>0, <1>1 DEF BootOK, Boot, BootStages
<1>4. MigratorTypeOK' /\ RecordedIsApplied' /\ BootOK(r)'
  BY <1>2, <1>3 DEF MigratorInv, MigratorTypeOK, RecordedIsApplied, BootOK, AppliedUpTo
<1> QED
  BY <1>2, <1>4, BootsStay

LEMMA ReadNamesKeeps ==
    ASSUME MigratorInv, NEW p \in Processes, ReadNames(p)
    PROVE  MigratorInv'
<1> DEFINE q == [boot[p] EXCEPT !.names = recorded]
<1>0. PICK r : r = From(1, q)
  OBVIOUS
<1>1. /\ q \in Boot /\ q.names = recorded
      /\ RecordedIsApplied /\ applied \subseteq Statements
  BY DEF MigratorInv, MigratorTypeOK, Boot
<1>2. boot' = [boot EXCEPT ![p] = r] /\ UNCHANGED <<applied, recorded>>
  BY <1>0 DEF ReadNames
<1>3. BootOK(r)
  <2>1. \A s \in Statements : ~ (s[1] < 1)
    BY FilesTyped
  <2>2. 1 \in 1 .. Len(Files) + 1
    BY FilesTyped
  <2> HIDE DEF q
  <2> QED
    BY <1>0, <1>1, <2>1, <2>2, FromOK
<1>4. MigratorTypeOK' /\ RecordedIsApplied' /\ BootOK(r)'
  BY <1>2, <1>3 DEF MigratorInv, MigratorTypeOK, RecordedIsApplied, BootOK, AppliedUpTo
<1> QED
  BY <1>2, <1>4, BootsStay

LEMMA RunStatementKeeps ==
    ASSUME MigratorInv, NEW p \in Processes, RunStatement(p)
    PROVE  MigratorInv'
<1>0. PICK f, n, r : f = boot[p].file /\ n = boot[p].next
                       /\ r = [boot[p] EXCEPT !.next = n + 1]
  OBVIOUS
<1>1. /\ boot[p] \in Boot /\ boot[p].names \subseteq recorded
      /\ f \in DOMAIN Files /\ n \in 1 .. Count[f] + 1 /\ n <= Count[f]
      /\ boot[p].stage = "applying" /\ AppliedUpTo(f, n)
  BY <1>0 DEF RunStatement, MigratorInv, BootOK
<1>2. /\ applied' = applied \cup {<<f, n>>} /\ recorded' = recorded
      /\ boot' = [boot EXCEPT ![p] = r]
  BY <1>0, <1>1 DEF RunStatement, MigratorInv, MigratorTypeOK, Boot
<1>3. f \in Nat /\ n \in Nat /\ Count[f] \in Nat /\ <<f, n>> \in Statements
  BY <1>1, FilesTyped
<1>4. \A s \in Statements : s[1] \in Nat /\ s[2] \in Nat /\ s = <<s[1], s[2]>>
  BY FilesTyped
<1>5. AppliedUpTo(f, n + 1)'
  <2> SUFFICES ASSUME NEW s \in Statements, Before(s, <<f, n + 1>>)
               PROVE  s \in applied'
    BY DEF AppliedUpTo
  <2>1. Before(s, <<f, n>>) \/ (s[1] = f /\ s[2] = n)
    BY <1>3, <1>4 DEF Before
  <2> QED
    BY <1>1, <1>2, <1>4, <2>1 DEF AppliedUpTo
<1>6. RecordedIsApplied'
  <2>1. \A t \in applied' : \A s \in Statements : Before(s, t) => s \in applied'
    BY <1>1, <1>2 DEF MigratorInv, RecordedIsApplied, AppliedUpTo
  <2>2. \A g \in recorded' : \A s \in Statements : s[1] <= g => s \in applied'
    BY <1>2 DEF MigratorInv, RecordedIsApplied
  <2> QED
    BY <2>1, <2>2 DEF RecordedIsApplied
<1>7. /\ r \in Boot /\ r.names = boot[p].names /\ r.stage = "applying"
      /\ r.file = f /\ r.next = n + 1 /\ n + 1 \in 1 .. Count[f] + 1
  BY <1>0, <1>1, <1>3 DEF Boot
<1>8. MigratorTypeOK'
  BY <1>2, <1>3, <1>7 DEF MigratorInv, MigratorTypeOK
<1>9. BootOK(r)'
  BY <1>1, <1>2, <1>5, <1>7 DEF BootOK, MigratorInv
<1> QED
  BY <1>2, <1>6, <1>8, <1>9, BootsStay

LEMMA RecordKeeps ==
    ASSUME MigratorInv, NEW p \in Processes, Record(p)
    PROVE  MigratorInv'
<1>0. PICK f, r : f = boot[p].file /\ r = From(f + 1, boot[p])
  OBVIOUS
<1>1. /\ boot[p] \in Boot /\ boot[p].names \subseteq recorded
      /\ f \in DOMAIN Files /\ boot[p].next \in 1 .. Count[f] + 1
      /\ boot[p].next > Count[f]
      /\ AppliedUpTo(f, boot[p].next)
      /\ RecordedIsApplied /\ applied \subseteq Statements
      /\ recorded \subseteq DOMAIN Files
  BY <1>0 DEF Record, MigratorInv, MigratorTypeOK, BootOK
<1>2. /\ applied' = applied /\ recorded' = recorded \cup {f}
      /\ boot' = [boot EXCEPT ![p] = r]
  BY <1>0 DEF Record
<1>3. \A s \in Statements : s[1] < f + 1 => s \in applied
  <2> SUFFICES ASSUME NEW s \in Statements, s[1] < f + 1
               PROVE  s \in applied
    OBVIOUS
  <2>1. s[1] \in Nat /\ s[2] \in 1 .. Count[s[1]] /\ f \in Nat /\ Count[f] \in Nat
    BY <1>1, FilesTyped
  <2>2. Before(s, <<f, boot[p].next>>)
    BY <1>1, <2>1 DEF Before
  <2> QED
    BY <1>1, <2>2 DEF AppliedUpTo
<1>4. RecordedIsApplied'
  <2>1. \A s \in Statements : s[1] <= f => s \in applied
    BY <1>1, <1>3, FilesTyped
  <2> QED
    BY <1>1, <1>2, <2>1 DEF RecordedIsApplied
<1>5. f + 1 \in 1 .. Len(Files) + 1
  BY <1>1, FilesTyped
<1>6. BootOK(r)
  BY <1>0, <1>1, <1>3, <1>5, FromOK
<1>7. BootOK(r)'
  BY <1>2, <1>6 DEF BootOK, AppliedUpTo
<1>8. MigratorTypeOK'
  BY <1>1, <1>2, <1>7 DEF MigratorInv, MigratorTypeOK, BootOK
<1> QED
  BY <1>2, <1>4, <1>7, <1>8, BootsStay

\* Starting, failing and ending leave what is applied and recorded alone.
LEMMA RestartKeeps ==
    ASSUME MigratorInv, NEW p \in Processes, NEW s \in BootStages,
           s \notin {"applying", "migrated"},
           \/ boot' = [boot EXCEPT ![p] = [Down EXCEPT !.stage = s]]
           \/ boot' = [boot EXCEPT ![p].stage = s],
           UNCHANGED <<applied, recorded>>
    PROVE  MigratorInv'
<1>0. PICK q, r : q = [Down EXCEPT !.stage = s] /\ r = [boot[p] EXCEPT !.stage = s]
  OBVIOUS
<1>1. boot' = [boot EXCEPT ![p] = q] \/ boot' = [boot EXCEPT ![p] = r]
  BY <1>0
<1>2. /\ q \in Boot /\ q.names = {} /\ q.stage = s
      /\ r \in Boot /\ r.names = boot[p].names /\ r.stage = s
  <2>1. boot[p] \in Boot /\ Down \in Boot /\ Down.names = {}
    BY FilesTyped DEF MigratorInv, MigratorTypeOK, Boot, BootStages, Down
  <2>2. \A b \in Boot : /\ [b EXCEPT !.stage = s] \in Boot
                        /\ [b EXCEPT !.stage = s].names = b.names
                        /\ [b EXCEPT !.stage = s].stage = s
    BY DEF Boot
  <2> QED
    BY <1>0, <2>1, <2>2
<1>3. BootOK(q)' /\ BootOK(r)'
  <2>1. boot[p].names \subseteq recorded
    BY DEF MigratorInv, BootOK
  <2> QED
    BY <1>2, <2>1 DEF BootOK
<1>4. MigratorTypeOK' /\ RecordedIsApplied'
  BY <1>1, <1>2 DEF MigratorInv, MigratorTypeOK, RecordedIsApplied
<1> QED
  BY <1>1, <1>3, <1>4, BootsStay

LEMMA MigrateKeeps ==
    ASSUME MigratorInv, NEW p \in Processes, Migrate(p)
    PROVE  MigratorInv'
<1>1. CASE RecordTwice(p)
  BY <1>1, RestartKeeps DEF RecordTwice, BootStages
<1> QED
  BY <1>1, CreateTableKeeps, ReadNamesKeeps, RunStatementKeeps, RecordKeeps DEF Migrate

LEMMA MigratorRests ==
    ASSUME MigratorInv, UNCHANGED migratorVars
    PROVE  MigratorInv'
  BY DEF migratorVars, MigratorInv, MigratorTypeOK, RecordedIsApplied, BootOK, AppliedUpTo

-----------------------------------------------------------------------------
(* Requests.                                                               *)

(* The profiles stay inside what a payload may ask for, and each leaves a  *)
(* duration to draw.                                                       *)
LEMMA ProfilesFit ==
    ASSUME NEW type \in TASK_TYPES
    PROVE  /\ PROFILES[type].minDurationMs \in Int
           /\ PROFILES[type].maxDurationMs \in Int
           /\ MIN_DURATION <= PROFILES[type].minDurationMs
           /\ PROFILES[type].minDurationMs < PROFILES[type].maxDurationMs
           /\ PROFILES[type].maxDurationMs <= MAX_DURATION
<1>1. CASE type = "image-processing"
  BY <1>1, SMT DEF PROFILES, Profile, TASK_TYPES, MIN_DURATION, MAX_DURATION
<1>2. CASE type = "report-generation"
  BY <1>2, SMT DEF PROFILES, Profile, TASK_TYPES, MIN_DURATION, MAX_DURATION
<1>3. CASE type = "data-import"
  BY <1>3, SMT DEF PROFILES, Profile, TASK_TYPES, MIN_DURATION, MAX_DURATION
<1>4. CASE type = "email-batch"
  BY <1>4, SMT DEF PROFILES, Profile, TASK_TYPES, MIN_DURATION, MAX_DURATION
<1> QED
  BY <1>1, <1>2, <1>3, <1>4 DEF TASK_TYPES

\* Accepted payloads can be run.
LEMMA ValidIsRunnable ==
    ASSUME NEW b, ValidPayload(b)
    PROVE  Runnable(b)
<1>1. b.type \in TASK_TYPES
  BY DEF ValidPayload
<1>2. CASE b.durationMs # Absent
  <2>1. Durations(b) = {b.durationMs}
    BY <1>1, <1>2 DEF Durations
  <2> QED
    BY <1>2, <2>1 DEF Runnable, ValidPayload
<1>3. CASE b.durationMs = Absent
  <2> DEFINE profile == PROFILES[b.type]
  <2>1. Durations(b) = profile.minDurationMs .. profile.maxDurationMs - 1
    BY <1>1, <1>3 DEF Durations
  <2>2. MIN_DURATION \in Int /\ MAX_DURATION \in Int
    BY SMT DEF MIN_DURATION, MAX_DURATION
  <2>3. /\ profile.minDurationMs \in Int /\ profile.maxDurationMs \in Int
        /\ MIN_DURATION <= profile.minDurationMs
        /\ profile.minDurationMs < profile.maxDurationMs
        /\ profile.maxDurationMs <= MAX_DURATION
    BY <1>1, ProfilesFit
  <2> HIDE DEF profile
  <2>4. /\ profile.minDurationMs \in Durations(b)
        /\ Durations(b) \subseteq MIN_DURATION .. MAX_DURATION
    BY <2>1, <2>2, <2>3
  <2> QED
    BY <2>4 DEF Runnable
<1> QED
  BY <1>2, <1>3

ServerTypeOK ==
    /\ server \in {"none", "listening", "closing"}
    /\ request \in [Requests -> Stages]
    /\ tasks \subseteq Requests
    /\ streams \in 0 .. Streams
    /\ boots \in 0 .. Boots

(* Where a request stands tells whether it has a row; only an admitted one *)
(* that can be run gets there.                                             *)
RequestOK(r) ==
    /\ r \in tasks =>
          /\ request[r] \in {"inserted", "201", "500", "lost"}
          /\ check[r].state = "admitted"
          /\ Runnable(BodyOf[r])
    /\ request[r] \in {"inserted", "201"} => r \in tasks
    /\ request[r] = "admitted" => check[r].state = "admitted"

ApiInv ==
    /\ LimiterInv
    /\ MigratorInv
    /\ ServerTypeOK
    /\ \A r \in Requests : RequestOK(r)

LEMMA ApiStarts ==
    ASSUME Init
    PROVE  ApiInv
<1>1. ServerTypeOK /\ \A r \in Requests : RequestOK(r)
  BY BoundsAssumption DEF Init, ServerTypeOK, Stages, RequestOK
<1> QED
  BY <1>1, LimiterStarts, MigratorStarts DEF Init, ApiInv

(* What a step of the limiter does to others than the one who takes it:    *)
(* who was admitted stays so.                                              *)
LEMMA AdmittedStays ==
    ASSUME LimiterInv, NEW q \in Requests, check[q].state = "admitted",
           \/ \E r \in Requests : Attempt(r) \/ TakeBack(r) \/ Reject(r)
           \/ Abandon
           \/ Pass
           \/ UNCHANGED limiterVars
    PROVE  check'[q].state = "admitted"
<1> check \in [Requests -> Check]
  BY DEF LimiterInv, LimiterTypeOK
<1>1. CASE \E r \in Requests : Attempt(r)
  BY <1>1, AttemptTyped
<1>2. CASE \E r \in Requests : TakeBack(r)
  BY <1>2 DEF TakeBack, Check
<1>3. CASE \E r \in Requests : Reject(r)
  BY <1>3 DEF Reject, Check
<1>4. CASE Abandon
  BY <1>4 DEF Abandon
<1>5. CASE Pass \/ UNCHANGED limiterVars
  BY <1>5 DEF Pass, limiterVars
<1> QED
  BY <1>1, <1>2, <1>3, <1>4, <1>5

(* A step of one request that ends at the stage s and leaves all but it,   *)
(* its row and the limiter as they are.                                    *)
LEMMA RequestStep ==
    ASSUME ApiInv, NEW r \in Requests, NEW s \in Stages,
           request' = [request EXCEPT ![r] = s],
           RequestOK(r)',
           Attempt(r) \/ Reject(r) \/ UNCHANGED limiterVars,
           tasks \subseteq tasks', tasks' \subseteq tasks \cup {r},
           UNCHANGED <<migratorVars, server, streams, boots>>
    PROVE  ApiInv'
<1>1. LimiterInv'
  BY LimiterStep DEF ApiInv
<1>2. MigratorInv'
  BY MigratorRests DEF ApiInv
<1>3. ServerTypeOK'
  BY DEF ApiInv, ServerTypeOK
<1>4. ASSUME NEW q \in Requests, q # r
      PROVE  RequestOK(q)'
  <2>1. request'[q] = request[q] /\ (q \in tasks' <=> q \in tasks) /\ RequestOK(q)
    BY <1>4 DEF ApiInv, ServerTypeOK
  <2>2. check[q].state = "admitted" => check'[q].state = "admitted"
    BY AdmittedStays DEF ApiInv
  <2> QED
    BY <2>1, <2>2 DEF RequestOK
<1>5. \A q \in Requests : RequestOK(q)'
  BY <1>4
<1> QED
  BY <1>1, <1>2, <1>3, <1>5 DEF ApiInv

LEMMA HandleKeeps ==
    ASSUME ApiInv, NEW r \in Requests, Handle(r)
    PROVE  ApiInv'
<1> USE DEF Goes, Rest
<1>1. request \in [Requests -> Stages] /\ tasks \subseteq Requests /\ RequestOK(r)
  BY DEF ApiInv, ServerTypeOK
<1>2. CASE Authenticate(r) \/ Unauthorized(r)
  <2>1. PICK s \in {"known", "401"} : request' = [request EXCEPT ![r] = s]
    BY <1>2 DEF Authenticate, Unauthorized
  <2>2. request[r] = "new"
        /\ UNCHANGED <<limiterVars, migratorVars, server, streams, boots, tasks>>
    BY <1>2 DEF Authenticate, Unauthorized
  <2>3. request'[r] = s /\ check' = check /\ RequestOK(r)'
    BY <1>1, <2>1, <2>2 DEF RequestOK, limiterVars
  <2> QED
    BY <2>1, <2>2, <2>3, RequestStep DEF Stages, Codes
<1>3. CASE LimitRate(r)
  <2>1. /\ Attempt(r) /\ request[r] = "known"
        /\ UNCHANGED <<migratorVars, server, streams, boots, tasks>>
    BY <1>3 DEF LimitRate
  <2>2. PICK s \in {"admitted", "limited"} :
          /\ request' = [request EXCEPT ![r] = s]
          /\ s = "admitted" => check'[r].state = "admitted"
    BY <1>3 DEF LimitRate
  <2>3. RequestOK(r)'
    BY <1>1, <2>1, <2>2 DEF RequestOK
  <2> QED
    BY <2>1, <2>2, <2>3, RequestStep DEF Stages, Codes
<1>4. CASE RemoveEntry(r)
  <2>1. /\ TakeBack(r) /\ request' = request
        /\ UNCHANGED <<migratorVars, server, streams, boots, tasks>>
    BY <1>4 DEF RemoveEntry
  <2>2. \A q \in Requests : check[q].state = "admitted" => check'[q].state = "admitted"
    BY <2>1, AdmittedStays DEF ApiInv
  <2>3. ServerTypeOK' /\ \A q \in Requests : RequestOK(q)'
    BY <2>1, <2>2 DEF ApiInv, ServerTypeOK, RequestOK
  <2> QED
    BY <2>1, <2>3, LimiterStep, MigratorRests DEF ApiInv
<1>5. CASE Refuse(r)
  <2>1. /\ Reject(r) /\ request[r] = "limited" /\ request' = [request EXCEPT ![r] = "429"]
        /\ UNCHANGED <<migratorVars, server, streams, boots, tasks>>
    BY <1>5 DEF Refuse
  <2>2. RequestOK(r)'
    BY <1>1, <2>1 DEF RequestOK
  <2> QED
    BY <2>1, <2>2, RequestStep DEF Stages, Codes
<1>6. CASE Create(r)
  <2>1. /\ request[r] = "admitted" /\ check[r].state = "admitted" /\ r \notin tasks
        /\ UNCHANGED <<limiterVars, migratorVars, server, streams, boots>>
    BY <1>1, <1>6 DEF Create, RequestOK
  <2>2. PICK s \in {"inserted", "400"} :
          /\ request' = [request EXCEPT ![r] = s]
          /\ s = "inserted" => /\ tasks' = tasks \cup {r}
                               /\ ValidPayload(BodyOf[r])
          /\ s = "400" => tasks' = tasks
    <3>1. CASE ValidBody(BodyOf[r]) /\ ValidPayload(BodyOf[r])
      BY <1>6, <3>1 DEF Create
    <3>2. CASE ~ (ValidBody(BodyOf[r]) /\ ValidPayload(BodyOf[r]))
      BY <1>6, <3>2 DEF Create
    <3> QED
      BY <3>1, <3>2
  <2>3. RequestOK(r)'
    BY <1>1, <2>1, <2>2, ValidIsRunnable DEF RequestOK, limiterVars
  <2>4. tasks \subseteq tasks' /\ tasks' \subseteq tasks \cup {r} /\ check' = check
    BY <2>1, <2>2 DEF limiterVars
  <2> QED
    BY <2>1, <2>2, <2>3, <2>4, RequestStep DEF Stages, Codes
<1>7. CASE Enqueue(r) \/ EnqueueFails(r)
  <2>1. PICK s \in {"201", "500"} : request' = [request EXCEPT ![r] = s]
    BY <1>7 DEF Enqueue, EnqueueFails
  <2>2. request[r] = "inserted"
        /\ UNCHANGED <<limiterVars, migratorVars, server, streams, boots, tasks>>
    BY <1>7 DEF Enqueue, EnqueueFails
  <2>3. RequestOK(r)' /\ check' = check
    BY <1>1, <2>1, <2>2 DEF RequestOK, limiterVars
  <2> QED
    BY <2>1, <2>2, <2>3, RequestStep DEF Stages, Codes
<1> QED
  BY <1>2, <1>3, <1>4, <1>5, <1>6, <1>7 DEF Handle

LEMMA DieKeeps ==
    ASSUME ApiInv, NEW p \in Processes, Die(p)
    PROVE  ApiInv'
<1>1. /\ boot' = [boot EXCEPT ![p] = Down]
      /\ UNCHANGED <<applied, recorded, tasks, boots>>
      /\ Abandon \/ UNCHANGED limiterVars
  BY DEF Die, limiterVars
<1>2. LimiterInv'
  BY <1>1, LimiterStep DEF ApiInv
<1>3. MigratorInv'
  <2>1. Down = [Down EXCEPT !.stage = "down"] /\ "down" \in BootStages
    BY DEF Down, BootStages
  <2> QED
    BY <1>1, <2>1, RestartKeeps DEF ApiInv
<1>4. \A q \in Requests : check[q].state = "admitted" => check'[q].state = "admitted"
  BY <1>1, AdmittedStays DEF ApiInv
<1>5. \A q \in Requests :
        \/ request'[q] = request[q]
        \/ request'[q] = "lost" /\ request[q] \notin Settled
  BY DEF Die, ApiInv, ServerTypeOK
<1>6. ServerTypeOK'
  BY <1>1, BoundsAssumption DEF Die, ApiInv, ServerTypeOK, Stages
<1>7. ASSUME NEW q \in Requests
      PROVE  RequestOK(q)'
  BY <1>1, <1>4, <1>5 DEF RequestOK, ApiInv, Settled, Codes
<1> QED
  BY <1>2, <1>3, <1>6, <1>7 DEF ApiInv

LEMMA ProcessKeeps ==
    ASSUME ApiInv, NEW p \in Processes,
           Start(p) \/ Booting(p) \/ Leave(p)
    PROVE  ApiInv'
<1>1. UNCHANGED <<limiterVars, serverVars>> /\ boots' \in 0 .. Boots
  BY BoundsAssumption DEF Start, Booting, Leave, ApiInv, ServerTypeOK
<1>2. LimiterInv' /\ ServerTypeOK' /\ \A r \in Requests : RequestOK(r)'
  BY <1>1, LimiterStep DEF ApiInv, ServerTypeOK, RequestOK, serverVars, limiterVars
<1>3. MigratorInv'
  <2>1. CASE Start(p)
    BY <2>1, RestartKeeps DEF Start, ApiInv, BootStages
  <2>2. CASE Booting(p)
    BY <2>2, MigrateKeeps DEF Booting, ApiInv
  <2>3. CASE Leave(p)
    <3>1. Down = [Down EXCEPT !.stage = "down"] /\ "down" \in BootStages
      BY DEF Down, BootStages
    <3> QED
      BY <2>3, <3>1, RestartKeeps DEF Leave, ApiInv
  <2> QED
    BY <2>1, <2>2, <2>3
<1> QED
  BY <1>2, <1>3 DEF ApiInv

LEMMA ServerKeeps ==
    ASSUME ApiInv,
           Listen \/ Terminate \/ Exit \/ OpenStream \/ CloseStream
    PROVE  ApiInv'
<1>1. /\ UNCHANGED <<limiterVars, applied, recorded, request, tasks, boots>>
      /\ server' \in {"none", "listening", "closing"} /\ streams' \in 0 .. Streams
  BY BoundsAssumption DEF Listen, Terminate, Exit, OpenStream, CloseStream,
                          migratorVars, ApiInv, ServerTypeOK
<1>2. LimiterInv' /\ ServerTypeOK' /\ \A r \in Requests : RequestOK(r)'
  BY <1>1, LimiterStep DEF ApiInv, ServerTypeOK, RequestOK, limiterVars
<1>3. MigratorInv'
  <2>1. CASE Exit
    <3>1. Down = [Down EXCEPT !.stage = "down"] /\ "down" \in BootStages
      BY DEF Down, BootStages
    <3> QED
      BY <2>1, <3>1, RestartKeeps, ProcessesAssumption DEF Exit, ApiInv
  <2>2. CASE ~ Exit
    BY <2>2, MigratorRests DEF Listen, Terminate, OpenStream, CloseStream, ApiInv
  <2> QED
    BY <2>1, <2>2
<1> QED
  BY <1>2, <1>3 DEF ApiInv

LEMMA ApiStep ==
    ASSUME ApiInv, [Next]_vars
    PROVE  ApiInv'
<1>1. CASE \E p \in Processes : Start(p) \/ Booting(p) \/ Leave(p)
  BY <1>1, ProcessKeeps
<1>2. CASE \E p \in Processes : Die(p)
  BY <1>2, DieKeeps
<1>3. CASE Listen \/ Terminate \/ Exit \/ OpenStream \/ CloseStream
  BY <1>3, ServerKeeps
<1>4. CASE \E r \in Requests : Handle(r)
  BY <1>4, HandleKeeps
<1>5. CASE Clock \/ UNCHANGED vars
  <2>1. /\ Pass \/ UNCHANGED limiterVars
        /\ UNCHANGED <<migratorVars, serverVars, boots>>
    BY <1>5 DEF Clock, vars
  <2>2. \A q \in Requests : check[q].state = "admitted" => check'[q].state = "admitted"
    BY <2>1, AdmittedStays DEF ApiInv
  <2>3. ServerTypeOK' /\ \A r \in Requests : RequestOK(r)'
    BY <2>1, <2>2 DEF ApiInv, ServerTypeOK, RequestOK, serverVars
  <2> QED
    BY <2>1, <2>3, LimiterStep, MigratorRests DEF ApiInv
<1> QED
  BY <1>1, <1>2, <1>3, <1>4, <1>5 DEF Next

LEMMA ApiAlways ==
    Spec => []ApiInv
  BY ApiStarts, ApiStep, PTL DEF Spec

-----------------------------------------------------------------------------

(* Type correctness of the api process, its requests, the limiter and the  *)
(* migrator.                                                               *)
THEOREM ApiTyped == Spec => []TypeOK
<1>1. ApiInv => TypeOK
  BY DEF ApiInv, LimiterInv, MigratorInv, ServerTypeOK, TypeOK
<1> QED
  BY <1>1, ApiAlways, PTL

(* No window of a client holds more admitted submissions than the limit:   *)
(* rate-limiter.ts, for any number of overlapping requests and any death   *)
(* of the api.                                                             *)
THEOREM RateIsLimited == Spec => []AtMostLimit
<1>1. ApiInv => AtMostLimit
  BY InvBoundsWindows DEF ApiInv
<1> QED
  BY <1>1, ApiAlways, PTL

(* The entry of an answered rejection is no longer in the log: the zrem of *)
(* rate-limiter.ts.                                                        *)
THEOREM RejectionsLeaveNoTrace == Spec => []RejectedLeavesLog
<1>1. ApiInv => RejectedLeavesLog
  BY DEF ApiInv, LimiterInv
<1> QED
  BY <1>1, ApiAlways, PTL

(* Two windows after the last attempt of a client nothing is kept of it:   *)
(* the pexpire of rate-limiter.ts.                                         *)
THEOREM SilenceIsForgotten == Spec => []NothingRemembered
<1>1. ApiInv => NothingRemembered
  BY InvForgets DEF ApiInv
<1> QED
  BY <1>1, ApiAlways, PTL

(* What schema_migrations names has been applied, in order: migrator.ts,   *)
(* whoever migrates beside whom and dies between which statements.         *)
THEOREM NamesAreTrue == Spec => []RecordedIsApplied
<1>1. ApiInv => RecordedIsApplied
  BY DEF ApiInv, MigratorInv
<1> QED
  BY <1>1, ApiAlways, PTL

(* A process past its migrations finds the whole schema: container.ts      *)
(* awaits migrate before anything else.                                    *)
THEOREM SchemaIsWhole == Spec => []MigratedIsComplete
<1>1. ApiInv => MigratedIsComplete
  BY DEF ApiInv, MigratorInv, BootOK, MigratedIsComplete
<1> QED
  BY <1>1, ApiAlways, PTL

(* A client error has created no task, "created" has, and what has a row   *)
(* was admitted and can be run: the chain of task.routes.ts.               *)
THEOREM AnswersHold == Spec => []AnswersAreTrue
<1>1. ApiInv => AnswersAreTrue
  BY DEF ApiInv, RequestOK, AnswersAreTrue, ServerTypeOK
<1> QED
  BY <1>1, ApiAlways, PTL

(* When the time of a Retry-After has come the log has room, unless        *)
(* rejected attempts stand in it: the answer of rate-limiter.ts.           *)
THEOREM RetryAfterIsTrue == Spec => RetryAfterServes
<1>1. ApiInv =>
        \A r \in Requests :
          check[r].state = "removed" /\ check'[r].state = "rejected" =>
            ((\A e \in log[ClientOf[r]] : check[e.of].state = "admitted") =>
               Cardinality({e \in log[ClientOf[r]] :
                  InWindow(e, OldestExpiry(ClientOf[r], check[r].at))}) < Limit)
  BY InvRetryServes DEF ApiInv
<1>2. ApiInv =>
        [\A r \in Requests :
         check[r].state = "removed" /\ check'[r].state = "rejected" =>
           LET c == ClientOf[r]
           IN  (\A e \in log[c] : check[e.of].state = "admitted") =>
                 Cardinality({e \in log[c] :
                     InWindow(e, OldestExpiry(c, check[r].at))}) < Limit]_limiterVars
  BY <1>1
<1> QED
  BY <1>2, ApiAlways, PTL DEF RetryAfterServes

=============================================================================

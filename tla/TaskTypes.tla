------------------------------ MODULE TaskTypes ------------------------------
(***************************************************************************)
(* What a submission may be and what becomes of it in a thread: the        *)
(* schemas of packages/shared/src/task.schema.ts and the registry          *)
(* server/src/engine/task-type.registry.ts.  Pure operators.               *)
(*                                                                         *)
(* A body is a record of type, priority and of a payload's durationMs,     *)
(* failureRate (in percent) and remaining fields, of which only whether    *)
(* they fit the schema of the type matters.                                *)
(***************************************************************************)
EXTENDS Integers

\* A field that is missing.
Absent == -1

TASK_TYPES == {"image-processing", "report-generation",
               "data-import", "email-batch"}

MIN_PRIORITY == 1
MAX_PRIORITY == 5

\* What a payload may ask an attempt to last, in milliseconds.
MIN_DURATION == 100
MAX_DURATION == 120000

Profile(min, max, rate) ==
    [minDurationMs |-> min, maxDurationMs |-> max, failureRate |-> rate]

PROFILES ==
    [type \in TASK_TYPES |->
        CASE type = "image-processing"  -> Profile(5000, 12000, 5)
          [] type = "report-generation" -> Profile(15000, 30000, 10)
          [] type = "data-import"       -> Profile(8000, 20000, 20)
          [] type = "email-batch"       -> Profile(5000, 10000, 2)]

\* createTaskSchema: any type with a name passes.
ValidBody(b) == b.type # "" /\ b.priority \in MIN_PRIORITY .. MAX_PRIORITY

\* Slip: the schema of the type is not consulted.
ValidType(b) == b.type \in TASK_TYPES

\* validatePayload: getProfile, then the schema of the type.
ValidPayload(b) ==
    /\ b.type \in TASK_TYPES
    /\ b.durationMs # Absent => b.durationMs \in MIN_DURATION .. MAX_DURATION
    /\ b.failureRate # Absent => b.failureRate \in 0 .. 100
    /\ b.fits

(* planExecution: the durations an attempt may last; none where getProfile *)
(* throws.  An override of the payload replaces the profile.               *)
Durations(b) ==
    IF b.type \notin TASK_TYPES THEN {}
    ELSE IF b.durationMs # Absent THEN {b.durationMs}
    ELSE PROFILES[b.type].minDurationMs .. PROFILES[b.type].maxDurationMs - 1

(* Accepted work can be run: a thread plans it without an error, for at    *)
(* least one tick and for no more than two minutes.                        *)
Runnable(b) == Durations(b) # {} /\ Durations(b) \subseteq MIN_DURATION .. MAX_DURATION

=============================================================================

------------------------------- MODULE Migrator -------------------------------
(***************************************************************************)
(* runMigrations, server/src/lib/migrator.ts: the numbered files of        *)
(* server/migrations, applied in order, statement by statement, and then   *)
(* recorded by name.  Every process that builds the api's container runs   *)
(* it while it boots: the api, and the seed script beside it.  A boot that *)
(* fails or is interrupted starts from the first unrecorded file again.    *)
(***************************************************************************)
EXTENDS Naturals, Sequences, FiniteSets, SequencesExt

CONSTANTS
    Processes,      \* whoever builds an api container
    Files           \* the files in order, each a sequence of lines

VARIABLES
    applied,        \* statements that took effect, as <<file, number>>
    recorded,       \* schema_migrations: numbers of the files it names
    boot            \* boot[p]: see Boot

migratorVars == <<applied, recorded, boot>>

(* A line is a comment or not, and the sequence of what it holds of "text" *)
(* and ";".                                                                *)
Line == [comment : BOOLEAN, holds : Seq({"text", ";"})]

ASSUME FilesAssumption == Files \in Seq(Seq(Line))

(* splitStatements drops the comments, cuts at the semicolons and keeps    *)
(* what is not blank: the number of statements of the file.                *)
Code(lines) ==
    FlattenSeq([i \in DOMAIN lines |->
                  IF lines[i].comment THEN <<>> ELSE lines[i].holds])

SplitStatements(lines) ==
    LET all == Code(lines)
    IN Cardinality({i \in DOMAIN all :
           all[i] = "text" /\ (i = 1 \/ all[i - 1] = ";")})

ASSUME CountAssumption == \A f \in DOMAIN Files : SplitStatements(Files[f]) \in Nat

Count == [f \in DOMAIN Files |-> SplitStatements(Files[f])]

Statements == UNION {{f} \X (1 .. Count[f]) : f \in DOMAIN Files}

\* The statements of one file before another's, in the order they are written.
Before(s, t) == s[1] < t[1] \/ (s[1] = t[1] /\ s[2] < t[2])

BootStages == {"down", "connected", "reading", "applying", "migrated", "failed"}

(* "applied" of the code: the names read, once; file and next: where the   *)
(* loops stand.                                                            *)
Boot == [stage : BootStages, names : SUBSET DOMAIN Files,
         file : 0 .. Len(Files) + 1, next : Nat]

Down == [stage |-> "down", names |-> {}, file |-> 0, next |-> 0]

MigratorTypeOK ==
    /\ applied \subseteq Statements
    /\ recorded \subseteq DOMAIN Files
    /\ boot \in [Processes -> Boot]

MigratorInit ==
    /\ applied = {}
    /\ recorded = {}
    /\ boot = [p \in Processes |-> Down]

\* The loop goes on with the first file from f on that is not to be skipped.
Pending(f, names) == {g \in f .. Len(Files) : g \notin names}

From(f, r) ==
    IF Pending(f, r.names) = {} THEN [r EXCEPT !.stage = "migrated"]
    ELSE LET first == CHOOSE g \in Pending(f, r.names) :
                        \A h \in Pending(f, r.names) : g <= h
         IN [r EXCEPT !.stage = "applying", !.file = first, !.next = 1]

\* CREATE TABLE IF NOT EXISTS schema_migrations.
CreateTable(p) ==
    /\ boot[p].stage = "connected"
    /\ boot' = [boot EXCEPT ![p].stage = "reading"]
    /\ UNCHANGED <<applied, recorded>>

ReadNames(p) ==
    /\ boot[p].stage = "reading"
    /\ boot' = [boot EXCEPT ![p] = From(1, [@ EXCEPT !.names = recorded])]
    /\ UNCHANGED <<applied, recorded>>

\* Every statement of the files may be executed again without effect.
RunStatement(p) ==
    /\ boot[p].stage = "applying"
    /\ boot[p].next <= Count[boot[p].file]
    /\ applied' = applied \cup {<<boot[p].file, boot[p].next>>}
    /\ boot' = [boot EXCEPT ![p].next = @ + 1]
    /\ UNCHANGED recorded

\* Slip: a file is recorded before its statements are executed.
RecordFirst(p) ==
    /\ boot[p].stage = "applying"
    /\ recorded' = recorded \cup {boot[p].file}
    /\ boot' = [boot EXCEPT ![p] =
                  IF boot[p].next > Count[boot[p].file]
                  THEN From(boot[p].file + 1, @) ELSE @]
    /\ UNCHANGED applied

\* The name is a primary key.
Record(p) ==
    /\ boot[p].stage = "applying"
    /\ boot[p].next > Count[boot[p].file]
    /\ boot[p].file \notin recorded
    /\ recorded' = recorded \cup {boot[p].file}
    /\ boot' = [boot EXCEPT ![p] = From(boot[p].file + 1, @)]
    /\ UNCHANGED applied

\* Slip: who comes second takes it that all is done.
RecordTwiceDone(p) ==
    /\ boot[p].stage = "applying"
    /\ boot[p].next > Count[boot[p].file]
    /\ boot[p].file \in recorded
    /\ boot' = [boot EXCEPT ![p].stage = "migrated"]
    /\ UNCHANGED <<applied, recorded>>

\* Another process has recorded the file meanwhile: the boot fails.
RecordTwice(p) ==
    /\ boot[p].stage = "applying"
    /\ boot[p].next > Count[boot[p].file]
    /\ boot[p].file \in recorded
    /\ boot' = [boot EXCEPT ![p].stage = "failed"]
    /\ UNCHANGED <<applied, recorded>>

Migrate(p) ==
    CreateTable(p) \/ ReadNames(p) \/ RunStatement(p) \/ Record(p) \/ RecordTwice(p)

-----------------------------------------------------------------------------
(* A file that is named is applied, with all files before it, and so is    *)
(* all that was written before a statement that is: tables exist before    *)
(* the rows that need them, whoever migrates, fails and starts over.       *)
RecordedIsApplied ==
    /\ \A f \in recorded : \A s \in Statements : s[1] <= f => s \in applied
    /\ \A t \in applied : \A s \in Statements : Before(s, t) => s \in applied

(* "The api owns the schema": a process past its migrations finds all of   *)
(* it, also where another process applied part of it.                      *)
MigratedIsComplete ==
    \A p \in Processes : boot[p].stage = "migrated" => applied = Statements

=============================================================================

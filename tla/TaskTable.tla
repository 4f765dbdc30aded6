------------------------------ MODULE TaskTable ------------------------------
(***************************************************************************)
(* The `tasks` table of MySQL, the source of truth of the engine, and the  *)
(* statements of server/src/repositories/task.repository.ts that write it. *)
(* One UPDATE is one atomic step; the SELECT that follows it in the same   *)
(* method is a later read and belongs to the caller.                       *)
(*                                                                         *)
(* A row is spread over one function per column, so that a statement is    *)
(* the set of columns it assigns.  Columns only shown to people (results,  *)
(* errors, started_at, finished_at) are left out.                          *)
(***************************************************************************)
EXTENDS Naturals

CONSTANTS
    Tasks,         \* task ids
    Workers,       \* worker processes (WORKER_ID)
    NoWorker,      \* worker_id IS NULL
    MaxAttempts    \* tasks.max_attempts, DEFAULT_MAX_ATTEMPTS in the code

ASSUME MaxAttemptsAssumption == MaxAttempts \in Nat \ {0}
ASSUME NoWorkerAssumption == NoWorker \notin Workers

VARIABLES
    status,        \* status[t]: the status column, or "absent" before INSERT
    attempts,      \* attempts[t]: claims so far since submission or manual retry
    owner,         \* owner[t]: worker_id
    lease,         \* lease[t]: lease_expires_at is NULL, in the future or past
    settled        \* settled[t]: updated_at is older than SETTLING_PERIOD_MS

tableVars == <<status, attempts, owner, lease, settled>>

Statuses == {"absent", "queued", "running", "cancelling",
             "completed", "failed", "cancelled", "dead_letter"}

\* Rows a worker holds: the statuses of every lease predicate in the SQL.
Held == {"running", "cancelling"}

\* TERMINAL_STATUSES of packages/shared.
Terminal == {"completed", "failed", "cancelled", "dead_letter"}

Leases == {"none", "live", "expired"}

TableTypeOK ==
    /\ status \in [Tasks -> Statuses]
    /\ attempts \in [Tasks -> Nat]
    /\ owner \in [Tasks -> Workers \cup {NoWorker}]
    /\ lease \in [Tasks -> Leases]
    /\ settled \in [Tasks -> BOOLEAN]

TableInit ==
    /\ status = [t \in Tasks |-> "absent"]
    /\ attempts = [t \in Tasks |-> 0]
    /\ owner = [t \in Tasks |-> NoWorker]
    /\ lease = [t \in Tasks |-> "none"]
    /\ settled = [t \in Tasks |-> FALSE]

\* Every UPDATE also moves updated_at (ON UPDATE CURRENT_TIMESTAMP).
Write(t, s, n, w, l) ==
    /\ status' = [status EXCEPT ![t] = s]
    /\ attempts' = [attempts EXCEPT ![t] = n]
    /\ owner' = [owner EXCEPT ![t] = w]
    /\ lease' = [lease EXCEPT ![t] = l]
    /\ settled' = [settled EXCEPT ![t] = FALSE]

\* A task leaves its worker: worker_id and lease_expires_at become NULL.
Release(t, s) == Write(t, s, attempts[t], NoWorker, "none")

-----------------------------------------------------------------------------
(* The statements.  A row that fails the WHERE clause is left as it is.    *)

Insert(t) == Write(t, "queued", 0, NoWorker, "none")

\* Slip: the claim without its status predicate.
ClaimRowAnyStatus(t, w) == Write(t, "running", attempts[t] + 1, w, "live")

\* UPDATE ... WHERE status = 'queued': the caller checks affectedRows.
ClaimRow(t, w) ==
    /\ status[t] = "queued"
    /\ Write(t, "running", attempts[t] + 1, w, "live")

\* Slip: a heartbeat renews the lease of a row that has moved on.
RenewLeaseAnyStatus(t) == Write(t, status[t], attempts[t], owner[t], "live")

RenewLease(t) ==
    IF status[t] \in Held
    THEN Write(t, status[t], attempts[t], owner[t], "live")
    ELSE UNCHANGED tableVars

MarkCompleted(t) ==
    IF status[t] \in Held THEN Release(t, "completed") ELSE UNCHANGED tableVars

\* No status predicate: `failed` and `dead_letter` overwrite any row.
MarkTerminalFailure(t, s) == Release(t, s)

\* worker_id and the lease are not assigned: a queued row has neither.
CancelQueuedRow(t) ==
    /\ status[t] = "queued"
    /\ Write(t, "cancelled", attempts[t], owner[t], lease[t])

\* Slip: the UPDATE without its status predicate.
MarkCancellingAnyStatus(t) ==
    Write(t, "cancelling", attempts[t], owner[t], lease[t])

MarkCancelling(t) ==
    IF status[t] = "running"
    THEN Write(t, "cancelling", attempts[t], owner[t], lease[t])
    ELSE UNCHANGED tableVars

MarkCancelled(t) ==
    IF status[t] \in Held \cup {"queued"}
    THEN Release(t, "cancelled")
    ELSE UNCHANGED tableVars

\* No status predicate: any row goes back to the queue.
ReleaseForRetry(t) == Release(t, "queued")

ResetForManualRetry(t) ==
    IF status[t] = "dead_letter"
    THEN Write(t, "queued", 0, NoWorker, "none")
    ELSE UNCHANGED tableVars

\* Slip: the reaper takes every held row, expired or not.
AllLeases == {t \in Tasks : status[t] \in Held}

\* Slip: only tasks that were never attempted are looked at.
SettledUnattempted ==
    {t \in Tasks : status[t] = "queued" /\ settled[t] /\ attempts[t] = 0}

\* findExpiredLeases and findQueued, as sets of rows (LIMIT 50 is never met).
ExpiredLeases == {t \in Tasks : status[t] \in Held /\ lease[t] = "expired"}
SettledQueued == {t \in Tasks : status[t] = "queued" /\ settled[t]}

=============================================================================

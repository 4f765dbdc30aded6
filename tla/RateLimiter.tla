----------------------------- MODULE RateLimiter -----------------------------
(***************************************************************************)
(* The sliding window log of server/src/lib/rate-limiter.ts: one sorted    *)
(* set of stamps per client in Redis.  An attempt stamps itself and sends  *)
(* its transaction in one turn, on the one connection of the one api that  *)
(* serves, so transactions are executed in the order of their stamps.      *)
(***************************************************************************)
EXTENDS Naturals, FiniteSets, FiniteSetsExt

CONSTANTS
    Requests,
    Clients,
    ClientOf,       \* ClientOf[r]: who submits request r
    Limit,          \* RATE_LIMIT_MAX
    Window,         \* RATE_LIMIT_WINDOW_MS
    Horizon         \* the clock stops here: bounds the runs

ASSUME ClientOfAssumption == ClientOf \in [Requests -> Clients]
ASSUME LimitAssumption == Limit \in Nat \ {0} /\ Window \in Nat \ {0}
ASSUME HorizonAssumption == Horizon \in Nat

VARIABLES
    now,
    log,        \* log[c]: the sorted set, entries [at, of]
    expiry,     \* expiry[c]: when Redis drops the set
    check       \* check[r]: see Check

limiterVars == <<now, log, expiry, check>>

Entry == [at : Nat, of : Requests]

(* "excess": over the limit, entry still in the log; "removed": taken      *)
(* back; "abandoned": the api died in between.                             *)
CheckState == {"none", "admitted", "excess", "removed", "rejected", "abandoned"}
Check == [state : CheckState, at : Nat]

Unchecked == [state |-> "none", at |-> 0]

LimiterTypeOK ==
    /\ now \in Nat
    /\ log \in [Clients -> SUBSET Entry]
    /\ expiry \in [Clients -> Nat]
    /\ check \in [Requests -> Check]

\* Any time: the log knows no boundaries.  1 is on none of a fixed window.
LimiterInit ==
    /\ now = 1
    /\ log = [c \in Clients |-> {}]
    /\ expiry = [c \in Clients |-> 0]
    /\ check = [r \in Requests |-> Unchecked]

EntryOf(r) == [at |-> check[r].at, of |-> r]

\* Slip: a fixed window, starting over at every multiple of its length.
InFixedWindow(e, t) == e.at \div Window = t \div Window

\* zremrangebyscore drops the stamps up to t - Window.
InWindow(e, t) == t < e.at + Window

Recent(c) == {e \in log[c] : InWindow(e, now)}

(* The transaction: evict, count, record, set the expiry.  The decision is *)
(* taken from its reply; in between nothing of the limiter depends on it.  *)
Attempt(r) ==
    LET c == ClientOf[r]
        s == IF Cardinality(Recent(c)) < Limit THEN "admitted" ELSE "excess"
    IN /\ check[r].state = "none"
       /\ check' = [check EXCEPT ![r] = [state |-> s, at |-> now]]
       /\ log' = [log EXCEPT ![c] = Recent(c) \cup {[at |-> now, of |-> r]}]
       /\ expiry' = [expiry EXCEPT ![c] = now + 2 * Window]
       /\ UNCHANGED now

\* Slip: the entry of a rejected attempt is left in the log.
TakeBackNothing(r) ==
    /\ check[r].state = "excess"
    /\ check' = [check EXCEPT ![r].state = "removed"]
    /\ UNCHANGED <<now, log, expiry>>

TakeBack(r) ==
    /\ check[r].state = "excess"
    /\ check' = [check EXCEPT ![r].state = "removed"]
    /\ log' = [log EXCEPT ![ClientOf[r]] = @ \ {EntryOf(r)}]
    /\ UNCHANGED <<now, expiry>>

\* Slip: the wait is counted from the attempt, not from the oldest entry.
AttemptExpiry(c, t) == t + 1

(* oldestExpiry, for an attempt stamped t: resetAtMs of the answer, which  *)
(* Retry-After is made from.                                               *)
OldestExpiry(c, t) ==
    Window + (IF log[c] = {} THEN t ELSE Min({e.at : e \in log[c]}))

Reject(r) ==
    /\ check[r].state = "removed"
    /\ check' = [check EXCEPT ![r].state = "rejected"]
    /\ UNCHANGED <<now, log, expiry>>

\* The api dies: what it was about to take back stays in the log.
Abandon ==
    /\ check' = [r \in Requests |->
                   IF check[r].state \in {"excess", "removed"}
                   THEN [check[r] EXCEPT !.state = "abandoned"] ELSE check[r]]
    /\ UNCHANGED <<now, log, expiry>>

\* Slip: the set is kept for ever.
Kept(c) == log[c]

\* Redis drops a set whose time has come.
Unexpired(c) == IF now + 1 < expiry[c] THEN log[c] ELSE {}

\* The clock stands still while no set has an entry: bounds the runs.
Pass ==
    /\ now < Horizon
    /\ \E c \in Clients : log[c] # {}
    /\ now' = now + 1
    /\ log' = [c \in Clients |-> Unexpired(c)]
    /\ UNCHANGED <<expiry, check>>

-----------------------------------------------------------------------------
Admitted(c) == {r \in Requests : ClientOf[r] = c /\ check[r].state = "admitted"}

(* "A fixed window ... permits twice the limit across a boundary": in no   *)
(* window, wherever it ends, are more submissions of a client admitted     *)
(* than the limit, however attempts overlap and whenever the api dies.     *)
AtMostLimit ==
    \A c \in Clients : \A r \in Admitted(c) :
        Cardinality({q \in Admitted(c) :
            check[q].at <= check[r].at /\ check[r].at < check[q].at + Window}) <= Limit

(* "Take back the entry just added so a rejected request does not extend   *)
(* the window it was rejected by": once answered it has left the log.  It  *)
(* does count while it is being answered, and where the api died over it.  *)
RejectedLeavesLog ==
    \A c \in Clients : \A e \in log[c] :
        /\ ClientOf[e.of] = c /\ e.at = check[e.of].at
        /\ check[e.of].state \in {"admitted", "excess", "abandoned"}

(* Whatever was left behind is forgotten when the client has been silent   *)
(* for two windows: no set outlives its use.                               *)
NothingRemembered ==
    \A c \in Clients : log[c] # {} =>
        \E r \in Requests : /\ ClientOf[r] = c /\ check[r].state # "none"
                            /\ now < check[r].at + 2 * Window

(* Retry-After is worth following: when that time has come the log has     *)
(* room again, unless attempts that were rejected stand in it.             *)
RetryAfterServes ==
    [][\A r \in Requests :
         check[r].state = "removed" /\ check'[r].state = "rejected" =>
           LET c == ClientOf[r]
           IN  (\A e \in log[c] : check[e.of].state = "admitted") =>
                 Cardinality({e \in log[c] :
                     InWindow(e, OldestExpiry(c, check[r].at))}) < Limit]_limiterVars

=============================================================================

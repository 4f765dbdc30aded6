--------------------------- MODULE RateLimiterProofs ---------------------------
(***************************************************************************)
(* What each step of the limiter keeps true, for any number of clients and *)
(* attempts, any limit and any window.  The theorems are ApiServer's.      *)
(***************************************************************************)
EXTENDS RateLimiter, FunctionTheorems, FiniteSetTheorems, WellFoundedInduction, TLAPS

Stamped(r) == check[r].state # "none"

AdmittedEntries(c) == {e \in log[c] : check[e.of].state = "admitted"}

\* Every submission of r's client admitted within the window that ends at r.
WindowOf(r) ==
    {q \in Admitted(ClientOf[r]) :
        check[q].at <= check[r].at /\ check[r].at < check[q].at + Window}

\* An admitted attempt stands in the log for a window, and the set with it.
Remembered ==
    \A r \in Requests : check[r].state = "admitted" =>
        /\ now < check[r].at + Window => EntryOf(r) \in log[ClientOf[r]]
        /\ check[r].at + 2 * Window <= expiry[ClientOf[r]]

\* The set expires two windows after its client's last attempt.
Expires ==
    \A c \in Clients :
        /\ log[c] # {} => now < expiry[c]
        /\ expiry[c] # 0 => \E r \in Requests :
              ClientOf[r] = c /\ Stamped(r) /\ expiry[c] = check[r].at + 2 * Window

\* The log holds no more admitted attempts than the limit.
LogBounded ==
    \A c \in Clients :
        IsFiniteSet(log[c]) /\ Cardinality(AdmittedEntries(c)) <= Limit

WindowsBounded == \A r \in Requests :
    check[r].state = "admitted" =>
        IsFiniteSet(WindowOf(r)) /\ Cardinality(WindowOf(r)) <= Limit

PastStamps == \A r \in Requests : Stamped(r) => check[r].at <= now

LimiterInv ==
    /\ LimiterTypeOK
    /\ PastStamps
    /\ RejectedLeavesLog
    /\ Remembered
    /\ Expires
    /\ LogBounded
    /\ WindowsBounded

-----------------------------------------------------------------------------
LEMMA LeastNumber ==
    ASSUME NEW A, A \subseteq Nat, A # {}
    PROVE  \E x \in A : \A y \in A : x <= y
<1>1. PICK x \in A : \A y \in A : ~ (<<y, x>> \in OpToRel(<, Nat))
  BY WFMin, NatLessThanWellFounded
<1>2. ASSUME NEW y \in A
      PROVE  x <= y
  <2>1. x \in Nat /\ y \in Nat
    OBVIOUS
  <2>2. y < x => <<y, x>> \in OpToRel(<, Nat)
    BY <2>1, Zenon DEF OpToRel
  <2>3. ~ (y < x)
    BY <1>1, <2>2, Zenon
  <2> QED
    BY <2>1, <2>3
<1> QED
  BY <1>2

LEMMA Constants ==
    /\ Limit \in Nat /\ Limit > 0
    /\ Window \in Nat /\ Window > 0
    /\ \A r \in Requests : ClientOf[r] \in Clients
  BY LimitAssumption, ClientOfAssumption

LEMMA EntryTyped ==
    ASSUME LimiterTypeOK, NEW r \in Requests
    PROVE  /\ EntryOf(r) \in Entry /\ EntryOf(r).of = r /\ EntryOf(r).at = check[r].at
           /\ check[r].at \in Nat /\ check[r].state \in CheckState
  BY DEF LimiterTypeOK, EntryOf, Entry, Check

LEMMA LimiterStarts ==
    ASSUME LimiterInit
    PROVE  LimiterInv
<1> USE Constants DEF LimiterInit
<1>1. LimiterTypeOK
  BY DEF LimiterTypeOK, Entry, Check, CheckState, Unchecked
<1>2. \A r \in Requests : check[r].state = "none"
  BY DEF Unchecked
<1>3. PastStamps /\ RejectedLeavesLog /\ Remembered /\ Expires /\ WindowsBounded
  BY <1>2 DEF PastStamps, RejectedLeavesLog, Remembered, Expires, WindowsBounded,
              Stamped
<1>4. LogBounded
  <2> SUFFICES ASSUME NEW c \in Clients
               PROVE  IsFiniteSet(log[c]) /\ Cardinality(AdmittedEntries(c)) <= Limit
    BY DEF LogBounded
  <2>1. log[c] = {} /\ AdmittedEntries(c) = {}
    BY DEF AdmittedEntries
  <2> QED
    BY <2>1, FS_EmptySet
<1> QED
  BY <1>1, <1>3, <1>4 DEF LimiterInv

(* Steps that admit nobody and take only entries of others out of the log  *)
(* leave every window as it is.                                            *)
LEMMA WindowsKept ==
    ASSUME LimiterInv,
           check' \in [Requests -> Check],
           \A r \in Requests :
               /\ check'[r].state = "admitted" <=> check[r].state = "admitted"
               /\ check'[r].at = check[r].at
    PROVE  WindowsBounded'
<1>1. \A c : Admitted(c)' = Admitted(c)
  BY DEF Admitted
<1>2. \A r \in Requests : WindowOf(r)' = WindowOf(r)
  BY <1>1 DEF WindowOf, Admitted
<1> QED
  BY <1>2 DEF WindowsBounded, LimiterInv

LEMMA LogShrinks ==
    ASSUME LimiterInv,
           log' \in [Clients -> SUBSET Entry],
           \A c \in Clients : log'[c] \subseteq log[c],
           \A r \in Requests :
               check'[r].state = "admitted" <=> check[r].state = "admitted"
    PROVE  LogBounded'
<1> SUFFICES ASSUME NEW c \in Clients
             PROVE  IsFiniteSet(log'[c]) /\ Cardinality(AdmittedEntries(c)') <= Limit
  BY DEF LogBounded
<1>1. IsFiniteSet(log[c]) /\ Cardinality(AdmittedEntries(c)) <= Limit
  BY DEF LimiterInv, LogBounded
<1>2. AdmittedEntries(c) \subseteq log[c] /\ AdmittedEntries(c)' \subseteq AdmittedEntries(c)
  BY DEF AdmittedEntries, Entry
<1>3. IsFiniteSet(log'[c]) /\ IsFiniteSet(AdmittedEntries(c))
  BY <1>1, <1>2, FS_Subset
<1>4. /\ IsFiniteSet(AdmittedEntries(c)')
      /\ Cardinality(AdmittedEntries(c)') <= Cardinality(AdmittedEntries(c))
  BY <1>2, <1>3, FS_Subset
<1>5. /\ Cardinality(AdmittedEntries(c)') \in Nat
      /\ Cardinality(AdmittedEntries(c)) \in Nat
  BY <1>3, <1>4, FS_CardinalityType
<1> QED
  BY <1>1, <1>3, <1>4, <1>5, Constants

-----------------------------------------------------------------------------
(* Attempt.                                                                *)

LEMMA AttemptTyped ==
    ASSUME LimiterInv, NEW r \in Requests, Attempt(r)
    PROVE  /\ LimiterTypeOK'
           /\ check[r].state = "none"
           /\ check'[r].state \in {"admitted", "excess"} /\ check'[r].at = now
           /\ check'[r].state = "admitted" <=>
                 Cardinality(Recent(ClientOf[r])) < Limit
           /\ \A q \in Requests \ {r} : check'[q] = check[q]
           /\ now' = now
           /\ ClientOf[r] \in Clients
           /\ log'[ClientOf[r]] = Recent(ClientOf[r]) \cup {[at |-> now, of |-> r]}
           /\ expiry'[ClientOf[r]] = now + 2 * Window
           /\ \A c \in Clients \ {ClientOf[r]} :
                 log'[c] = log[c] /\ expiry'[c] = expiry[c]
           /\ EntryOf(r)' = [at |-> now, of |-> r]
           /\ \A q \in Requests \ {r} : EntryOf(q)' = EntryOf(q)
<1> USE Constants DEF Attempt
<1>1. LimiterTypeOK
  BY DEF LimiterInv
<1>2. /\ check[r].state = "none"
      /\ check'[r].state \in {"admitted", "excess"} /\ check'[r].at = now
      /\ check'[r].state = "admitted" <=> Cardinality(Recent(ClientOf[r])) < Limit
      /\ \A q \in Requests \ {r} : check'[q] = check[q]
      /\ now' = now
      /\ check' \in [Requests -> Check]
  BY <1>1 DEF LimiterTypeOK, Check, CheckState
<1>3. Recent(ClientOf[r]) \in SUBSET Entry
  BY <1>1 DEF Recent, LimiterTypeOK
<1>4. [at |-> now, of |-> r] \in Entry
  BY <1>1 DEF LimiterTypeOK, Entry
<1>5. /\ log'[ClientOf[r]] = Recent(ClientOf[r]) \cup {[at |-> now, of |-> r]}
      /\ \A c \in Clients \ {ClientOf[r]} : log'[c] = log[c]
      /\ log' \in [Clients -> SUBSET Entry]
  BY <1>1, <1>3, <1>4 DEF LimiterTypeOK
<1>6. /\ expiry'[ClientOf[r]] = now + 2 * Window
      /\ \A c \in Clients \ {ClientOf[r]} : expiry'[c] = expiry[c]
      /\ expiry' \in [Clients -> Nat]
  BY <1>1 DEF LimiterTypeOK
<1>7. LimiterTypeOK'
  BY <1>1, <1>2, <1>5, <1>6 DEF LimiterTypeOK
<1> QED
  BY <1>2, <1>5, <1>6, <1>7 DEF EntryOf

(* The submissions admitted within the window before an attempt stand in   *)
(* the log: they are no more than the recent entries.                      *)
LEMMA RecentCoverWindow ==
    ASSUME LimiterInv, NEW c \in Clients
    PROVE  LET Q == {q \in Admitted(c) : now < check[q].at + Window}
           IN  /\ IsFiniteSet(Recent(c)) /\ IsFiniteSet(Q)
               /\ Cardinality(Q) <= Cardinality(Recent(c))
               /\ Cardinality(Q) \in Nat /\ Cardinality(Recent(c)) \in Nat
<1> DEFINE Q == {q \in Admitted(c) : now < check[q].at + Window}
           f == [q \in Q |-> EntryOf(q)]
<1>1. IsFiniteSet(Recent(c))
  <2>1. IsFiniteSet(log[c]) /\ Recent(c) \subseteq log[c]
    BY DEF LimiterInv, LogBounded, Recent
  <2> QED
    BY <2>1, FS_Subset
<1>2. \A q \in Q : EntryOf(q) \in Recent(c) /\ EntryOf(q).of = q
  <2> SUFFICES ASSUME NEW q \in Q
               PROVE  EntryOf(q) \in Recent(c) /\ EntryOf(q).of = q
    OBVIOUS
  <2>1. q \in Requests /\ ClientOf[q] = c /\ check[q].state = "admitted"
        /\ now < check[q].at + Window
    BY DEF Admitted
  <2>2. EntryOf(q).of = q /\ EntryOf(q).at = check[q].at
    BY <2>1, EntryTyped DEF LimiterInv
  <2>3. EntryOf(q) \in log[c]
    BY <2>1 DEF LimiterInv, Remembered
  <2> QED
    BY <2>1, <2>2, <2>3 DEF Recent, InWindow
<1>3. f \in Injection(Q, Recent(c))
  <2>1. f \in [Q -> Recent(c)]
    BY <1>2
  <2>2. ASSUME NEW p \in Q, NEW q \in Q, f[p] = f[q]
        PROVE  p = q
    BY <2>2, <1>2
  <2> HIDE DEF f, Q
  <2> QED
    BY <2>1, <2>2, Fun_IsInj
<1>4. IsFiniteSet(Q) /\ Cardinality(Q) <= Cardinality(Recent(c))
  <2> HIDE DEF f, Q
  <2> QED
    BY <1>1, <1>3, FS_Injection
<1> QED
  BY <1>1, <1>4, FS_CardinalityType

LEMMA AttemptBoundsWindows ==
    ASSUME LimiterInv, NEW r \in Requests, Attempt(r)
    PROVE  WindowsBounded'
<1> DEFINE c == ClientOf[r]
           Q == {q \in Admitted(c) : now < check[q].at + Window}
<1>1. /\ check[r].state = "none" /\ check'[r].at = now /\ now' = now
      /\ \A q \in Requests \ {r} : check'[q] = check[q]
      /\ c \in Clients /\ now \in Nat
      /\ check'[r].state = "admitted" <=> Cardinality(Recent(c)) < Limit
  BY AttemptTyped DEF LimiterInv, LimiterTypeOK
<1>2. /\ IsFiniteSet(Q) /\ Cardinality(Q) <= Cardinality(Recent(c))
      /\ Cardinality(Q) \in Nat /\ Cardinality(Recent(c)) \in Nat
  BY <1>1, RecentCoverWindow
<1>3. \A q \in Requests : check[q].state = "admitted" =>
          check[q].at <= now /\ check[q].at \in Nat
  <2> TAKE q \in Requests
  <2> QED
    BY EntryTyped DEF LimiterInv, PastStamps, Stamped
<1> SUFFICES ASSUME NEW p \in Requests, check'[p].state = "admitted"
             PROVE  IsFiniteSet(WindowOf(p)') /\ Cardinality(WindowOf(p)') <= Limit
  BY DEF WindowsBounded
<1>4. CASE check'[r].state # "admitted"
  <2>1. p # r /\ check[p].state = "admitted"
    BY <1>1, <1>4
  <2>2. Admitted(ClientOf[p])' = Admitted(ClientOf[p])
    BY <1>1, <1>4 DEF Admitted
  <2>3. WindowOf(p)' = WindowOf(p)
    BY <1>1, <2>1, <2>2 DEF WindowOf, Admitted
  <2> QED
    BY <2>1, <2>3 DEF LimiterInv, WindowsBounded
<1>5. CASE check'[r].state = "admitted" /\ ClientOf[p] = c /\ check'[p].at = now
  <2>1. Admitted(c)' = Admitted(c) \cup {r} /\ r \notin Admitted(c)
    BY <1>1, <1>5 DEF Admitted
  <2>2. r \in Admitted(c)' /\ \A q \in Admitted(c) : q # r /\ check'[q] = check[q]
    BY <1>1, <2>1 DEF Admitted
  <2>3. now < now + Window /\ now <= now
    BY <1>1, Constants
  <2>4. WindowOf(p)' = Q \cup {r}
    <3>1. WindowOf(p)' = {q \in Admitted(c)' :
              check'[q].at <= now /\ now < check'[q].at + Window}
      BY <1>5 DEF WindowOf
    <3>2. \A q \in Admitted(c) : check[q].at <= now
      BY <1>3 DEF Admitted
    <3> QED
      BY <1>1, <2>1, <2>2, <2>3, <3>1, <3>2
  <2>5. r \notin Q
    BY <2>1
  <2>6. IsFiniteSet(Q \cup {r}) /\ Cardinality(Q \cup {r}) = Cardinality(Q) + 1
    BY <1>2, <2>5, FS_AddElement
  <2> QED
    BY <1>1, <1>2, <1>5, <2>4, <2>6, Constants
<1>6. CASE check'[r].state = "admitted" /\ ~ (ClientOf[p] = c /\ check'[p].at = now)
  <2>1. p # r /\ check[p].state = "admitted" /\ check'[p] = check[p]
    BY <1>1, <1>6
  <2>2. ClientOf[p] = c => check[p].at < now
    BY <1>1, <1>3, <1>6, <2>1
  <2>3. Admitted(ClientOf[p]) \subseteq Admitted(ClientOf[p])'
        /\ Admitted(ClientOf[p])' \subseteq Admitted(ClientOf[p]) \cup {r}
        /\ (r \in Admitted(ClientOf[p])' => ClientOf[p] = c)
        /\ \A q \in Admitted(ClientOf[p]) : q # r /\ check'[q] = check[q]
    BY <1>1 DEF Admitted
  <2>4. WindowOf(p)' = WindowOf(p)
    BY <1>1, <1>3, <2>1, <2>2, <2>3 DEF WindowOf
  <2> QED
    BY <2>1, <2>4 DEF LimiterInv, WindowsBounded
<1> QED
  BY <1>4, <1>5, <1>6

LEMMA AttemptBoundsLog ==
    ASSUME LimiterInv, NEW r \in Requests, Attempt(r)
    PROVE  LogBounded'
<1> DEFINE e == [at |-> now, of |-> r]
           c == ClientOf[r]
<1>1. /\ check[r].state = "none" /\ c \in Clients
      /\ check'[r].state \in {"admitted", "excess"}
      /\ \A q \in Requests \ {r} : check'[q] = check[q]
      /\ log'[c] = Recent(c) \cup {e}
      /\ \A d \in Clients \ {c} : log'[d] = log[d]
      /\ check'[r].state = "admitted" <=> Cardinality(Recent(c)) < Limit
  BY AttemptTyped
<1>2. \A d \in Clients : \A f \in log[d] : f.of \in Requests /\ f.of # r
  BY <1>1 DEF LimiterInv, LimiterTypeOK, Entry, RejectedLeavesLog
<1>3. /\ IsFiniteSet(Recent(c)) /\ Cardinality(Recent(c)) \in Nat
      /\ IsFiniteSet(log'[c])
      /\ Cardinality(log'[c]) <= Cardinality(Recent(c)) + 1
  <2>1. IsFiniteSet(Recent(c)) /\ Cardinality(Recent(c)) \in Nat
    BY <1>1, RecentCoverWindow
  <2>2. /\ IsFiniteSet(Recent(c) \cup {e})
        /\ Cardinality(Recent(c) \cup {e}) <= Cardinality(Recent(c)) + 1
    <3> DEFINE R == Recent(c)
    <3> HIDE DEF R, e
    <3>1. IsFiniteSet(R \cup {e}) /\ Cardinality(R) \in Nat
          /\ Cardinality(R \cup {e}) = IF e \in R THEN Cardinality(R)
                                      ELSE Cardinality(R) + 1
      BY <2>1, FS_AddElement DEF R
    <3> QED
      BY <3>1 DEF R
  <2> QED
    BY <1>1, <2>1, <2>2
<1> SUFFICES ASSUME NEW d \in Clients
             PROVE  IsFiniteSet(log'[d]) /\ Cardinality(AdmittedEntries(d)') <= Limit
  BY DEF LogBounded
<1>4. CASE d # c
  <2>1. log'[d] = log[d] /\ AdmittedEntries(d)' = AdmittedEntries(d)
    BY <1>1, <1>2, <1>4 DEF AdmittedEntries
  <2> QED
    BY <2>1 DEF LimiterInv, LogBounded
<1>5. CASE d = c /\ check'[r].state = "admitted"
  <2>1. AdmittedEntries(c)' \subseteq log'[c]
    BY DEF AdmittedEntries
  <2>2. /\ Cardinality(AdmittedEntries(c)') <= Cardinality(log'[c])
        /\ IsFiniteSet(AdmittedEntries(c)')
    BY <1>3, <2>1, FS_Subset
  <2>3. Cardinality(AdmittedEntries(c)') \in Nat /\ Cardinality(log'[c]) \in Nat
    BY <1>3, <2>2, FS_CardinalityType
  <2>4. Cardinality(Recent(c)) + 1 <= Limit
    BY <1>1, <1>3, <1>5, Constants
  <2>5. Cardinality(AdmittedEntries(c)') <= Limit
    BY <1>3, <2>2, <2>3, <2>4, Constants
  <2> QED
    BY <1>3, <1>5, <2>5
<1>6. CASE d = c /\ check'[r].state = "excess"
  <2>1. AdmittedEntries(c)' \subseteq AdmittedEntries(c)
    BY <1>1, <1>2, <1>6 DEF AdmittedEntries, Recent
  <2>2. IsFiniteSet(log[c]) /\ AdmittedEntries(c) \subseteq log[c]
        /\ Cardinality(AdmittedEntries(c)) <= Limit
    BY <1>1 DEF LimiterInv, LogBounded, AdmittedEntries
  <2>3. IsFiniteSet(AdmittedEntries(c))
    BY <2>2, FS_Subset
  <2>4. /\ IsFiniteSet(AdmittedEntries(c)')
        /\ Cardinality(AdmittedEntries(c)') <= Cardinality(AdmittedEntries(c))
    BY <2>1, <2>3, FS_Subset
  <2>5. Cardinality(AdmittedEntries(c)') \in Nat /\ Cardinality(AdmittedEntries(c)) \in Nat
    BY <2>3, <2>4, FS_CardinalityType
  <2> QED
    BY <1>3, <1>6, <2>2, <2>4, <2>5, Constants
<1> QED
  BY <1>1, <1>4, <1>5, <1>6

LEMMA AttemptKeeps ==
    ASSUME LimiterInv, NEW r \in Requests, Attempt(r)
    PROVE  LimiterInv'
<1> DEFINE c == ClientOf[r]
<1>1. /\ LimiterTypeOK'
      /\ check[r].state = "none" /\ check'[r].state \in {"admitted", "excess"}
      /\ check'[r].at = now /\ now' = now /\ c \in Clients
      /\ \A q \in Requests \ {r} : check'[q] = check[q]
      /\ log'[c] = Recent(c) \cup {[at |-> now, of |-> r]}
      /\ expiry'[c] = now + 2 * Window
      /\ \A d \in Clients \ {c} : log'[d] = log[d] /\ expiry'[d] = expiry[d]
      /\ EntryOf(r)' = [at |-> now, of |-> r]
      /\ \A q \in Requests \ {r} : EntryOf(q)' = EntryOf(q)
  BY AttemptTyped
<1>2. now \in Nat /\ Window \in Nat /\ Window > 0
  BY Constants DEF LimiterInv, LimiterTypeOK
<1>3. PastStamps'
  BY <1>1, <1>2 DEF LimiterInv, PastStamps, Stamped
<1>4. RejectedLeavesLog'
  <2> SUFFICES ASSUME NEW d \in Clients, NEW e \in log'[d]
               PROVE  /\ ClientOf[e.of] = d /\ e.at = check'[e.of].at
                      /\ check'[e.of].state \in {"admitted", "excess", "abandoned"}
    BY DEF RejectedLeavesLog
  <2>1. CASE e \in log[d]
    <3>1. /\ ClientOf[e.of] = d /\ e.at = check[e.of].at /\ e.of \in Requests
          /\ check[e.of].state \in {"admitted", "excess", "abandoned"}
      BY <2>1 DEF LimiterInv, RejectedLeavesLog, LimiterTypeOK, Entry
    <3> QED
      BY <1>1, <3>1
  <2>2. CASE d = c /\ e = [at |-> now, of |-> r]
    BY <1>1, <2>2
  <2> QED
    BY <1>1, <2>1, <2>2 DEF Recent
<1>5. Remembered'
  <2> SUFFICES ASSUME NEW q \in Requests, check'[q].state = "admitted"
               PROVE  /\ now < check'[q].at + Window => EntryOf(q)' \in log'[ClientOf[q]]
                      /\ check'[q].at + 2 * Window <= expiry'[ClientOf[q]]
    BY <1>1 DEF Remembered
  <2>1. CASE q = r
    BY <1>1, <1>2, <2>1
  <2>2. CASE q # r
    <3>1. /\ check[q].state = "admitted" /\ check'[q] = check[q]
          /\ check[q].at \in Nat /\ check[q].at <= now
          /\ ClientOf[q] \in Clients /\ expiry[ClientOf[q]] \in Nat
          /\ now < check[q].at + Window => EntryOf(q) \in log[ClientOf[q]]
          /\ check[q].at + 2 * Window <= expiry[ClientOf[q]]
          /\ EntryOf(q).at = check[q].at
      BY <1>1, <2>2, EntryTyped, Constants
         DEF LimiterInv, LimiterTypeOK, Remembered, PastStamps, Stamped
    <3>2. now < check[q].at + Window => EntryOf(q) \in log'[ClientOf[q]]
      BY <1>1, <3>1 DEF Recent, InWindow
    <3>3. check[q].at + 2 * Window <= expiry'[ClientOf[q]]
      BY <1>1, <1>2, <3>1
    <3> QED
      BY <1>1, <2>2, <3>1, <3>2, <3>3
  <2> QED
    BY <2>1, <2>2
<1>6. Expires'
  <2> SUFFICES ASSUME NEW d \in Clients
               PROVE  /\ log'[d] # {} => now < expiry'[d]
                      /\ expiry'[d] # 0 => \E q \in Requests :
                            /\ ClientOf[q] = d /\ check'[q].state # "none"
                            /\ expiry'[d] = check'[q].at + 2 * Window
    BY <1>1 DEF Expires, Stamped
  <2>1. CASE d = c
    BY <1>1, <1>2, <2>1
  <2>2. CASE d # c
    <3>1. /\ log[d] # {} => now < expiry[d]
          /\ expiry[d] # 0 => \E q \in Requests \ {r} :
                /\ ClientOf[q] = d /\ check[q].state # "none"
                /\ expiry[d] = check[q].at + 2 * Window
      BY <1>1, <2>2 DEF LimiterInv, Expires, Stamped
    <3> QED
      BY <1>1, <2>2, <3>1
  <2> QED
    BY <2>1, <2>2
<1> QED
  BY <1>1, <1>3, <1>4, <1>5, <1>6, AttemptBoundsWindows, AttemptBoundsLog
     DEF LimiterInv

-----------------------------------------------------------------------------
(* The other steps.                                                        *)

LEMMA TakeBackKeeps ==
    ASSUME LimiterInv, NEW r \in Requests, TakeBack(r)
    PROVE  LimiterInv'
<1> DEFINE c == ClientOf[r]
<1>1. /\ check[r].state = "excess" /\ c \in Clients
      /\ check' \in [Requests -> Check] /\ log' \in [Clients -> SUBSET Entry]
      /\ check'[r].state = "removed" /\ check'[r].at = check[r].at
      /\ \A q \in Requests \ {r} : check'[q] = check[q]
      /\ log'[c] = log[c] \ {EntryOf(r)}
      /\ \A d \in Clients \ {c} : log'[d] = log[d]
      /\ now' = now /\ expiry' = expiry
  BY Constants DEF TakeBack, LimiterInv, LimiterTypeOK, Check, CheckState
<1>2. LimiterTypeOK'
  BY <1>1 DEF LimiterInv, LimiterTypeOK
<1>3. PastStamps'
  BY <1>1 DEF LimiterInv, PastStamps, Stamped
<1>4. RejectedLeavesLog'
  <2> SUFFICES ASSUME NEW d \in Clients, NEW e \in log'[d]
               PROVE  /\ ClientOf[e.of] = d /\ e.at = check'[e.of].at
                      /\ check'[e.of].state \in {"admitted", "excess", "abandoned"}
    BY DEF RejectedLeavesLog
  <2>1. /\ e \in log[d] /\ e \in Entry /\ e.of \in Requests
        /\ ClientOf[e.of] = d /\ e.at = check[e.of].at
        /\ check[e.of].state \in {"admitted", "excess", "abandoned"}
    BY <1>1 DEF LimiterInv, RejectedLeavesLog, LimiterTypeOK, Entry
  <2>2. e.of # r
    <3> SUFFICES ASSUME e.of = r
                 PROVE  FALSE
      OBVIOUS
    <3>1. e = EntryOf(r) /\ d = c
      BY <2>1 DEF EntryOf, Entry
    <3> QED
      BY <1>1, <3>1
  <2> QED
    BY <1>1, <2>1, <2>2
<1>5. Remembered'
  <2> SUFFICES ASSUME NEW q \in Requests, check'[q].state = "admitted"
               PROVE  /\ now < check'[q].at + Window => EntryOf(q)' \in log'[ClientOf[q]]
                      /\ check'[q].at + 2 * Window <= expiry[ClientOf[q]]
    BY <1>1 DEF Remembered
  <2>1. /\ q # r /\ check'[q] = check[q] /\ check[q].state = "admitted"
        /\ EntryOf(q).of = q /\ EntryOf(r).of = r /\ EntryOf(q)' = EntryOf(q)
        /\ ClientOf[q] \in Clients
    BY <1>1, EntryTyped, Constants DEF LimiterInv, EntryOf
  <2>2. /\ now < check[q].at + Window => EntryOf(q) \in log[ClientOf[q]]
        /\ check[q].at + 2 * Window <= expiry[ClientOf[q]]
    BY <2>1 DEF LimiterInv, Remembered
  <2> QED
    BY <1>1, <2>1, <2>2
<1>6. Expires'
  <2>1. \A q \in Requests : check'[q].at = check[q].at /\ (Stamped(q) => Stamped(q)')
    BY <1>1 DEF Stamped
  <2>2. \A d \in Clients : log'[d] \subseteq log[d]
    BY <1>1
  <2> QED
    BY <1>1, <2>1, <2>2 DEF LimiterInv, Expires
<1>7. \A q \in Requests : /\ check'[q].state = "admitted" <=> check[q].state = "admitted"
                          /\ check'[q].at = check[q].at
  BY <1>1
<1>8. \A d \in Clients : log'[d] \subseteq log[d]
  BY <1>1
<1> QED
  BY <1>1, <1>2, <1>3, <1>4, <1>5, <1>6, <1>7, <1>8, WindowsKept, LogShrinks
     DEF LimiterInv

(* Reject, and the death of the api: the log stays, and no attempt that    *)
(* stands in it is called anything but admitted, excess or abandoned.      *)
LEMMA JudgedKeeps ==
    ASSUME LimiterInv,
           UNCHANGED <<now, log, expiry>>,
           check' \in [Requests -> Check],
           \A r \in Requests :
               \/ check'[r] = check[r]
               \/ /\ check'[r].at = check[r].at
                  /\ \/ check[r].state = "removed" /\ check'[r].state = "rejected"
                     \/ /\ check[r].state \in {"excess", "removed"}
                        /\ check'[r].state = "abandoned"
    PROVE  LimiterInv'
<1>1. \A r \in Requests :
        /\ check'[r].at = check[r].at
        /\ check'[r].state = "admitted" <=> check[r].state = "admitted"
        /\ Stamped(r)' <=> Stamped(r)
        /\ check[r].state \in {"admitted", "excess", "abandoned"} =>
             check'[r].state \in {"admitted", "excess", "abandoned"}
        /\ EntryOf(r)' = EntryOf(r)
  BY DEF Stamped, EntryOf
<1>2. LimiterTypeOK'
  BY DEF LimiterInv, LimiterTypeOK
<1>3. PastStamps' /\ Expires' /\ Remembered'
  BY <1>1 DEF LimiterInv, PastStamps, Expires, Remembered
<1>4. RejectedLeavesLog'
  BY <1>1 DEF LimiterInv, RejectedLeavesLog, LimiterTypeOK, Entry
<1>5. log' \in [Clients -> SUBSET Entry] /\ \A c \in Clients : log'[c] \subseteq log[c]
  BY DEF LimiterInv, LimiterTypeOK
<1> QED
  BY <1>1, <1>2, <1>3, <1>4, <1>5, WindowsKept, LogShrinks DEF LimiterInv

LEMMA PassKeeps ==
    ASSUME LimiterInv, Pass
    PROVE  LimiterInv'
<1>1. /\ now \in Nat /\ now' = now + 1 /\ UNCHANGED <<expiry, check>>
      /\ \A c \in Clients :
           /\ expiry[c] \in Nat
           /\ log'[c] = IF now + 1 < expiry[c] THEN log[c] ELSE {}
      /\ log' \in [Clients -> SUBSET Entry]
  BY DEF Pass, Unexpired, LimiterInv, LimiterTypeOK
<1>2. LimiterTypeOK'
  BY <1>1 DEF LimiterInv, LimiterTypeOK
<1>3. \A c \in Clients : log'[c] \subseteq log[c]
  BY <1>1
<1>4. \A r \in Requests : check[r].at \in Nat
  BY EntryTyped DEF LimiterInv
<1>5. PastStamps'
  BY <1>1, <1>4 DEF LimiterInv, PastStamps, Stamped
<1>6. RejectedLeavesLog'
  BY <1>1, <1>3 DEF LimiterInv, RejectedLeavesLog
<1>7. Remembered'
  <2> SUFFICES ASSUME NEW q \in Requests, check[q].state = "admitted"
               PROVE  /\ now + 1 < check[q].at + Window =>
                           EntryOf(q) \in log'[ClientOf[q]]
                      /\ check[q].at + 2 * Window <= expiry[ClientOf[q]]
    BY <1>1 DEF Remembered, EntryOf
  <2>1. /\ now < check[q].at + Window => EntryOf(q) \in log[ClientOf[q]]
        /\ check[q].at + 2 * Window <= expiry[ClientOf[q]]
        /\ ClientOf[q] \in Clients
    BY Constants DEF LimiterInv, Remembered
  <2> QED
    BY <1>1, <1>4, <2>1, Constants
<1>8. Expires'
  BY <1>1 DEF LimiterInv, Expires, Stamped
<1>9. WindowsBounded'
  BY <1>1, WindowsKept DEF LimiterInv, LimiterTypeOK
<1>10. LogBounded'
  BY <1>1, <1>3, LogShrinks
<1> QED
  BY <1>2, <1>5, <1>6, <1>7, <1>8, <1>9, <1>10 DEF LimiterInv

(* Whatever the api does, the limiter takes one of its steps or none.      *)
LEMMA LimiterStep ==
    ASSUME LimiterInv,
           \/ \E r \in Requests : Attempt(r) \/ TakeBack(r) \/ Reject(r)
           \/ Abandon
           \/ Pass
           \/ UNCHANGED limiterVars
    PROVE  LimiterInv'
<1>1. CASE \E r \in Requests : Attempt(r)
  BY <1>1, AttemptKeeps
<1>2. CASE \E r \in Requests : TakeBack(r)
  BY <1>2, TakeBackKeeps
<1>3. CASE \E r \in Requests : Reject(r)
  BY <1>3, JudgedKeeps DEF Reject, LimiterInv, LimiterTypeOK, Check, CheckState
<1>4. CASE Abandon
  BY <1>4, JudgedKeeps DEF Abandon, LimiterInv, LimiterTypeOK, Check, CheckState
<1>5. CASE Pass
  BY <1>5, PassKeeps
<1>6. CASE UNCHANGED limiterVars
  BY <1>6, JudgedKeeps DEF limiterVars, LimiterInv, LimiterTypeOK
<1> QED
  BY <1>1, <1>2, <1>3, <1>4, <1>5, <1>6

-----------------------------------------------------------------------------
(* What the invariant says.                                                *)

LEMMA InvBoundsWindows ==
    ASSUME LimiterInv
    PROVE  AtMostLimit
<1> SUFFICES ASSUME NEW c \in Clients, NEW r \in Admitted(c)
             PROVE  Cardinality({q \in Admitted(c) :
                        /\ check[q].at <= check[r].at
                        /\ check[r].at < check[q].at + Window}) <= Limit
  BY DEF AtMostLimit
<1>1. r \in Requests /\ ClientOf[r] = c /\ check[r].state = "admitted"
  BY DEF Admitted
<1> QED
  BY <1>1 DEF LimiterInv, WindowsBounded, WindowOf

LEMMA InvForgets ==
    ASSUME LimiterInv
    PROVE  NothingRemembered
<1>1. \A c \in Clients : log[c] # {} => now \in Nat /\ now < expiry[c] /\ expiry[c] # 0
  BY DEF LimiterInv, Expires, LimiterTypeOK
<1> QED
  BY <1>1 DEF NothingRemembered, LimiterInv, Expires, Stamped

(* The oldest entry of a log has left the window by the time announced, so *)
(* that at least one attempt fewer stands against the client.              *)
LEMMA InvRetryServes ==
    ASSUME LimiterInv
    PROVE  \A r \in Requests :
             (\A e \in log[ClientOf[r]] : check[e.of].state = "admitted") =>
               Cardinality({e \in log[ClientOf[r]] :
                  InWindow(e, OldestExpiry(ClientOf[r], check[r].at))}) < Limit
<1> SUFFICES ASSUME NEW r \in Requests,
                    \A e \in log[ClientOf[r]] : check[e.of].state = "admitted"
             PROVE  Cardinality({e \in log[ClientOf[r]] :
                       InWindow(e, OldestExpiry(ClientOf[r], check[r].at))}) < Limit
  OBVIOUS
<1> DEFINE c == ClientOf[r]
           t == OldestExpiry(c, check[r].at)
           S == {e \in log[c] : InWindow(e, t)}
           A == {e.at : e \in log[c]}
<1>1. /\ c \in Clients /\ log[c] \in SUBSET Entry /\ IsFiniteSet(log[c])
      /\ Cardinality(log[c]) <= Limit
  <2>1. AdmittedEntries(c) = log[c]
    BY DEF AdmittedEntries
  <2> QED
    BY <2>1, Constants DEF LimiterInv, LogBounded, LimiterTypeOK
<1>2. CASE log[c] = {}
  <2>1. S = {}
    BY <1>2
  <2> QED
    BY <2>1, FS_EmptySet, Constants
<1>3. CASE log[c] # {}
  <2>1. A # {} /\ A \subseteq Nat
    BY <1>1, <1>3 DEF Entry
  <2>2. \E x \in A : \A y \in A : x <= y
    <3> HIDE DEF A
    <3> QED
      BY <2>1, LeastNumber
  <2>3. Min(A) \in A
    BY <2>2 DEF Min
  <2>5. PICK e \in log[c] : e.at = Min(A)
    BY <2>3
  <2>6. t = Window + e.at /\ e.at \in Nat
    BY <1>1, <1>3, <2>5 DEF OldestExpiry, Entry
  <2>7. e \notin S
    BY <2>6, Constants DEF InWindow
  <2>8. S \subseteq log[c] \ {e}
    BY <2>7
  <2>9. IsFiniteSet(log[c] \ {e}) /\ Cardinality(log[c] \ {e}) = Cardinality(log[c]) - 1
    BY <1>1, FS_RemoveElement
  <2>10. IsFiniteSet(S) /\ Cardinality(S) <= Cardinality(log[c] \ {e})
    <3> HIDE DEF S
    <3> QED
      BY <2>8, <2>9, FS_Subset
  <2>11. Cardinality(S) \in Nat /\ Cardinality(log[c]) \in Nat
    BY <1>1, <2>10, FS_CardinalityType
  <2> QED
    BY <1>1, <2>9, <2>10, <2>11, Constants
<1> QED
  BY <1>2, <1>3

=============================================================================

--------------------------- MODULE FairShareProofs ---------------------------
(***************************************************************************)
(* The proportional share of FairShare, for any number of clients, any     *)
(* positive weights, any cost of a dispatch and any number of rounds.      *)
(***************************************************************************)
EXTENDS FairShare, Integers, TLAPS

-----------------------------------------------------------------------------
(* Arithmetic.  The solver does not multiply unknowns, so the products are *)
(* rearranged here once.                                                   *)

LEMMA MulComm ==
    ASSUME NEW x \in Int, NEW y \in Int
    PROVE  x * y = y * x /\ x * y \in Int
OBVIOUS

LEMMA MulSucc ==
    ASSUME NEW x \in Int, NEW y \in Int
    PROVE  (x + 1) * y = x * y + y /\ y * (x + 1) = y * x + y
OBVIOUS

LEMMA MulMono ==
    ASSUME NEW x \in Nat, NEW y \in Nat, NEW z \in Nat, x <= y
    PROVE  x * z <= y * z /\ x * z \in Nat /\ y * z \in Nat
OBVIOUS

LEMMA MulAssoc ==
    ASSUME NEW x \in Int, NEW y \in Int, NEW z \in Int
    PROVE  /\ x * (y * z) = (x * y) * z
           /\ (x + y) * z = x * z + y * z
OBVIOUS

(* Two clients c and d with their dispatches s, grants r, weights w and    *)
(* deficits e, where k is the cost of a dispatch.                          *)
LEMMA ShareArithmetic ==
    ASSUME NEW k \in Nat, NEW sc \in Nat, NEW sd \in Nat, NEW rc \in Nat,
           NEW rd \in Nat, NEW wc \in Nat, NEW wd \in Nat, NEW ec \in Nat,
           NEW ed \in Nat,
           k * sc + ec = rc * wc,
           k * sd + ed = rd * wd,
           \/ rc <= rd /\ ed <= wd + k
           \/ rc <= rd + 1 /\ ed <= k
    PROVE  k * (sc * wd) <= k * (sd * wc) + wc * (wd + k)
<1> DEFINE p == wc * wd
<1>1. p \in Nat /\ rd * p \in Nat /\ ed * wc \in Nat /\ wd + k \in Nat
      /\ sc * wd \in Nat /\ sd * wc \in Nat /\ rc * wc \in Nat
      /\ rd * wd \in Nat /\ k * sc \in Nat /\ k * sd \in Nat
      /\ k * wc \in Nat /\ rc * p \in Nat
  BY MulMono
<1>2. k * (sc * wd) <= rc * p
  <2>1. k * (sc * wd) = (k * sc) * wd
    BY MulAssoc
  <2>2. (k * sc) * wd <= (rc * wc) * wd
    BY <1>1, MulMono
  <2>3. (rc * wc) * wd = rc * p
    BY MulAssoc
  <2> QED
    BY <2>1, <2>2, <2>3
<1>3. k * (sd * wc) + ed * wc = rd * p
  <2>1. k * (sd * wc) = (k * sd) * wc
    BY MulAssoc
  <2>2. (k * sd) * wc + ed * wc = (k * sd + ed) * wc
    BY <1>1, MulAssoc
  <2>3. (rd * wd) * wc = rd * p
    BY MulAssoc, MulComm
  <2> QED
    BY <2>1, <2>2, <2>3
<1>4. wc * (wd + k) = p + k * wc /\ wc * (wd + k) \in Nat
  BY <1>1, MulAssoc, MulComm
<1>5. CASE rc <= rd /\ ed <= wd + k
  <2>1. rc * p <= rd * p
    BY <1>1, <1>5, MulMono
  <2>2. ed * wc <= wc * (wd + k)
    BY <1>1, <1>5, MulMono, MulComm
  <2>3. k * (sc * wd) \in Nat /\ k * (sd * wc) \in Nat
    BY <1>1, MulMono
  <2> HIDE DEF p
  <2> QED
    BY <1>1, <1>2, <1>3, <1>4, <2>1, <2>2, <2>3
<1>6. CASE rc <= rd + 1 /\ ed <= k
  <2>1. rc * p <= rd * p + p
    <3>1. rc * p <= (rd + 1) * p
      BY <1>1, <1>6, MulMono
    <3> QED
      BY <1>1, <3>1, MulSucc
  <2>2. ed * wc <= k * wc
    BY <1>6, MulMono
  <2>3. k * (sc * wd) \in Nat /\ k * (sd * wc) \in Nat
    BY <1>1, MulMono
  <2> HIDE DEF p
  <2> QED
    BY <1>1, <1>2, <1>3, <1>4, <2>1, <2>2, <2>3
<1> QED
  BY <1>5, <1>6

-----------------------------------------------------------------------------
(* The invariant.                                                          *)

\* Every grant is either spent on dispatches or still there.
Account ==
    \A c \in Clients : Cost * served[c] + deficit[c] = rounds[c] * weight[c]

\* Who could pay was served: only the client that has the turn has more.
Spent ==
    \A c \in Clients :
        \/ deficit[c] < Cost
        \/ c = current /\ deficit[c] < Cost + weight[c]

\* The round has come as far as the client that has the turn.
Reached(c) == current \in Clients /\ c <= current

\* The clients visited by the round that finds c.
Granted(c, d) ==
    \/ d <= c /\ (Reached(d) <=> Reached(c))
    \/ Reached(c) /\ ~ Reached(d)

Level ==
    \A c, d \in Clients :
        /\ (Reached(c) <=> Reached(d)) => rounds[c] = rounds[d]
        /\ Reached(c) /\ ~ Reached(d) => rounds[c] = rounds[d] + 1

Fair == Account /\ Spent /\ Level

LEMMA InitFair == Init => TypeOK /\ Fair
<1> SUFFICES ASSUME Init PROVE TypeOK /\ Fair
  OBVIOUS
<1>1. TypeOK
  BY DEF Init, SchedulerInit, TypeOK, SchedulerTypeOK
<1>2. Account
  <2> SUFFICES ASSUME NEW c \in Clients
               PROVE  Cost * served[c] + deficit[c] = rounds[c] * weight[c]
    BY DEF Account
  <2>1. served[c] = 0 /\ deficit[c] = 0 /\ rounds[c] = 0
    BY DEF Init, SchedulerInit
  <2>2. weight[c] \in Nat /\ Cost \in Nat
    BY CostAssumption, WeightsAssumption DEF Init, SchedulerInit
  <2>3. Cost * served[c] = 0 /\ rounds[c] * weight[c] = 0
    BY <2>1, <2>2
  <2> QED
    BY <2>1, <2>3
<1>3. Spent
  <2>1. \A c \in Clients : deficit[c] = 0
    BY DEF Init, SchedulerInit
  <2>2. 0 < Cost
    BY CostAssumption
  <2> QED
    BY <2>1, <2>2 DEF Spent
<1>4. Level
  BY ClientsAssumption DEF Init, SchedulerInit, Level, Reached
<1> QED
  BY <1>1, <1>2, <1>3, <1>4 DEF Fair

-----------------------------------------------------------------------------
(* A tick.                                                                 *)

LEMMA Types ==
    ASSUME TypeOK
    PROVE  /\ Cost \in Nat /\ Cost > 0
           /\ \A c \in Clients :
                /\ c \in Nat /\ c # NoClient
                /\ deficit[c] \in Nat /\ weight[c] \in Nat /\ weight[c] > 0
                /\ served[c] \in Nat /\ rounds[c] \in Nat
                /\ Credit(c) \in Nat
<1>1. Cost \in Nat /\ Cost > 0
  BY CostAssumption
<1>2. ASSUME NEW c \in Clients
      PROVE  /\ c \in Nat /\ c # NoClient
             /\ deficit[c] \in Nat /\ weight[c] \in Nat /\ weight[c] > 0
             /\ served[c] \in Nat /\ rounds[c] \in Nat
  <2>1. weight[c] \in Nat \ {0}
    BY WeightsAssumption DEF TypeOK, SchedulerTypeOK
  <2> QED
    BY <2>1, ClientsAssumption DEF TypeOK, SchedulerTypeOK
<1> QED
  BY <1>1, <1>2 DEF Credit

LEMMA TypeNext ==
    ASSUME TypeOK, NEW c \in Clients \cup {NoClient}, Tick(c)
    PROVE  TypeOK'
<1>1. weight' = weight /\ current' \in Clients \cup {NoClient}
  BY DEF Tick, NextClient, KeepTurn, TakeTurn, NoTurn, NoList, TypeOK,
         SchedulerTypeOK
<1>2. deficit' \in [Clients -> Nat]
  <2>1. CASE KeepTurn(Clients, c)
    <3>1. deficit[c] - Cost \in Nat
      BY <2>1, Types DEF KeepTurn, HoldsTurn
    <3> QED
      BY <2>1, <3>1 DEF KeepTurn, TypeOK, SchedulerTypeOK
  <2>2. CASE TakeTurn(Clients, c)
    <3>1. Credit(c) - Cost \in Nat /\ c \in Clients
      BY <2>2, Types DEF TakeTurn, Found
    <3> QED
      BY <2>2, <3>1, Types DEF TakeTurn, Grant
  <2>3. CASE c = NoClient /\ NoTurn(Clients)
    BY <2>3, Types DEF NoTurn, Grant
  <2>4. CASE NoList(Clients)
    BY <2>4 DEF NoList, TypeOK, SchedulerTypeOK
  <2> QED
    BY <2>1, <2>2, <2>3, <2>4 DEF Tick, NextClient
<1>3. served' \in [Clients -> Nat] /\ rounds' \in [Clients -> Nat]
  BY Types DEF Tick
<1> QED
  BY <1>1, <1>2, <1>3 DEF TypeOK, SchedulerTypeOK

LEMMA KeepFair ==
    ASSUME TypeOK, Fair, NEW c \in Clients \cup {NoClient}, Tick(c),
           KeepTurn(Clients, c)
    PROVE  Fair'
<1>1. c \in Clients /\ c = current /\ current' = current /\ weight' = weight
      /\ deficit[c] >= Cost /\ deficit'[c] = deficit[c] - Cost
      /\ \A d \in Clients \ {c} : deficit'[d] = deficit[d]
  BY DEF KeepTurn, HoldsTurn, TypeOK, SchedulerTypeOK
<1>2. /\ served'[c] = served[c] + 1
      /\ \A d \in Clients \ {c} : served'[d] = served[d]
      /\ \A d \in Clients : rounds'[d] = rounds[d]
  BY <1>1, Types DEF Tick, KeepTurn, TypeOK
<1>3. Account'
  <2>1. Cost * served'[c] = Cost * served[c] + Cost /\ Cost * served[c] \in Nat
    BY <1>1, <1>2, Types, MulSucc, MulMono
  <2>2. Cost * served'[c] + deficit'[c] = rounds'[c] * weight'[c]
    BY <1>1, <1>2, <2>1, Types DEF Fair, Account
  <2> QED
    BY <1>1, <1>2, <2>2 DEF Fair, Account
<1>4. Spent'
  BY <1>1, Types DEF Fair, Spent
<1>5. Level'
  BY <1>1, <1>2 DEF Fair, Level, Reached
<1> QED
  BY <1>3, <1>4, <1>5 DEF Fair

LEMMA NoTurnFair ==
    ASSUME TypeOK, Fair, Tick(NoClient), NoTurn(Clients)
    PROVE  Fair'
<1>1. current' = current /\ weight' = weight
  BY DEF NoTurn
<1>2. \A d \in Clients :
        /\ deficit'[d] = deficit[d] + weight[d] /\ deficit'[d] < Cost
        /\ served'[d] = served[d] /\ rounds'[d] = rounds[d] + 1
  BY Types DEF NoTurn, FoundNone, Grant, Visited, Credit, Tick, NextClient
<1>3. Account'
  <2> SUFFICES ASSUME NEW d \in Clients
               PROVE  Cost * served'[d] + deficit'[d] = rounds'[d] * weight'[d]
    BY DEF Account
  <2>0. (rounds[d] + 1) * weight[d] = rounds[d] * weight[d] + weight[d]
    <3>1. rounds[d] \in Int /\ weight[d] \in Int
      BY Types
    <3> QED
      BY <3>1, MulSucc
  <2>1. rounds'[d] * weight'[d] = rounds[d] * weight[d] + weight[d]
    BY <1>1, <1>2, <2>0
  <2>2. Cost * served[d] \in Nat /\ rounds[d] * weight[d] \in Nat
    BY Types, MulMono
  <2>3. Cost * served[d] + deficit[d] = rounds[d] * weight[d]
    BY DEF Fair, Account
  <2>4. served'[d] = served[d] /\ deficit'[d] = deficit[d] + weight[d]
    BY <1>2
  <2> QED
    BY <2>1, <2>2, <2>3, <2>4, Types
<1>4. Spent'
  BY <1>2 DEF Spent
<1>5. Level'
  BY <1>1, <1>2, Types DEF Fair, Level, Reached
<1> QED
  BY <1>3, <1>4, <1>5 DEF Fair

LEMMA TakeFair ==
    ASSUME TypeOK, Fair, NEW c \in Clients \cup {NoClient}, Tick(c),
           TakeTurn(Clients, c)
    PROVE  Fair'
<1> DEFINE V == Visited(Clients, c)
<1>1. /\ c \in Clients /\ c # NoClient /\ current' = c /\ weight' = weight
      /\ c \in V /\ Credit(c) >= Cost /\ ~ HoldsTurn(Clients)
      /\ \A d \in V \ {c} : Credit(d) < Cost
  BY Types DEF TakeTurn, Found, Visited
<1>0. V \subseteq Clients
  BY DEF Visited
<1>2. /\ \A d \in V \ {c} :
            /\ deficit'[d] = deficit[d] + weight[d]
            /\ served'[d] = served[d] /\ rounds'[d] = rounds[d] + 1
      /\ \A d \in Clients \ V :
            /\ deficit'[d] = deficit[d]
            /\ served'[d] = served[d] /\ rounds'[d] = rounds[d]
      /\ deficit'[c] = deficit[c] + weight[c] - Cost
      /\ served'[c] = served[c] + 1 /\ rounds'[c] = rounds[c] + 1
  <2>1. \A d \in Clients :
          deficit'[d] = IF d \notin V THEN deficit[d]
                        ELSE IF d = c THEN Credit(d) - Cost ELSE Credit(d)
    BY DEF TakeTurn, Grant
  <2>2. \A d \in Clients :
          /\ served'[d] = IF d = c THEN served[d] + 1 ELSE served[d]
          /\ rounds'[d] = IF d \in V THEN rounds[d] + 1 ELSE rounds[d]
    BY <1>1 DEF Tick
  <2> HIDE DEF V
  <2>3. \A d \in V \ {c} :
            /\ deficit'[d] = deficit[d] + weight[d]
            /\ served'[d] = served[d] /\ rounds'[d] = rounds[d] + 1
    BY <1>0, <2>1, <2>2 DEF Credit
  <2>4. \A d \in Clients \ V :
            /\ deficit'[d] = deficit[d]
            /\ served'[d] = served[d] /\ rounds'[d] = rounds[d]
    BY <1>1, <2>1, <2>2
  <2>5. /\ deficit'[c] = deficit[c] + weight[c] - Cost
        /\ served'[c] = served[c] + 1 /\ rounds'[c] = rounds[c] + 1
    <3>1. c \in Clients /\ c \in V
      BY <1>1
    <3>2. deficit'[c] = Credit(c) - Cost
      BY <2>1, <3>1
    <3>3. deficit'[c] = deficit[c] + weight[c] - Cost
      BY <3>1, <3>2, Types DEF Credit
    <3>4. served'[c] = served[c] + 1 /\ rounds'[c] = rounds[c] + 1
      BY <2>2, <3>1
    <3> QED
      BY <3>3, <3>4
  <2> QED
    BY <2>3, <2>4, <2>5
<1>3. ASSUME NEW d \in Clients
      PROVE  d \in V <=> Granted(c, d)
  <2>1. d \in V <=> d = c \/ Ahead(Clients, d, c)
    BY <1>1, <1>3 DEF Visited
  <2>2. Ahead(Clients, d, c) <=>
          IF Reached(d) <=> Reached(c) THEN d < c ELSE Reached(c)
    BY DEF Ahead, Reached
  <2>3. c \in Nat /\ d \in Nat
    BY <1>1, <1>3, Types
  <2> QED
    BY <2>1, <2>2, <2>3 DEF Granted
<1>4. ASSUME NEW d \in Clients
      PROVE  deficit[d] < Cost
  BY <1>1, Types DEF Fair, Spent, HoldsTurn
<1> HIDE DEF V
<1>5. Account'
  <2> SUFFICES ASSUME NEW d \in Clients
               PROVE  Cost * served'[d] + deficit'[d] = rounds'[d] * weight'[d]
    BY DEF Account
  <2>0. /\ Cost * served[d] \in Nat /\ rounds[d] * weight[d] \in Nat
        /\ Cost * served[d] + deficit[d] = rounds[d] * weight[d]
    BY Types, MulMono DEF Fair, Account
  <2>1. (rounds[d] + 1) * weight[d] = rounds[d] * weight[d] + weight[d]
    BY Types, MulSucc
  <2>2. Cost * (served[d] + 1) = Cost * served[d] + Cost
    BY Types, MulSucc
  <2>3. CASE d = c
    BY <1>1, <1>2, <2>0, <2>1, <2>2, <2>3, Types
  <2>4. CASE d \in V \ {c}
    <3>1. /\ deficit'[d] = deficit[d] + weight[d] /\ served'[d] = served[d]
          /\ rounds'[d] = rounds[d] + 1 /\ weight'[d] = weight[d]
      BY <1>1, <1>2, <2>4
    <3> QED
      BY <2>0, <2>1, <3>1, Types
  <2>5. CASE d \notin V
    BY <1>1, <1>2, <2>0, <2>5, Types
  <2> QED
    BY <2>3, <2>4, <2>5
<1>6. Spent'
  <2>1. deficit'[c] < Cost + weight[c]
    BY <1>1, <1>2, <1>4, Types
  <2>2. \A d \in V \ {c} : deficit'[d] < Cost
    BY <1>1, <1>2 DEF Credit
  <2> QED
    BY <1>1, <1>2, <1>4, <2>1, <2>2 DEF Spent
<1>7. Level'
  <2> SUFFICES ASSUME NEW d \in Clients, NEW e \in Clients
               PROVE  /\ (Reached(d)' <=> Reached(e)') =>
                             rounds'[d] = rounds'[e]
                      /\ Reached(d)' /\ ~ Reached(e)' =>
                             rounds'[d] = rounds'[e] + 1
    BY DEF Level, Reached
  <2>1. (Reached(d)' <=> d <= c) /\ (Reached(e)' <=> e <= c)
    BY <1>1 DEF Reached
  <2>2. /\ rounds'[d] = IF d \in V THEN rounds[d] + 1 ELSE rounds[d]
        /\ rounds'[e] = IF e \in V THEN rounds[e] + 1 ELSE rounds[e]
    BY <1>2
  <2>3. /\ (Reached(d) <=> Reached(e)) => rounds[d] = rounds[e]
        /\ Reached(d) /\ ~ Reached(e) => rounds[d] = rounds[e] + 1
        /\ Reached(e) /\ ~ Reached(d) => rounds[e] = rounds[d] + 1
    BY DEF Fair, Level
  <2>4. (d \in V <=> Granted(c, d)) /\ (e \in V <=> Granted(c, e))
    BY <1>3
  <2>5. /\ Reached(d) <=> current \in Clients /\ d <= current
        /\ Reached(e) <=> current \in Clients /\ e <= current
        /\ Reached(c) <=> current \in Clients /\ c <= current
    BY DEF Reached
  <2>6. /\ c \in Nat /\ d \in Nat /\ e \in Nat
        /\ current \in Clients => current \in Nat
        /\ rounds[d] \in Nat /\ rounds[e] \in Nat
    BY <1>1, Types
  <2> QED
    BY <2>1, <2>2, <2>3, <2>4, <2>5, <2>6 DEF Granted
<1> QED
  BY <1>5, <1>6, <1>7 DEF Fair

LEMMA FairNext == TypeOK /\ Fair /\ [Next]_vars => TypeOK' /\ Fair'
<1> SUFFICES ASSUME TypeOK, Fair, [Next]_vars PROVE TypeOK' /\ Fair'
  OBVIOUS
<1>1. CASE UNCHANGED vars
  BY <1>1 DEF vars, schedulerVars, TypeOK, SchedulerTypeOK, Fair, Account,
              Spent, Level, Reached
<1>2. ASSUME NEW c \in Clients \cup {NoClient}, Tick(c)
      PROVE  TypeOK' /\ Fair'
  <2>1. CASE KeepTurn(Clients, c)
    BY <1>2, <2>1, KeepFair, TypeNext
  <2>2. CASE TakeTurn(Clients, c)
    BY <1>2, <2>2, TakeFair, TypeNext
  <2>3. CASE c = NoClient /\ NoTurn(Clients)
    BY <1>2, <2>3, NoTurnFair, TypeNext
  <2>4. CASE NoList(Clients)
    BY <1>2, <2>4, TypeNext DEF NoList, Fair, Account, Spent, Level
  <2> QED
    BY <1>2, <2>1, <2>2, <2>3, <2>4 DEF Tick, NextClient
<1> QED
  BY <1>1, <1>2 DEF Next

(* However many clients compete and whatever their weights, none gets      *)
(* ahead of its share by more than one grant and one dispatch.             *)
THEOREM Proportional == Spec => []ProportionalShare
<1>1. TypeOK /\ Fair => ProportionalShare
  <2> SUFFICES ASSUME TypeOK, Fair, NEW c \in Clients, NEW d \in Clients
               PROVE  Cost * (served[c] * weight[d])
                        <= Cost * (served[d] * weight[c])
                             + weight[c] * (weight[d] + Cost)
    BY DEF ProportionalShare
  <2>1. /\ Cost * served[c] + deficit[c] = rounds[c] * weight[c]
        /\ Cost * served[d] + deficit[d] = rounds[d] * weight[d]
    BY DEF Fair, Account
  <2>2. \/ rounds[c] <= rounds[d] /\ deficit[d] <= weight[d] + Cost
        \/ rounds[c] <= rounds[d] + 1 /\ deficit[d] <= Cost
    <3>1. CASE d = current
      <4>1. Reached(d)
        BY <3>1, Types DEF Reached
      <4>2. rounds[c] <= rounds[d]
        BY <4>1, Types DEF Fair, Level
      <4> QED
        BY <4>2, Types DEF Fair, Spent
    <3>2. CASE d # current
      BY <3>2, Types DEF Fair, Spent, Level
    <3> QED
      BY <3>1, <3>2
  <2> QED
    BY <2>1, <2>2, Types, ShareArithmetic
<1> QED
  BY <1>1, InitFair, FairNext, PTL DEF Spec

=============================================================================

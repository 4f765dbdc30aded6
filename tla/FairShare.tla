------------------------------ MODULE FairShare ------------------------------
(***************************************************************************)
(* The share of each client while every client has work waiting and the    *)
(* weights stay as they are: the setting of fair-scheduler.test.ts.        *)
(***************************************************************************)
EXTENDS FairScheduler

CONSTANT MaxRounds     \* bound: no client is visited more often

ASSUME MaxRoundsAssumption == MaxRounds \in Nat

VARIABLES
    served,       \* served[c]: dispatches of c so far
    rounds        \* rounds[c]: grants of its weight to c so far

vars == <<schedulerVars, served, rounds>>

Init ==
    /\ SchedulerInit
    /\ served = [c \in Clients |-> 0]
    /\ rounds = [c \in Clients |-> 0]

Bounded == \A c \in Clients : rounds[c] < MaxRounds

Tick(c) ==
    /\ Bounded
    /\ NextClient(Clients, c)
    /\ served' = [d \in Clients |->
                    IF d = c THEN served[d] + 1 ELSE served[d]]
    /\ rounds' = [d \in Clients |->
                    IF ~ HoldsTurn(Clients) /\ d \in Visited(Clients, c)
                    THEN rounds[d] + 1 ELSE rounds[d]]

Next == \E c \in Clients \cup {NoClient} : Tick(c)

Spec == Init /\ [][Next]_vars

-----------------------------------------------------------------------------

TypeOK ==
    /\ SchedulerTypeOK
    /\ served \in [Clients -> Nat]
    /\ rounds \in [Clients -> Nat]

(* README, Fairness: dispatches follow the weights.  At no time is a       *)
(* client c ahead of its share against a client d by more than what one    *)
(* grant and one dispatch are worth, fractional weights and weights below  *)
(* the cost of a dispatch included:                                        *)
(*   served[c] / weight[c] - served[d] / weight[d] <= 1 / Cost + 1 / weight[d] *)
ProportionalShare ==
    \A c, d \in Clients :
        Cost * (served[c] * weight[d])
            <= Cost * (served[d] * weight[c]) + weight[c] * (weight[d] + Cost)

=============================================================================

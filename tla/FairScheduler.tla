---------------------------- MODULE FairScheduler ----------------------------
(***************************************************************************)
(* Deficit round robin over clients, server/src/engine/fair-scheduler.ts.  *)
(* Clients are numbers, ordered as the code sorts their ids.  Credits are  *)
(* counted in the hundredths of the weight column, so that a dispatch      *)
(* costs Cost of them; the code adds the same amounts as floating point    *)
(* numbers.  A client without an entry in the map has no credit.           *)
(***************************************************************************)
EXTENDS Naturals

CONSTANTS
    Clients,
    NoClient,     \* null
    Cost,         \* DISPATCH_COST
    Weights       \* values of clients.weight

ASSUME ClientsAssumption == Clients \subseteq Nat /\ NoClient \notin Clients
ASSUME CostAssumption == Cost \in Nat \ {0}
ASSUME WeightsAssumption == Weights \subseteq Nat \ {0}

VARIABLES
    deficit,      \* deficits
    weight,       \* weights
    current       \* the client holding the turn, or NoClient

schedulerVars == <<deficit, weight, current>>

SchedulerTypeOK ==
    /\ deficit \in [Clients -> Nat]
    /\ weight \in [Clients -> Weights]
    /\ current \in Clients \cup {NoClient}

SchedulerInit ==
    /\ deficit = [c \in Clients |-> 0]
    /\ weight \in [Clients -> Weights]
    /\ current = NoClient

\* Slip: the holder of the turn is not put behind the others.
AheadById(list, c, d) == c < d

(* The rotation starts behind the client that holds the turn and wraps     *)
(* round to it; when that client is not in the list, at the first client.  *)
Ahead(list, c, d) ==
    LET wrapped(x) == current \in list /\ x <= current
    IN  IF wrapped(c) <=> wrapped(d) THEN c < d ELSE wrapped(d)

Credit(c) == deficit[c] + weight[c]

\* Slip: the turn is kept without credit.
HoldsTurnUnpaid(list) == current \in list

HoldsTurn(list) == current \in list /\ deficit[current] >= Cost

\* The clients a round visits until it finds c; all of them if it finds none.
Visited(list, c) == {d \in list : d = c \/ c = NoClient \/ Ahead(list, d, c)}

\* The first client of the round that can pay is c.
Found(list, c) ==
    /\ c \in list /\ Credit(c) >= Cost
    /\ \A d \in Visited(list, c) \ {c} : Credit(d) < Cost

FoundNone(list) == \A d \in list : Credit(d) < Cost

\* Slip: a client that cannot pay loses what it was granted.
GrantNoCarry(list, c) ==
    deficit' = [d \in Clients |->
                  IF d \notin Visited(list, c) THEN deficit[d]
                  ELSE IF d = c THEN Credit(d) - Cost ELSE 0]

\* Each visited client is granted its weight, and c pays.
Grant(list, c) ==
    deficit' = [d \in Clients |->
                  IF d \notin Visited(list, c) THEN deficit[d]
                  ELSE IF d = c THEN Credit(d) - Cost ELSE Credit(d)]

KeepTurn(list, c) ==
    /\ HoldsTurn(list) /\ c = current
    /\ deficit' = [deficit EXCEPT ![c] = @ - Cost]
    /\ UNCHANGED <<weight, current>>

TakeTurn(list, c) ==
    /\ ~ HoldsTurn(list) /\ Found(list, c)
    /\ Grant(list, c)
    /\ current' = c
    /\ UNCHANGED weight

NoTurn(list) ==
    /\ list # {} /\ ~ HoldsTurn(list) /\ FoundNone(list)
    /\ Grant(list, NoClient)
    /\ UNCHANGED <<weight, current>>

NoList(list) ==
    /\ list = {}
    /\ current' = NoClient
    /\ UNCHANGED <<deficit, weight>>

\* A call of nextClient(list) that returns c.
NextClient(list, c) ==
    \/ KeepTurn(list, c)
    \/ TakeTurn(list, c)
    \/ c = NoClient /\ (NoTurn(list) \/ NoList(list))

Reset(c) ==
    /\ deficit' = [deficit EXCEPT ![c] = 0]
    /\ current' = IF current = c THEN NoClient ELSE current
    /\ UNCHANGED weight

SetWeights(f) == weight' = f /\ UNCHANGED <<deficit, current>>

=============================================================================

---------------------------- MODULE MCTaskEngine ----------------------------
(* Instances of TaskEngine for TLC: the constants its .cfg files take.     *)
EXTENDS TaskEngine, TLC

\* Every task belongs to the same client.
OneClient == [t \in Tasks |-> CHOOSE c \in Clients : TRUE]

Symmetric == Permutations(Workers) \cup Permutations(Slots)
                \cup Permutations(Requests)
=============================================================================

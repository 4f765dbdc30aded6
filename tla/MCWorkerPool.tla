---------------------------- MODULE MCWorkerPool ----------------------------
(* Instances of WorkerPool for TLC: the constants its .cfg files take.     *)
EXTENDS WorkerPool

\* The first task comes again after the second, or every run is of one task.
FirstAgain == [n \in Runs |-> IF n = 2 /\ Cardinality(Tasks) > 1
                              THEN CHOOSE t \in Tasks : t # CHOOSE u \in Tasks : TRUE
                              ELSE CHOOSE t \in Tasks : TRUE]
=============================================================================

--------------------------- MODULE MCDispatchLoop ---------------------------
(* DispatchLoop for TLC.  Tasks and clients are numbers. *)
EXTENDS DispatchLoop

\* Task 1 of client 1, task 2 of client 2, ...
OneEach == [t \in Tasks |-> t]

\* Tasks 1 and 2 of client 1, task 3 of client 2.
TwoOfTheFirst == [t \in Tasks |-> IF t = 3 THEN 2 ELSE 1]

=============================================================================

----------------------------- MODULE MCApiServer -----------------------------
(* Instances of ApiServer for TLC: the constants its .cfg files take.      *)
EXTENDS ApiServer

CONSTANTS c1, r1, r2, r3

Comment == [comment |-> TRUE, holds |-> <<"text">>]
CommentCut == [comment |-> TRUE, holds |-> <<"text", ";", "text">>]
Text == [comment |-> FALSE, holds |-> <<"text">>]
Last1 == [comment |-> FALSE, holds |-> <<"text", ";">>]

\* 001_init.sql and 002_seed_clients.sql: one comment holds a semicolon.
TwoFiles == <<
    <<Text, Last1, Text, Last1>>,
    <<Comment, CommentCut, Text, Last1>> >>

Good == [type |-> "data-import", priority |-> 3, durationMs |-> Absent,
         failureRate |-> 100, fits |-> TRUE]

\* One with work to do, one with a field and one with a priority out of range.
Submitters == (r1 :> c1) @@ (r2 :> c1) @@ (r3 :> c1)
Bodies == (r1 :> Good) @@ (r2 :> [Good EXCEPT !.durationMs = 99])
            @@ (r3 :> [Good EXCEPT !.priority = 6])
=============================================================================

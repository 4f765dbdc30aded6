------------------------------ MODULE PoolSlots ------------------------------
(***************************************************************************)
(* What the engine relies on of a pool of threads, as TaskEngine uses it:  *)
(* slots that take a task, may be asked to stop, and report one outcome.   *)
(* Nothing here knows of threads, messages, timers or replacements.        *)
(***************************************************************************)
EXTENDS Naturals

CONSTANTS Positions, Runs

VARIABLES
    given,      \* given[p]: the run in slot p, or 0
    asked,      \* asked[p]: it has been asked to stop
    outcome     \* outcome[n]: "new", "running", or how it ended

vars == <<given, asked, outcome>>

Outcomes == {"completed", "failed", "fatal", "cancelled", "crashed"}

Init ==
    /\ given = [p \in Positions |-> 0]
    /\ asked = [p \in Positions |-> FALSE]
    /\ outcome = [n \in Runs |-> "new"]

Run(p, n) ==
    /\ given[p] = 0 /\ outcome[n] = "new"
    /\ given' = [given EXCEPT ![p] = n]
    /\ outcome' = [outcome EXCEPT ![n] = "running"]
    /\ UNCHANGED asked

Ask(p) ==
    /\ given[p] # 0
    /\ asked' = [asked EXCEPT ![p] = TRUE]
    /\ UNCHANGED <<given, outcome>>

Settle(p, o) ==
    /\ given[p] # 0
    /\ o = "cancelled" => asked[p]
    /\ given' = [given EXCEPT ![p] = 0]
    /\ asked' = [asked EXCEPT ![p] = FALSE]
    /\ outcome' = [outcome EXCEPT ![given[p]] = o]

Next ==
    \E p \in Positions :
        \/ \E n \in Runs : Run(p, n)
        \/ Ask(p)
        \/ \E o \in Outcomes : Settle(p, o)

Spec == Init /\ [][Next]_vars

=============================================================================

---------------------------- MODULE TaskLifecycle ----------------------------
(***************************************************************************)
(* What the engine promises about one task: the status machine drawn in    *)
(* ARCHITECTURE.md section 3, with its attempt counter.  Nothing here says *)
(* who takes a step or where a task waits.  The machine is the one of the  *)
(* code: the drawing leaves out that a cancelling task may still complete, *)
(* fail or be requeued when its last attempt ends before the thread stops. *)
(***************************************************************************)
EXTENDS Naturals

CONSTANTS Tasks, MaxAttempts

VARIABLES status, attempts

vars == <<status, attempts>>

Init ==
    /\ status = [t \in Tasks |-> "absent"]
    /\ attempts = [t \in Tasks |-> 0]

Held == {"running", "cancelling"}

Move(t, from, to) ==
    /\ status[t] \in from
    /\ status' = [status EXCEPT ![t] = to]

Submit(t) == Move(t, {"absent"}, "queued") /\ UNCHANGED attempts

\* An attempt is spent when it starts.
Start(t) ==
    /\ attempts[t] < MaxAttempts
    /\ Move(t, {"queued"}, "running")
    /\ attempts' = [attempts EXCEPT ![t] = @ + 1]

Withdraw(t) == Move(t, {"queued"}, "cancelled") /\ UNCHANGED attempts

AskToStop(t) == Move(t, {"running"}, "cancelling") /\ UNCHANGED attempts

(* An attempt ends for good.  A running task may end cancelled: a request  *)
(* to stop one attempt can reach the thread during the next.               *)
End(t) ==
    /\ \E s \in {"completed", "failed", "cancelled"} : Move(t, Held, s)
    /\ UNCHANGED attempts

TryAgain(t) ==
    /\ attempts[t] < MaxAttempts
    /\ Move(t, Held, "queued")
    /\ UNCHANGED attempts

GiveUp(t) ==
    /\ attempts[t] = MaxAttempts
    /\ Move(t, Held, "dead_letter")
    /\ UNCHANGED attempts

\* Manual retry: the only way out of a terminal status.
Revive(t) ==
    /\ Move(t, {"dead_letter"}, "queued")
    /\ attempts' = [attempts EXCEPT ![t] = 0]

Next ==
    \E t \in Tasks :
        \/ Submit(t) \/ Start(t) \/ Withdraw(t) \/ AskToStop(t)
        \/ End(t) \/ TryAgain(t) \/ GiveUp(t) \/ Revive(t)

Spec == Init /\ [][Next]_vars

=============================================================================

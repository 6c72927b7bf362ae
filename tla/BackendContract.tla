-------------------------- MODULE BackendContract --------------------------
(***************************************************************************)
(* What the dispatcher relies on when it awaits submit() of a backend: the *)
(* call ends once, with the device's answer to the very request it was     *)
(* given or with an exception.  Calls may overlap and end in any order.    *)
(***************************************************************************)
EXTENDS Naturals

VARIABLES
    calls,      \* how many calls have been made; they are numbered from 1
    running,    \* the calls that have not ended
    answered,   \* the calls that returned the answer to their own request
    raised      \* the calls that raised

vars == <<calls, running, answered, raised>>

Init ==
    /\ calls = 0
    /\ running = {}
    /\ answered = {}
    /\ raised = {}

Submit ==
    /\ calls' = calls + 1
    /\ running' = running \cup {calls + 1}
    /\ UNCHANGED <<answered, raised>>

End(n) ==
    /\ n \in running
    /\ running' = running \ {n}
    /\ UNCHANGED calls

Return(n) ==
    /\ End(n)
    /\ answered' = answered \cup {n}
    /\ UNCHANGED raised

Raise(n) ==
    /\ End(n)
    /\ raised' = raised \cup {n}
    /\ UNCHANGED answered

Next == Submit \/ \E n \in running : Return(n) \/ Raise(n)

Spec == Init /\ [][Next]_vars

=============================================================================

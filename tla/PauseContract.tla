--------------------------- MODULE PauseContract ---------------------------
(***************************************************************************)
(* What the attempt limit promises, without documents, threads or retries: *)
(* an office's answer to a request may start a pause; while it lasts the   *)
(* request is closed; it ends only when its time has come.                 *)
(***************************************************************************)
EXTENDS Integers

CONSTANTS Request, Cooldown, MaxClock

VARIABLES
    clock,
    open,    \* open[r]: the request is waiting for the office or approved by it
    until    \* until[r]: end of the pause of r, 0 when there is none

vars == <<clock, open, until>>

Init ==
    /\ clock = 0
    /\ open \in [Request -> BOOLEAN]
    /\ until = [r \in Request |-> 0]

Pass ==
    /\ clock < MaxClock
    /\ clock' = clock + 1
    /\ UNCHANGED <<open, until>>

\* Without a pause a request is opened and closed freely.
Turn(r) ==
    /\ until[r] = 0
    /\ open' = [open EXCEPT ![r] = ~@]
    /\ UNCHANGED <<clock, until>>

\* The second rejection: closed for a day, less the life of the call.
Pause(r) ==
    /\ open[r] /\ until[r] = 0
    /\ open' = [open EXCEPT ![r] = FALSE]
    /\ \E u \in clock + Cooldown - 1 .. clock + Cooldown :
            until' = [until EXCEPT ![r] = u]
    /\ UNCHANGED clock

\* Pauses that are over end together.
End(S) ==
    /\ \A r \in S : until[r] # 0 /\ until[r] <= clock
    /\ until' = [r \in Request |-> IF r \in S THEN 0 ELSE until[r]]
    /\ UNCHANGED <<clock, open>>

Next ==
    \/ Pass
    \/ \E r \in Request : Turn(r) \/ Pause(r)
    \/ \E S \in SUBSET Request : End(S)

Spec == Init /\ [][Next]_vars
=============================================================================

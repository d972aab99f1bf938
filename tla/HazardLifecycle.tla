-------------------------- MODULE HazardLifecycle --------------------------
(***************************************************************************)
(* What a safety rule promises the safety engine, without saying how: one  *)
(* incident at a time, which opens, may become critical and closes; after  *)
(* a close nothing opens for a silence.  It is the contract the docstring  *)
(* of app/edge/safety/state_machine.py gives.                              *)
(***************************************************************************)
EXTENDS Integers

CONSTANT Silence   \* seconds between a close and the next open

VARIABLES
    now,       \* timestamp of the latest tick
    incident,  \* "none", or the severity of the open one
    closedAt   \* when the last incident closed, Never if none did

lvars == <<now, incident, closedAt>>

Never == -1

LInit == now = 0 /\ incident = "none" /\ closedAt = Never

Open(t) ==
    /\ incident = "none"
    /\ closedAt # Never => t >= closedAt + Silence
    /\ incident' \in {"warning", "critical"}
    /\ UNCHANGED closedAt

Escalate ==
    /\ incident = "warning"
    /\ incident' = "critical"
    /\ UNCHANGED closedAt

Close(t) ==
    /\ incident # "none"
    /\ incident' = "none"
    /\ closedAt' = t

Wait == UNCHANGED <<incident, closedAt>>

Tick ==
    /\ now' \in Nat /\ now' >= now
    /\ Open(now') \/ Escalate \/ Close(now') \/ Wait

\* The simulator is reset: nothing is remembered.
Forget == now' = now /\ incident' = "none" /\ closedAt' = Never

LNext == Tick \/ Forget

LSpec == LInit /\ [][LNext]_lvars

=============================================================================

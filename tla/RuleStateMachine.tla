-------------------------- MODULE RuleStateMachine --------------------------
(***************************************************************************)
(* One safety rule of one machine, fed a reading with every telemetry      *)
(* tick: app/edge/safety/state_machine.py, driven as the seven modules of  *)
(* app/edge/safety/rules drive it, with the repeat tracker of              *)
(* app/edge/safety/escalation.py.                                          *)
(*                                                                         *)
(* A reading is the hazard's level on the scale the rule's four thresholds *)
(* cut: below the warning clear value, at or past it, past the warning     *)
(* trigger, past the critical clear value, past the critical trigger.  The *)
(* seatbelt and seat rules read only the ends of it.                       *)
(***************************************************************************)
EXTENDS Integers, FiniteSets

CONSTANTS
    Kind,           \* "hysteresis", "seatbelt" or "seat"
    SensorFails,    \* TRUE: the proximity sensor, which may report a fault
    Debounce,       \* the constructor's parameters, in seconds
    GraceWarning,
    GraceCritical,
    ClearingHold,
    Cooldown,
    RepeatCount,    \* warnings in the window that make one critical, 0: not applied
    RepeatWindow,
    Steps,          \* seconds from one tick to the next
    Longest,        \* the longest of them
    MaxTime         \* bound: tick timestamps

ASSUME RuleAssumption ==
    /\ Kind \in {"hysteresis", "seatbelt", "seat"}
    /\ SensorFails \in BOOLEAN
    /\ Debounce \in Nat /\ GraceWarning \in Nat /\ GraceCritical \in Nat
    /\ ClearingHold \in Nat /\ Cooldown \in Nat
    /\ RepeatCount \in Nat /\ RepeatWindow \in Nat
    /\ Longest \in Nat /\ Steps \subseteq 1 .. Longest /\ MaxTime \in Nat
    /\ Kind = "hysteresis" => GraceWarning = 0 /\ GraceCritical = 0
    /\ Kind = "seatbelt" => GraceWarning > 0 /\ GraceCritical >= GraceWarning
    /\ Kind = "seat" => GraceWarning = 0

Null == -1       \* an unset timestamp
Unknown == -1    \* the reading of a faulty sensor

WarningClear == 1
WarningTrigger == 2
CriticalClear == 3
CriticalTrigger == 4
Present == 4     \* unbuckled, or the seat empty, on a machine that can move

Readings ==
    (IF Kind = "hysteresis" THEN 0 .. CriticalTrigger ELSE {0, Present})
        \cup (IF SensorFails THEN {Unknown} ELSE {})

VARIABLES
    ts,             \* the tick's timestamp
    state,          \* _state
    pendingSince,   \* _pending_since
    clearingSince,  \* _clearing_since
    closedSince,    \* _closed_since
    severity,       \* _current_severity
    window,         \* the tracker's timestamps for this rule
    event,          \* what the last EvaluationResult asked for
    \* History
    reading,        \* the last reading
    heldSince,      \* first of the readings past the warning trigger, faults ignored
    below,          \* first of the readings below each clear value, no fault among them
    lastClosed,     \* the last close
    opened          \* incidents opened so far: <<timestamp, severity>>

machine == <<state, pendingSince, clearingSince, closedSince, severity, window>>
vars == <<ts, machine, event, reading, heldSince, below, lastClosed, opened>>

InIncident == state \in {"active", "clearing"}

Init ==
    /\ ts = 0 /\ state = "idle"
    /\ pendingSince = Null /\ clearingSince = Null /\ closedSince = Null
    /\ severity = "warning" /\ window = {}
    /\ event = "none" /\ reading = 0
    /\ heldSince = Null
    /\ below = [v \in {WarningClear, CriticalClear} |-> Null]
    /\ lastClosed = Null /\ opened = {}

-----------------------------------------------------------------------------
\* What the rule modules make of a reading.

TriggerOnly == WarningTrigger   \* mutant
Limit ==
    IF ~InIncident THEN WarningTrigger
    ELSE IF severity = "critical" THEN CriticalClear ELSE WarningClear

Condition(r) == IF Kind = "hysteresis" THEN r >= Limit ELSE r = Present

Critical(r) ==
    \/ Kind = "hysteresis" /\ r >= CriticalTrigger
    \/ Kind = "seat" /\ r = Present

\* The grace or debounce time of a pending hazard is over.
AtOnce(t) == TRUE   \* mutant
Due(t) ==
    LET elapsed == t - pendingSince IN
    IF GraceWarning > 0
    THEN elapsed >= GraceWarning \/ (GraceCritical > 0 /\ elapsed >= GraceCritical)
    ELSE elapsed >= Debounce

NeverDue(t) == FALSE   \* mutant
CriticalDue(t) == GraceCritical > 0 /\ t - pendingSince >= GraceCritical

OpeningSeverity(r, t) ==
    IF IF GraceWarning > 0 THEN CriticalDue(t) ELSE Critical(r)
    THEN "critical" ELSE "warning"

-----------------------------------------------------------------------------
\* The repeat tracker, consulted when a WARNING opens.

Trimmed(t) == {w \in window : w >= t - RepeatWindow} \cup {t}

Repeats(t) == Cardinality(Trimmed(t)) >= RepeatCount

RecordAndCheck(t, opening) ==
    IF opening = "warning" /\ RepeatCount > 0
    THEN /\ window' = Trimmed(t)
         /\ severity' = IF Repeats(t) THEN "critical" ELSE "warning"
    ELSE severity' = opening /\ UNCHANGED window

-----------------------------------------------------------------------------
\* evaluate: one handler per state.

Quietly == event' = "none"

FromIdle(r, t) ==
    /\ state = "idle"
    /\ IF Condition(r) THEN state' = "pending" /\ pendingSince' = t
                       ELSE UNCHANGED <<state, pendingSince>>
    /\ Quietly
    /\ UNCHANGED <<clearingSince, closedSince, severity, window>>

FromPending(r, t) ==
    /\ state = "pending"
    /\ \/ /\ ~Condition(r)
          /\ state' = "idle" /\ pendingSince' = Null
          /\ Quietly
          /\ UNCHANGED <<severity, window>>
       \/ /\ Condition(r) /\ ~Due(t)
          /\ Quietly
          /\ UNCHANGED <<state, pendingSince, severity, window>>
       \/ /\ Condition(r) /\ Due(t)
          /\ state' = "active"
          /\ event' = "opened"
          /\ RecordAndCheck(t, OpeningSeverity(r, t))
          /\ UNCHANGED pendingSince
    /\ UNCHANGED <<clearingSince, closedSince>>

\* Severity is raised before the reading is looked at for a clear.
Raises(r, t) == severity = "warning" /\ (CriticalDue(t) \/ Critical(r))

FromActive(r, t) ==
    /\ state = "active"
    /\ IF Raises(r, t) THEN severity' = "critical" /\ event' = "escalated"
                       ELSE UNCHANGED severity /\ Quietly
    /\ IF Condition(r) THEN UNCHANGED <<state, clearingSince>>
                       ELSE state' = "clearing" /\ clearingSince' = t
    /\ UNCHANGED <<pendingSince, closedSince, window>>

Cleared(t) == t - clearingSince >= ClearingHold

FromClearing(r, t) ==
    /\ state = "clearing"
    /\ \/ /\ Condition(r)
          /\ state' = "active" /\ clearingSince' = Null
          /\ Quietly
          /\ UNCHANGED closedSince
       \/ /\ ~Condition(r) /\ ~Cleared(t)
          /\ Quietly
          /\ UNCHANGED <<state, clearingSince, closedSince>>
       \/ /\ ~Condition(r) /\ Cleared(t)
          /\ state' = "closed" /\ closedSince' = t
          /\ event' = "closed"
          /\ UNCHANGED clearingSince
    /\ UNCHANGED <<pendingSince, severity, window>>

NoCooldown(t) == TRUE                                         \* mutant
StaysClosed(t) == reading = 0 /\ t - closedSince >= Cooldown   \* mutant
Cooled(t) == t - closedSince >= Cooldown

FromClosed(r, t) ==
    /\ state = "closed"
    /\ IF Cooled(t)
       THEN /\ state' = "idle"
            /\ pendingSince' = Null /\ clearingSince' = Null /\ closedSince' = Null
       ELSE UNCHANGED <<state, pendingSince, clearingSince, closedSince>>
    /\ Quietly
    /\ UNCHANGED <<severity, window>>

\* A fault: nothing opens or closes, and a clear has to be confirmed anew.
KeepClearing == UNCHANGED <<state, clearingSince>>              \* mutant
BackToActive ==
    IF state = "clearing" THEN state' = "active" /\ clearingSince' = Null
                          ELSE UNCHANGED <<state, clearingSince>>

HoldUnknown ==
    /\ BackToActive
    /\ Quietly
    /\ UNCHANGED <<pendingSince, closedSince, severity, window>>

Evaluate(r, t) ==
    IF r = Unknown THEN HoldUnknown
    ELSE \/ FromIdle(r, t) \/ FromPending(r, t) \/ FromActive(r, t)
         \/ FromClearing(r, t) \/ FromClosed(r, t)

-----------------------------------------------------------------------------
\* History: what the readings have been, whatever the machine made of them.

Observe(r, t) ==
    /\ reading' = r
    /\ heldSince' = IF r = Unknown THEN heldSince
                    ELSE IF r < WarningTrigger THEN Null
                    ELSE IF heldSince = Null THEN t ELSE heldSince
    /\ below' = [v \in DOMAIN below |->
                    IF r = Unknown \/ r >= v THEN Null
                    ELSE IF below[v] = Null THEN t ELSE below[v]]
    /\ lastClosed' = IF event' = "closed" THEN t ELSE lastClosed
    /\ opened' = IF event' = "opened" /\ RepeatCount > 0
                 THEN opened \cup {<<t, severity'>>} ELSE opened

Tick(r, dt) ==
    /\ ts + dt <= MaxTime
    /\ ts' = ts + dt
    /\ Evaluate(r, ts')
    /\ Observe(r, ts')

Reset ==
    /\ state' = "idle"
    /\ pendingSince' = Null /\ clearingSince' = Null /\ closedSince' = Null
    /\ severity' = "warning" /\ window' = {}
    /\ event' = "none" /\ reading' = 0 /\ heldSince' = Null
    /\ below' = [v \in DOMAIN below |-> Null]
    /\ lastClosed' = Null /\ opened' = {}
    /\ UNCHANGED ts

Next == (\E r \in Readings, dt \in Steps : Tick(r, dt)) \/ Reset

Spec == Init /\ [][Next]_vars

-----------------------------------------------------------------------------
Hold == IF GraceWarning > 0 THEN GraceWarning ELSE Debounce

Times == Nat \cup {Null}

TypeOK ==
    /\ ts \in Nat
    /\ state \in {"idle", "pending", "active", "clearing", "closed"}
    /\ pendingSince \in Times /\ clearingSince \in Times /\ closedSince \in Times
    /\ severity \in {"warning", "critical"}
    /\ window \subseteq Nat
    /\ event \in {"none", "opened", "escalated", "closed"}
    /\ reading \in Readings \cup {0}
    /\ heldSince \in Times /\ lastClosed \in Times
    /\ below \in [{WarningClear, CriticalClear} -> Times]

\* An incident opens only on a hazard that has been read, at every tick that
\* could read it, for the debounce or grace time ("Debounce (2 s) applies to
\* all continuous signals before an incident opens").
OpensAfterHold ==
    [][event' = "opened" => heldSince' # Null /\ ts' - heldSince' >= Hold]_vars

\* An incident closes only after readings below its severity's clear value for
\* the clearing time, with no fault among them ("a missing reading cannot
\* confirm the hazard is gone").
ClearValue == IF severity = "critical" THEN CriticalClear ELSE WarningClear

ClosesAfterClear ==
    [][event' = "closed" =>
          below'[ClearValue] # Null /\ ts' - below'[ClearValue] >= ClearingHold]_vars

\* A hazard never goes unnoticed for long: with no incident open, it has been
\* there for no longer than the cooldown, its grace time and two ticks.
NoticedInTime ==
    ~InIncident /\ heldSince # Null /\ ~SensorFails =>
        ts - (IF lastClosed > heldSince THEN lastClosed ELSE heldSince)
            <= Cooldown + Hold + 2 * Longest

\* A belt that stays unbuckled has a critical incident after the cooldown that
\* may be running, the critical grace time and two ticks.
GraceEscalates ==
    Kind = "seatbelt" /\ heldSince # Null
            /\ ts - heldSince >= Cooldown + GraceCritical + 2 * Longest
        => InIncident /\ severity = "critical"

\* No three warnings open within the window ("the 3rd WARNING incident of the
\* same type within a rolling 30-minute window ... opens directly as
\* CRITICAL").
RepeatsEscalate ==
    \A o \in opened :
        Cardinality({p \in opened : /\ p[2] = "warning"
                                    /\ p[1] <= o[1] /\ p[1] >= o[1] - RepeatWindow})
            < RepeatCount

\* and no other warning is raised: below the count nothing escalates.
OnlyRepeatsRaised ==
    \A o \in opened : o[2] = "critical" =>
        Cardinality({p \in opened : p[1] <= o[1] /\ p[1] >= o[1] - RepeatWindow})
            >= RepeatCount

\* A belt or repeated warnings raise a severity, in time, and nothing else does.
SeverityExplained == GraceEscalates /\ RepeatsEscalate /\ OnlyRepeatsRaised

-----------------------------------------------------------------------------
\* The inductive invariant.  It ties what the machine remembers in each state
\* to what the readings have really been.

\* A hazard has been there since the later of its first reading and the close.
QuietSince == IF lastClosed > heldSince THEN lastClosed ELSE heldSince

PendingInv ==
    state = "pending" =>
        /\ pendingSince # Null /\ pendingSince <= ts
        /\ heldSince # Null /\ heldSince <= pendingSince
        /\ lastClosed # Null => pendingSince >= lastClosed + Cooldown
        /\ ~SensorFails => /\ ts = pendingSince \/ ts - pendingSince < Hold
                           /\ pendingSince - QuietSince <= Cooldown + 2 * Longest

ClearingInv ==
    state = "clearing" =>
        /\ clearingSince # Null /\ clearingSince <= ts
        /\ below[ClearValue] # Null /\ below[ClearValue] <= clearingSince

ClosedInv ==
    state = "closed" =>
        /\ closedSince # Null /\ closedSince = lastClosed
        /\ ~SensorFails => ts = closedSince \/ ts - closedSince < Cooldown

\* Only the tick that ends a cooldown leaves an idle machine on a hazard.
IdleInv ==
    state = "idle" =>
        /\ lastClosed # Null => ts >= lastClosed + Cooldown
        /\ ~SensorFails /\ heldSince # Null =>
                ts - QuietSince <= Cooldown + Longest

RuleInv ==
    /\ TypeOK
    /\ heldSince <= ts /\ lastClosed <= ts /\ \A v \in DOMAIN below : below[v] <= ts
    /\ PendingInv /\ ClearingInv /\ ClosedInv /\ IdleInv

-----------------------------------------------------------------------------
\* The state machine keeps the contract of HazardLifecycle.

Lifecycle == INSTANCE HazardLifecycle WITH
    Silence  <- Cooldown + Hold,
    now      <- ts,
    incident <- IF InIncident THEN severity ELSE "none",
    closedAt <- lastClosed

ImplementsLifecycle == Lifecycle!LSpec

=============================================================================

------------------------------- MODULE MCCabin -------------------------------
(***************************************************************************)
(* What the operator's console and the tables behind it rest on: seven     *)
(* components that share no variable.  A behavior is a behavior of one of  *)
(* them, the part: as none reads what another writes, letting them take    *)
(* turns would reach no state of any that it does not reach alone.         *)
(***************************************************************************)
EXTENDS EtaAggregates, EtaTask, SignIn, StatePush, ShiftRecords, IdleBaselines, BatchShift, TLC

CONSTANTS q1, q2, a1, a2

VARIABLE part

cabinVars == <<part, etaVars, taskVars, signVars, pushVars, recordVars, idleVars, batchVars>>

-----------------------------------------------------------------------------
\* Two shifts of one operator, who was promoted in between, and one of another;
\* the last task never reached its target.
FinishedTask(id, shift, operator, machine, skill, quantity, minutes, day, reached) ==
    [id |-> id, shift |-> shift, operator |-> operator, machine |-> machine, type |-> "exc",
     skill |-> skill, task |-> "dig", quantity |-> quantity, minutes |-> minutes,
     day |-> day, reached |-> reached]

FinishedTasks ==
    {FinishedTask(1, "s1", "o1", "x1", "expert", 2, 3, 0, TRUE),
     FinishedTask(2, "s1", "o1", "x1", "expert", 1, 1, 0, TRUE),
     FinishedTask(3, "s2", "o1", "x2", "beginner", 4, 5, 1, TRUE),
     FinishedTask(4, "s3", "o2", "x2", "beginner", 1, 7, 5, FALSE)}

ShiftSummary(shift, operator, machine, skill, idle, cycles, day) ==
    [shift |-> shift, operator |-> operator, machine |-> machine, type |-> "exc",
     skill |-> skill, idle |-> idle, cycles |-> cycles, day |-> day]

ShiftSummaries ==
    {ShiftSummary("s1", "o1", "x1", "expert", 1, 9, 0),
     ShiftSummary("s2", "o1", "x2", "expert", 2, 4, 1)}

UnitTimes == [forecast |-> 1, rain |-> 2]

\* Two shifts of one operator, with an hour between them.
PlannedShift(operator, start, end) == [operator |-> operator, start |-> start, end |-> end]

PlannedShifts == {PlannedShift("o1", 0, 1), PlannedShift("o1", 2, 3)}

\* A recommendation map, and the same after an edit.
FirstCatalog == [s \in Sources |-> IF s[2] = "tilt" THEN "slopes" ELSE "load-limits"]
EditedCatalog ==
    [s \in Sources |-> IF s[2] = "tilt" THEN NoModule
                       ELSE IF s[1] = "behavior" THEN "slopes" ELSE "load-limits"]
BothCatalogs == {FirstCatalog, EditedCatalog}

\* One operator with shifts enough for a baseline of his own, one without, and a
\* machine type with a single shift.
IdleShift(id, operator, type, ratio) ==
    [id |-> id, operator |-> operator, type |-> type, ratio |-> ratio]

IdleShifts ==
    {IdleShift(1, "o1", "exc", 10), IdleShift(2, "o1", "exc", 20), IdleShift(3, "o1", "exc", 60),
     IdleShift(4, "o2", "exc", 30), IdleShift(5, "o2", "exc", 32), IdleShift(6, "o2", "loader", 50)}

\* A shift with room for three of the four tasks drawn, without and with each kind of
\* injected window; the windows are as long against the detectors' limits as they
\* really are, and only the second task may meet a truck wait, in a shift with
\* a break.
DrawnTask(target, cubic, cycle) == [target |-> target, cubic |-> cubic, cycle |-> cycle]
DrawnTasks == <<DrawnTask(1, TRUE, 1), DrawnTask(1, FALSE, 2), DrawnTask(1, FALSE, 1),
                DrawnTask(2, TRUE, 1)>>
NoWait == [at |-> -1, for |-> 0]
TruckWait == [at |-> 1, for |-> 2]
TruckWaits == {NoWait, TruckWait}
ShiftBreaks == {[start |-> 3, end |-> 5]}

StartsOfKind ==
    [excessive_idling |-> <<{1}>>, high_idle_ratio |-> <<{0}, {3}, {4}>>,
     high_rpm_travel |-> <<{2}>>, repeated_overloading |-> <<{0}, {2}>>,
     repeated_seatbelt_violation |-> <<{1}, {5}>>]
TicksOfKind ==
    [excessive_idling |-> {5}, high_idle_ratio |-> {5}, high_rpm_travel |-> {3},
     repeated_overloading |-> {1}, repeated_seatbelt_violation |-> {1}]

QuietPlan == [tasks |-> PlannedTasks, windows |-> {}, breaks |-> {}, waits |-> <<NoWait, NoWait, NoWait>>]

-----------------------------------------------------------------------------
CabinInit ==
    /\ part \in {"aggregates", "task", "sign-in", "push", "records", "baselines", "batch"}
    /\ EtaInit /\ TaskInit /\ SignInInit /\ PushInit /\ RecordsInit /\ IdleInit
    /\ BatchInit
    /\ weather = "rain"   \* the shift that is revised
    /\ part # "records" => catalog = FirstCatalog
    /\ IF part = "batch" THEN plan.waits \in {<<NoWait, wait, NoWait>> : wait \in TruckWaits}
                              /\ (plan.breaks = {}) = (plan.waits[2] = NoWait)
                         ELSE plan = QuietPlan

CabinNext ==
    \/ /\ part = "aggregates" /\ EtaNext
       /\ UNCHANGED <<part, taskVars, signVars, pushVars, recordVars, idleVars, batchVars>>
    \/ /\ part = "task" /\ TaskNext
       /\ UNCHANGED <<part, etaVars, signVars, pushVars, recordVars, idleVars, batchVars>>
    \/ /\ part = "sign-in" /\ SignInNext
       /\ UNCHANGED <<part, etaVars, taskVars, pushVars, recordVars, idleVars, batchVars>>
    \/ /\ part = "push" /\ PushNext
       /\ UNCHANGED <<part, etaVars, taskVars, signVars, recordVars, idleVars, batchVars>>
    \/ /\ part = "records" /\ RecordsNext
       /\ UNCHANGED <<part, etaVars, taskVars, signVars, pushVars, idleVars, batchVars>>
    \/ /\ part = "baselines" /\ IdleNext
       /\ UNCHANGED <<part, etaVars, taskVars, signVars, pushVars, recordVars, batchVars>>
    \/ /\ part = "batch" /\ BatchNext
       /\ UNCHANGED <<part, etaVars, taskVars, signVars, pushVars, recordVars, idleVars>>

CabinSpec == CabinInit /\ [][CabinNext]_cabinVars

\* The operator's two requests are alike, and the two admins.
CabinSymmetry == Permutations({q1, q2}) \cup Permutations({a1, a2})

=============================================================================

------------------------------ MODULE BatchShift ------------------------------
(***************************************************************************)
(* One shift of the generated history: its tasks are worked tick by tick,  *)
(* an injected window overrides what the machine does, and the finished    *)
(* shift becomes task actuals, a summary, task statuses and behavior       *)
(* events.  Translated from simulator/batch/ (telemetry.py, summaries.py,  *)
(* shifts.py, anomalies.py, edge_replay.py, generate.py), the detectors it *)
(* replays and the scoring of evaluation/detection_report.py; the summary  *)
(* the edge builds of a live shift is app/edge/shift_summary.py.           *)
(*                                                                         *)
(* A tick is the unit of time.  Quantities moved are in thirds of the unit *)
(* to which an actual is rounded.  Random draws are choices; a window of   *)
(* the seatbelt and overload kinds is modelled by what it does to the      *)
(* phases, its incidents by RuleStateMachine.                              *)
(***************************************************************************)
EXTENDS Integers, Sequences, FiniteSets, FiniteSetsExt, Functions

CONSTANTS
    Drawn,          \* tasks drawn for the shift: [target, cubic, cycle]
    NominalTicks,   \* a load by the planner's rule of thumb
    BufferTicks,    \* eta_buffer_minutes
    Waits,          \* truck waits a task may have: [at, for]
    Breaks,         \* breaks a shift may have: [start, end]
    WindowStarts,   \* of each kind, where its windows may start, one set per window
    WindowTicks,    \* of each kind, how long they may be
    LegitTicks,     \* half of a legit wait
    ShiftTicks,     \* scheduled_end - scheduled_start
    OvertimeTicks,  \* _MAX_OVERTIME_SECONDS
    TaskGaps,       \* _GAP_SECONDS_RANGE
    IdleTicks,      \* excessive_idling_seconds
    TravelTicks,    \* high_rpm_travel_sustained_seconds
    MaxIdleRun      \* bound: idle moments in a row that the rolls of a task give

ASSUME BatchAssumption ==
    /\ {NominalTicks, BufferTicks, ShiftTicks, OvertimeTicks, LegitTicks, IdleTicks, TravelTicks,
         MaxIdleRun} \subseteq Nat
    /\ TaskGaps \subseteq Nat \ {0}
    /\ Drawn \in Seq([target : Nat \ {0}, cubic : BOOLEAN, cycle : Nat])
    /\ Waits \subseteq [at : Nat \cup {-1}, for : Nat]
    /\ \A k \in DOMAIN WindowStarts : WindowTicks[k] \subseteq Nat

VARIABLES
    plan,         \* what is drawn before the first tick: [tasks, windows, breaks, waits]
    runs,         \* _TaskRun of each task
    runIdx,       \* the task at work, or the next one
    gapLeft,
    cycleCounter,
    ticks,        \* the ticks generated so far
    filed         \* what the shift's transaction has written: nothing, or its rows

batchVars == <<plan, runs, runIdx, gapLeft, cycleCounter, ticks, filed>>

NoRun == 0
NoAnomaly == "none"

Now == Len(ticks)
Covers(w, t) == w.start <= t /\ t < w.end
RoundedTo3(thirds) == (thirds + 1) \div 3

-----------------------------------------------------------------------------
\* The planner lays the drawn tasks back to back by its rule of thumb, and leaves off
\* where the shift is full.
EstimateDuration(task) == task.target * NominalTicks + BufferTicks
PlannedStart(i) == SumFunctionOnSet([j \in DOMAIN Drawn |-> EstimateDuration(Drawn[j])], 1 .. i - 1)
PlannedTasks ==
    SubSeq(Drawn, 1, Cardinality({i \in DOMAIN Drawn : PlannedStart(i) < ShiftTicks}))

\* The windows of one kind: as many as it has, each drawn on its own.
BuildWindows(kind) ==
    {{[kind |-> kind, start |-> start[i], end |-> start[i] + length[i]] : i \in DOMAIN start} :
        start \in {f \in [DOMAIN WindowStarts[kind] -> 0 .. ShiftTicks] :
                      \A i \in DOMAIN f : f[i] \in WindowStarts[kind][i]},
        length \in [DOMAIN WindowStarts[kind] -> WindowTicks[kind]]}

LegitWait ==
    {[kind |-> "legit_wait", start |-> ShiftTicks \div 2 - LegitTicks,
      end |-> ShiftTicks \div 2 + LegitTicks]}

\* A shift of two tasks or more may be chosen for one kind of anomaly, and one that was
\* not for a legit wait.
Injections(tasks) ==
    {{}} \union
    IF Len(tasks) < 2 THEN {}
    ELSE {LegitWait} \union UNION {BuildWindows(kind) : kind \in DOMAIN WindowStarts}

NewRun(wait) ==
    [elapsed |-> 0, blockedAt |-> wait.at, blockedFor |-> wait.for, blockedLeft |-> 0,
     progress |-> 0]

BatchInit ==
    /\ plan \in [tasks : {PlannedTasks}, windows : Injections(PlannedTasks),
                 breaks : {{}} \union {{w} : w \in Breaks},
                 waits : [DOMAIN PlannedTasks -> Waits]]
    /\ runs = [i \in DOMAIN plan.tasks |-> NewRun(plan.waits[i])]
    /\ runIdx = 1 /\ gapLeft = 0 /\ cycleCounter = 0
    /\ ticks = <<>> /\ filed = {}

AllDone == runIdx > Len(plan.tasks)
AtWork == ~AllDone /\ gapLeft = 0
RunDone(run, i) == run.progress >= 3 * plan.tasks[i].target

FinishingInOvertime ==
    /\ Now < ShiftTicks + OvertimeTicks
    /\ AtWork
    /\ runs[runIdx].elapsed > 0 /\ ~RunDone(runs[runIdx], runIdx)

Generating == filed = {} /\ (Now < ShiftTicks \/ FinishingInOvertime)

\* The windows of a shift are of one kind.
AnomalyAt(t) ==
    LET active == {w \in plan.windows : Covers(w, t)}
    IN  IF active = {} THEN NoAnomaly ELSE (CHOOSE w \in active : TRUE).kind
ActiveAnomaly == AnomalyAt(Now)

\* The planned truck wait begins when the task has run long enough.
UpdateBlocked(run) ==
    IF run.blockedLeft > 0 THEN [run EXCEPT !.blockedLeft = @ - 1]
    ELSE IF run.blockedAt >= 0 /\ run.elapsed >= run.blockedAt
         THEN [run EXCEPT !.blockedLeft = run.blockedFor, !.blockedAt = -1]
         ELSE run

IdleKinds == {"excessive_idling", "high_idle_ratio"}
TravelKinds == {"high_rpm_travel", "repeated_seatbelt_violation"}

\* A tick on which the task at work rolled idle.
IdleRoll(k) ==
    ticks[k].task # NoRun /\ ticks[k].phase = "idle" /\ AnomalyAt(k - 1) \notin IdleKinds

\* The roll of a task at work, whatever the tick before it was.
Rolled ==
    {"working", "travelling"} \union
    (IF Now >= MaxIdleRun /\ \A k \in Now - MaxIdleRun + 1 .. Now : IdleRoll(k)
     THEN {} ELSE {"idle"})

\* The phases a tick may have: an injected window first, then the gap, the wait and
\* the break, then the roll.
Phases(blockedLeft, anomaly) ==
    IF anomaly \in IdleKinds THEN {"idle"}
    ELSE IF anomaly = "repeated_overloading" THEN {"working"}
    ELSE IF anomaly \in TravelKinds THEN {"travelling"}
    ELSE IF ~AtWork THEN {IF AllDone THEN "engine_off" ELSE "idle"}
    ELSE IF anomaly = "legit_wait" \/ blockedLeft > 0 THEN {"blocked"}
    ELSE IF \E w \in plan.breaks : Covers(w, Now) THEN {"paused"}
    ELSE Rolled

\* Half litres an hour.
FuelRate(phase) ==
    CASE phase = "working" -> 24 [] phase = "travelling" -> 16
      [] phase \in {"idle", "blocked"} -> 7 [] OTHER -> 0

CycleQuantity(i, anomaly) ==
    IF ~plan.tasks[i].cubic THEN {3}
    ELSE IF anomaly = "repeated_overloading" THEN {4} ELSE {2, 3}

\* The raw tick, with the phase the generator keeps beside it.
RawTick(task, phase, anomaly, moved) ==
    [task |-> task, phase |-> phase,
     running |-> phase \notin {"engine_off", "paused"},
     hydraulic |-> phase = "working",
     moving |-> phase = "travelling",
     highRpm |-> phase = "travelling" /\ anomaly = "high_rpm_travel",
     fuel |-> FuelRate(phase) + (IF ticks = <<>> THEN 0 ELSE ticks[Now].fuel),
     moved |-> moved]

\* A run after a tick at work.
Worked(run, moved) == [run EXCEPT !.progress = @ + moved, !.elapsed = @ + 1]

TaskTick ==
    /\ Generating /\ AtWork
    /\ LET run == UpdateBlocked(runs[runIdx])
           anomaly == ActiveAnomaly
       IN \E phase \in Phases(run.blockedLeft, anomaly) :
          LET digs == phase = "working"
              full == digs /\ cycleCounter + 1 >= plan.tasks[runIdx].cycle
          IN \E moved \in (IF full THEN CycleQuantity(runIdx, anomaly) ELSE {0}) :
             LET after == Worked(run, moved)
                 done == RunDone(after, runIdx)
             IN /\ ticks' = Append(ticks, RawTick(runIdx, phase, anomaly, moved))
                /\ runs' = [runs EXCEPT ![runIdx] = after]
                /\ runIdx' = IF done THEN runIdx + 1 ELSE runIdx
                /\ gapLeft' \in (IF done THEN TaskGaps ELSE {0})
                /\ cycleCounter' = IF done \/ full THEN 0
                                   ELSE IF digs THEN cycleCounter + 1 ELSE cycleCounter
    /\ UNCHANGED <<plan, filed>>

BetweenTick ==
    /\ Generating /\ ~AtWork
    /\ LET anomaly == ActiveAnomaly
       IN \E phase \in Phases(0, anomaly) :
              ticks' = Append(ticks, RawTick(NoRun, phase, anomaly, 0))
    /\ gapLeft' = IF gapLeft > 0 THEN gapLeft - 1 ELSE 0
    /\ UNCHANGED <<plan, runs, runIdx, cycleCounter, filed>>

-----------------------------------------------------------------------------
\* derive_actuals: the actuals of a task from the phases of its ticks.
TicksFor(i) == {k \in DOMAIN ticks : ticks[k].task = i}
InPhase(K, names) == Cardinality({k \in K : ticks[k].phase \in names})
Moved == [k \in DOMAIN ticks |-> ticks[k].moved]

Actual(i) ==
    LET K == TicksFor(i) IN
    IF K = {} THEN [started |-> FALSE, start |-> 0, end |-> 0, paused |-> 0, blocked |-> 0,
                    completed |-> 0]
    ELSE [started |-> TRUE, start |-> Min(K) - 1, end |-> Max(K),
          paused |-> InPhase(K, {"paused"}), blocked |-> InPhase(K, {"blocked"}),
          completed |-> RoundedTo3(SumFunctionOnSet(Moved, K))]

\* derive_actuals: the shift's summary from the phases.
BatchSummary ==
    [engine |-> Cardinality({k \in DOMAIN ticks : ticks[k].running}),
     idle |-> InPhase(DOMAIN ticks, {"idle", "blocked"}),
     cycles |-> Cardinality({k \in DOMAIN ticks : ticks[k].moved > 0}),
     fuel |-> ticks[Now].fuel]

\* What the edge builds from the stored ticks, which hold no phase.
EdgeSummary ==
    [engine |-> Cardinality({k \in DOMAIN ticks : ticks[k].running}),
     idle |-> Cardinality({k \in DOMAIN ticks :
                  ticks[k].running /\ ~ticks[k].hydraulic /\ ~ticks[k].moving}),
     cycles |-> Cardinality({k \in DOMAIN ticks : ticks[k].moved > 0}),
     fuel |-> ticks[Now].fuel - ticks[1].fuel]

HistoryStatus(i, actual) ==
    IF ~actual.started THEN "cancelled"
    ELSE IF actual.completed >= plan.tasks[i].target THEN "done" ELSE "paused"

\* The status the edge's task store would have held.
ReplayStatus(k) ==
    IF ticks[k].task = NoRun THEN "none"
    ELSE IF ticks[k].phase \in {"blocked", "paused"} THEN ticks[k].phase
    ELSE "in_progress"

\* Mutant: a truck wait counts as idling.
IsIdlingInWait(k) == ticks[k].running /\ ~ticks[k].hydraulic /\ ~ticks[k].moving

IsIdling(k) ==
    /\ ticks[k].running /\ ~ticks[k].hydraulic /\ ~ticks[k].moving
    /\ ReplayStatus(k) # "blocked"

IsHighRpmTravel(k) == ticks[k].highRpm /\ ticks[k].moving

\* A detector flags a span once, on the tick where it reaches the limit.
FlaggedSpans(kind, holds, limit) ==
    {[kind |-> kind, start |-> k - 1, end |-> k - 1 + limit] :
        k \in {s \in DOMAIN ticks :
                 /\ s + limit <= Now
                 /\ s = 1 \/ ~holds[s - 1]
                 /\ \A j \in s .. s + limit : holds[j]}}

ReplayEvents ==
    FlaggedSpans("excessive_idling", [k \in DOMAIN ticks |-> IsIdling(k)], IdleTicks)
    \union FlaggedSpans("high_rpm_travel", [k \in DOMAIN ticks |-> IsHighRpmTravel(k)], TravelTicks)

\* The shift's transaction: actuals and statuses, summary, events.
FileShift ==
    /\ filed = {} /\ ~Generating
    /\ LET actuals == [i \in DOMAIN plan.tasks |-> Actual(i)]
       IN filed' = {[actuals |-> actuals,
                     status |-> [i \in DOMAIN plan.tasks |-> HistoryStatus(i, actuals[i])],
                     summary |-> BatchSummary, events |-> ReplayEvents]}
    /\ UNCHANGED <<plan, runs, runIdx, gapLeft, cycleCounter, ticks>>

BatchNext == TaskTick \/ BetweenTick \/ FileShift
BatchSpec == BatchInit /\ [][BatchNext]_batchVars

-----------------------------------------------------------------------------
\* evaluate, of one shift and the two kinds whose detectors read ticks.
ReplayedKinds == {"excessive_idling", "high_rpm_travel"}
Explains(kind) == IF kind = "high_idle_ratio" THEN {"excessive_idling"} ELSE {}
Overlaps(a, b) == a.start < b.end /\ b.start < a.end
Injected == {w \in plan.windows : w.kind # "legit_wait"}
Missed(events) ==
    {w.kind : w \in Injected} \intersect
        {kind \in ReplayedKinds : \A w \in Injected, e \in events :
            ~(w.kind = kind /\ e.kind = kind /\ Overlaps(w, e))}
FalsePositives(events) ==
    {e \in events : \A w \in Injected :
        ~(Overlaps(w, e) /\ (e.kind = w.kind \/ e.kind \in Explains(w.kind)))}

\* Every injected window of excessive idling or of travel at high speed is flagged, and
\* nothing is that no window explains: neither a truck wait, nor a break, nor a gap
\* between tasks together with the idle moments that the next task begins with.
FlaggedAsInjected ==
    \A f \in filed : Missed(f.events) = {} /\ FalsePositives(f.events) = {}

\* The summary made from the generator's phases is the one the edge would make from
\* the ticks it stores, which do not tell them; the edge's fuel leaves out the first
\* tick's.
SummaryAsOnEdge ==
    \A f \in filed : [f.summary EXCEPT !.fuel = @ - ticks[1].fuel] = EdgeSummary

\* The minutes a task is trained on are its ticks that were neither break nor wait,
\* whatever window cut through it, and it met its whole wait unless a window hid some
\* of it or the shift ended first.
WorkedMinutes(a) == a.end - a.start - a.paused - a.blocked

ActualsExact ==
    \A f \in filed, i \in DOMAIN plan.tasks :
        LET a == f.actuals[i] IN
        /\ WorkedMinutes(a) = Cardinality({k \in TicksFor(i) :
               ticks[k].phase \in {"working", "travelling", "idle"}})
        /\ plan.windows = {} => a.blocked <= plan.waits[i].for
        /\ plan.windows = {} /\ plan.waits[i].at >= 0 /\ runs[i].elapsed > 0
           /\ runs[i].blockedAt = -1 /\ runs[i].blockedLeft = 0
           => a.blocked = plan.waits[i].for

\* A shift finishes its tasks in order and leaves at most the last one begun short, and
\* that one only because the overtime ran out.
StatusesInOrder ==
    \A f \in filed, i \in DOMAIN plan.tasks :
        /\ f.status[i] # "cancelled" => \A j \in 1 .. i - 1 : RunDone(runs[j], j)
        /\ f.status[i] = "paused" => Now = ShiftTicks + OvertimeTicks
        /\ f.status[i] = "done" => f.actuals[i].end <= ShiftTicks + OvertimeTicks
        /\ RunDone(runs[i], i) => f.status[i] = "done"

HistorySound ==
    FlaggedAsInjected /\ SummaryAsOnEdge /\ ActualsExact /\ StatusesInOrder

=============================================================================

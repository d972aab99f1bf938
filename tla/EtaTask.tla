------------------------------ MODULE EtaTask ------------------------------
(***************************************************************************)
(* Working a shift's tasks on the edge: the operator starts, holds and     *)
(* completes them, the live stream turns the time a task is in progress    *)
(* into load cycles, and every tick that completes a cycle counts it and   *)
(* may revise the task's ETA.  Translated from app/edge/tasks/service.py,  *)
(* app/edge/eta/revision.py, the task's part of EdgePipeline.process, the  *)
(* work cycle of simulator/live/stream.py and the assignment estimate of   *)
(* app/cloud/eta/service.py.                                               *)
(*                                                                         *)
(* Requests and ticks are transactions: each works on the copy of the row  *)
(* it read and writes the columns it changed, as the ORM does.  Time is in *)
(* whole minutes, and a tick may set the clock back (see LiveClock).       *)
(***************************************************************************)
EXTENDS Integers, FiniteSets

CONSTANTS
    Tasks,           \* the tasks of the shift
    Requests,        \* requests of the operator that may be open at once
    Weather,         \* observed by the shift: the forecast, or another one
    Target,          \* target_quantity of each task
    UnitMinutes,     \* minutes per unit the model expects, by weather
    RateLimit,       \* revision_rate_limit_seconds
    PaceAfter,       \* revision_completion_threshold_pct
    Deviation,       \* revision_pace_deviation_pct
    CycleSteps,      \* cycle_seconds of the work model
    RepositionEvery, \* _REPOSITION_EVERY_CYCLES
    RepositionSteps, \* _REPOSITION_SECONDS
    MaxBack,         \* bound: how far a tick sets the clock back
    MaxActions,      \* bound: requests on a task
    MaxCycles,       \* bound: load cycles of a task
    MaxMinute        \* bound: the clock

ASSUME EtaTaskAssumption ==
    /\ Target \in Nat \ {0}
    /\ {"forecast"} \subseteq Weather
    /\ UnitMinutes \in [Weather -> Nat \ {0}]
    /\ {CycleSteps, RepositionEvery, RepositionSteps} \subseteq Nat \ {0}
    /\ {RateLimit, PaceAfter, Deviation, MaxBack, MaxActions, MaxCycles, MaxMinute} \subseteq Nat

NoTime == -1
NoTask == "no task"

VARIABLES
    minute,     \* sim_now()
    weather,    \* shift.weather_actual or the forecast
    row,        \* edge.task of each task
    stream,     \* LiveStream._cycle
    tick,       \* the tick between the stream and its commit
    request,    \* each open request
    \* History
    worked,     \* minutes of each task's closed periods of work
    since,      \* start of its open period of work
    clipped,    \* minutes of hold a clock set back has hidden
    raced,      \* tasks on which two requests have overlapped
    pressed,    \* status the last committed request gave each task
    counted,    \* loads that committed ticks have counted
    actions     \* requests begun on each task

taskVars == <<minute, weather, row, stream, tick, request, worked, since, clipped,
              raced, pressed, counted, actions>>
periods == <<worked, since, clipped, raced, pressed>>

Closed == [open |-> FALSE]
NotBelow(low, x) == IF x < low THEN low ELSE x

-----------------------------------------------------------------------------
\* Estimates.

\* predict: the model's minutes for a quantity.
Predict(quantity, w) == NotBelow(1, quantity * UnitMinutes[w])

\* apply_assignment_estimate: written once.
Raw == Predict(Target, "forecast")

\* elapsed_working_minutes
Elapsed(r, now) ==
    IF r.start = NoTime THEN 0 ELSE NotBelow(0, now - r.start - r.paused - r.blocked)

WeatherUsed(r) == IF r.revised # NoTime THEN weather ELSE "forecast"
Estimate(r) == IF r.revised # NoTime THEN r.revised ELSE Raw

Distance(x, y) == IF x > y THEN x - y ELSE y - x

OffPace(r, elapsed) ==
    /\ 100 * r.quantity >= PaceAfter * Target
    /\ 100 * Distance(r.quantity * Estimate(r), elapsed * Target) > Deviation * elapsed * Target

\* revision_trigger
MayRevise(r, now) ==
    /\ r.status = "in_progress"
    /\ r.quantity < Target /\ Elapsed(r, now) > 0
    /\ r.revisedAt # NoTime => now - r.revisedAt >= RateLimit

Trigger(r, now) ==
    IF ~MayRevise(r, now) THEN "none"
    ELSE IF weather # WeatherUsed(r) THEN "weather"
    ELSE IF OffPace(r, Elapsed(r, now)) THEN "pace" ELSE "none"

\* revise_if_triggered: elapsed, and the model for what remains.
Revised(r, now) ==
    LET trigger == Trigger(r, now)
    IN  IF trigger = "none" THEN r
        ELSE [r EXCEPT !.revised = Elapsed(r, now) + Predict(Target - r.quantity, weather),
                       !.revisedAt = now, !.reason = trigger]

-----------------------------------------------------------------------------
NewRow == [status |-> "assigned", start |-> NoTime, end |-> NoTime, hold |-> NoTime,
           paused |-> 0, blocked |-> 0, quantity |-> 0, revised |-> NoTime,
           revisedAt |-> NoTime, reason |-> "none"]

NewCycle(t) == [task |-> t, elapsed |-> 0, completed |-> 0, travel |-> 0]

TaskInit ==
    /\ minute = 0
    /\ weather \in Weather
    /\ row = [t \in Tasks |-> NewRow]
    /\ stream = NewCycle(NoTask)
    /\ tick = Closed
    /\ request = [q \in Requests |-> Closed]
    /\ worked = [t \in Tasks |-> 0] /\ since = [t \in Tasks |-> NoTime]
    /\ clipped = [t \in Tasks |-> 0]
    /\ raced = {} /\ actions = [t \in Tasks |-> 0]
    /\ pressed = [t \in Tasks |-> "assigned"] /\ counted = [t \in Tasks |-> 0]

\* The transaction's flush: the columns it changed, over what the row has become.
WholeRow(r, old, new) == new   \* mutant
Merge(r, old, new) == [f \in DOMAIN r |-> IF new[f] # old[f] THEN new[f] ELSE r[f]]

Flush(t, old, new) == row' = [row EXCEPT ![t] = Merge(@, old, new)]

-----------------------------------------------------------------------------
\* The operator's requests (apply_action).

MayAct(action, status) ==   \* _ALLOWED of _action_to_status
    \/ action \in {"start", "resume", "unblock"} /\ status \in {"assigned", "paused", "blocked"}
    \/ action \in {"pause", "block", "complete"} /\ status = "in_progress"

\* mutant
HeldFromStart(r, now) == IF r.start = NoTime THEN 0 ELSE NotBelow(0, now - r.start)
\* _held_minutes; a start pressed on a held task leaves hold_started_at behind, and
\* a resume pressed on an assigned one finds none.
Held(r, now) == IF r.hold = NoTime THEN 0 ELSE NotBelow(0, now - r.hold)

Release(r, now) ==
    IF r.status = "paused"
    THEN [r EXCEPT !.status = "in_progress", !.paused = @ + Held(r, now), !.hold = NoTime]
    ELSE [r EXCEPT !.status = "in_progress", !.blocked = @ + Held(r, now), !.hold = NoTime]

Acted(r, action, now) ==
    CASE action = "start"    -> [r EXCEPT !.status = "in_progress", !.start = now]
      [] action = "pause"    -> [r EXCEPT !.status = "paused", !.hold = now]
      [] action = "block"    -> [r EXCEPT !.status = "blocked", !.hold = now]
      [] action = "complete" -> [r EXCEPT !.status = "done", !.end = now]
      [] action \in {"resume", "unblock"} -> Release(r, now)

\* The buttons of the console: it starts what is assigned and resumes what is held.
Offered(action, status) ==
    <<action, status>> \in {<<"start", "assigned">>, <<"pause", "in_progress">>,
        <<"block", "in_progress">>, <<"complete", "in_progress">>,
        <<"resume", "paused">>, <<"unblock", "blocked">>}

BeginAction(q, t, action) ==
    /\ ~request[q].open
    /\ actions[t] < MaxActions
    /\ Offered(action, row[t].status) /\ MayAct(action, row[t].status)
    /\ actions' = [actions EXCEPT ![t] = @ + 1]
    /\ request' = [request EXCEPT ![q] =
           [open |-> TRUE, task |-> t, action |-> action, at |-> minute,
            old |-> row[t], new |-> Acted(row[t], action, minute)]]
    /\ UNCHANGED <<minute, weather, row, stream, tick, periods, counted>>

\* What the action did to the time worked, had the clock only moved forwards.
Account(t, r, action, at) ==
    /\ worked' = IF action \in {"pause", "block", "complete"}
                 THEN [worked EXCEPT ![t] = @ + at - since[t]] ELSE worked
    /\ since' = IF action \in {"start", "resume", "unblock"}
                THEN [since EXCEPT ![t] = at] ELSE since
    /\ clipped' = IF action \in {"resume", "unblock"}
                  THEN [clipped EXCEPT ![t] = @ + NotBelow(0, r.hold - at)] ELSE clipped

CommitAction(q) ==
    /\ request[q].open
    /\ LET a == request[q]
       IN  /\ Flush(a.task, a.old, a.new)
           /\ pressed' = [pressed EXCEPT ![a.task] = a.new.status]
           /\ raced' = IF \E p \in Requests \ {q} : request[p].open /\ request[p].task = a.task
                       THEN raced \cup {a.task} ELSE raced
           /\ IF a.task \in raced' THEN UNCHANGED <<worked, since, clipped>>
              ELSE Account(a.task, a.old, a.action, a.at)
    /\ request' = [request EXCEPT ![q] = Closed]
    /\ UNCHANGED <<minute, weather, stream, tick, counted, actions>>

-----------------------------------------------------------------------------
\* The live stream's work cycle (LiveStream.next_tick) and the tick it makes.

\* _active_task: the one in progress that was started first.
IsActive(t) ==
    /\ row[t].status = "in_progress"
    /\ \A u \in Tasks : row[u].status = "in_progress" => row[t].start <= row[u].start

CycleFor(t) == IF stream.task = t THEN stream ELSE NewCycle(t)   \* _cycle_for

\* _apply_work_motion: the implement rests while the machine repositions, unless a
\* scenario says what the implement does.
Travelled(c) == [c EXCEPT !.travel = NotBelow(0, @ - 1)]
Digging(c, scenario) == IF scenario = "none" THEN c.travel = 0 ELSE scenario = "digs"

CompletesCycle(c) == c.elapsed + 1 >= CycleSteps

\* _advance_cycle
Advanced(c) ==
    IF ~CompletesCycle(c) THEN [c EXCEPT !.elapsed = @ + 1]
    ELSE [c EXCEPT !.elapsed = 0, !.completed = @ + 1,
                   !.travel = IF (c.completed + 1) % RepositionEvery = 0
                              THEN RepositionSteps ELSE @]

MakeTick(t, scenario) ==
    /\ ~tick.open
    /\ IsActive(t)
    /\ CycleFor(t).completed < MaxCycles
    /\ LET c == CycleFor(t)
           digs == Digging(c, scenario)
       IN  /\ stream' = IF digs THEN Advanced(Travelled(c)) ELSE Travelled(c)
           /\ tick' = [open |-> TRUE, read |-> FALSE, task |-> t, at |-> minute,
                       loads |-> IF digs /\ CompletesCycle(c) THEN 1 ELSE 0]
    /\ UNCHANGED <<minute, weather, row, request, periods, counted, actions>>

\* process reads the task, and ingest_tick sets the clock to the tick.
ReadTask ==
    /\ tick.open /\ ~tick.read
    /\ minute' = tick.at
    /\ tick' = [open |-> TRUE, read |-> TRUE, task |-> tick.task, loads |-> tick.loads,
                old |-> row[tick.task]]
    /\ UNCHANGED <<weather, row, stream, request, periods, counted, actions>>

\* _completes_cycle, then record_cycle for every load.
Counts(k) == k.loads > 0 /\ k.old.status = "in_progress"

Progressed(k) == Revised([k.old EXCEPT !.quantity = @ + k.loads], minute)

CommitTick ==
    /\ tick.open /\ tick.read
    /\ IF Counts(tick)
       THEN /\ Flush(tick.task, tick.old, Progressed(tick))
            /\ counted' = [counted EXCEPT ![tick.task] = @ + tick.loads]
       ELSE UNCHANGED <<row, counted>>
    /\ tick' = Closed
    /\ UNCHANGED <<minute, weather, stream, request, periods, actions>>

\* Any step of the tick fails: its transaction is rolled back, the stream is not.
FailTick ==
    /\ tick.open
    /\ tick' = Closed
    /\ UNCHANGED <<minute, weather, row, stream, request, periods, counted, actions>>

\* The clock driver's next step; a tick still on its way is at most MaxBack behind.
PassMinute ==
    /\ minute < MaxMinute
    /\ tick.open /\ ~tick.read => minute - tick.at < MaxBack
    /\ minute' = minute + 1
    /\ UNCHANGED <<weather, row, stream, tick, request, periods, counted, actions>>

TaskNext ==
    \/ \E q \in Requests, t \in Tasks :
          \E action \in {"start", "pause", "resume", "block", "unblock", "complete"} :
              BeginAction(q, t, action)
    \/ \E q \in Requests : CommitAction(q)
    \/ \E t \in Tasks, scenario \in {"none", "digs", "rests"} : MakeTick(t, scenario)
    \/ ReadTask \/ CommitTick \/ FailTick
    \/ PassMinute

TaskSpec == TaskInit /\ [][TaskNext]_taskVars

-----------------------------------------------------------------------------
\* The minutes the edge counts for a task at `at': while it is worked on, until
\* the hold began, and, what the ETA is trained on, in the end (load_dataset).
Counted(r, at) == at - r.start - r.paused - r.blocked

\* The time of a task that was paused, blocked and resumed any number of times,
\* also over a clock set back, is the time it was in progress, short of what a
\* setback hid of a hold, unless two requests overlapped on it (revision.py:
\* "wall span minus closed pause and block periods").
ElapsedIsWorked ==
    \A t \in Tasks \ raced :
        LET r == row[t] IN
        /\ r.status = "in_progress" =>
              Counted(r, minute) = worked[t] + (minute - since[t]) - clipped[t]
        /\ r.status \in {"paused", "blocked"} => Counted(r, r.hold) = worked[t] - clipped[t]
        /\ r.status = "done" => Counted(r, r.end) = worked[t] - clipped[t]

\* Nothing of a task is undone by what overlapped with it: its status is the one the
\* last committed request gave it, also when a tick that read the row before commits
\* after it, and every load that a committed tick counted is in its progress
\* (pipeline.py keeps the row it read over the whole tick).
NothingUndone ==
    \A t \in Tasks : row[t].status = pressed[t] /\ row[t].quantity = counted[t]

=============================================================================

------------------------------ MODULE LiveClock ------------------------------
(***************************************************************************)
(* The live demo's time: the clock driver advances the simulation clock    *)
(* and queues every step, the runner turns each step into one tick per     *)
(* streamed machine, and ingesting a tick sets the clock to the tick's     *)
(* timestamp.  Translated from simulator/live/, app/core/clock.py, the     *)
(* first lines of ingest_tick and the simulator routes.                    *)
(*                                                                         *)
(* The driver, the loop and the requests are tasks of one event loop: an   *)
(* action is what one of them does between two awaits.  Real time is not   *)
(* modelled: a step of the driver may take longer or shorter than a tick.  *)
(***************************************************************************)
EXTENDS Integers, Sequences, FiniteSets

CONSTANTS
    Streams,         \* the streamed machines, in order
    None,
    Scenarios,       \* names
    Duration,        \* of a scenario window, in steps
    StepQueueSize,   \* _STEP_QUEUE_SIZE
    Callers,         \* bound: requests to start that are open at once
    MaxStarts, MaxScenarios,  \* bounds; scenarios: at a time
    MaxTime          \* bound: the clock

Machines == {Streams[i] : i \in 1 .. Len(Streams)}
Runs == 1 .. MaxStarts

ASSUME LiveAssumption ==
    /\ Streams \in Seq(Machines)
    /\ None \notin Machines
    /\ {Duration, StepQueueSize} \subseteq Nat \ {0}
    /\ {Callers, MaxStarts, MaxScenarios, MaxTime} \subseteq Nat

VARIABLES
    now,          \* the simulation clock
    running,      \* ClockDriver._running
    driver,       \* the driver task of each start: "none", "alive", "ended"
    queue,        \* its step queue
    loop,         \* the runner's loop task of each start, and what it is doing
    clockTask,    \* ClockDriver._task
    loopTask,     \* LiveRunner._loop_task
    streams,      \* the start that built LiveRunner._streams
    starts,       \* starts so far
    starting,     \* requests past the is_running check of start,
                  \* reading the machines
    stopping,     \* the stop under way: "no", "clock" is stopped, "loop" is ended too
    windows,      \* ScenarioInjector._windows
    \* History
    armed,        \* every window since the injector was last cleared
    last,         \* timestamp of each machine's last tick
    behind,       \* the clock has stepped before the last step was done
    overlapped,   \* a start was completed while the runner was running or being stopped
    wrong         \* what has gone wrong: "order", "scenario"

tasksVars == <<driver, queue, loop, clockTask, loopTask, streams, starts, starting, stopping>>
streamVars == <<windows, armed, last>>
vars == <<now, running, tasksVars, streamVars, behind, overlapped, wrong>>

Waiting == [step |-> "wait"]
Ended == [step |-> "ended"]
Alive(g) == loop[g].step \notin {"none", "ended"}

Init ==
    /\ now = 0 /\ running = FALSE
    /\ driver = [g \in Runs |-> "none"]
    /\ queue = [g \in Runs |-> <<>>]
    /\ loop = [g \in Runs |-> [step |-> "none"]]
    /\ clockTask = 0 /\ loopTask = 0 /\ streams = 0 /\ starts = 0
    /\ starting = 0 /\ stopping = "no"
    /\ windows = {}
    /\ armed = {}
    /\ last = [m \in Machines |-> -1]
    /\ behind = FALSE /\ overlapped = FALSE /\ wrong = {}

\* History is kept for as long as the loop keeps up and no start overlaps another or a stop.
Prompt == ~behind /\ ~overlapped
Remember(ws, ts) ==
    IF Prompt' THEN armed' = ws /\ last' = ts
    ELSE armed' = {} /\ last' = [m \in Machines |-> -1]

-----------------------------------------------------------------------------
\* LiveRunner.start and stop.

\* _loop_task is not None and not done()
IsRunning == loopTask # 0 /\ Alive(loopTask)

\* The check, then the machines are read from the database.
RequestStart ==
    /\ starting < Callers
    /\ ~IsRunning
    /\ starting' = starting + 1
    /\ UNCHANGED <<now, running, driver, queue, loop, clockTask, loopTask, streams,
                   starts, stopping, streamVars, behind, overlapped, wrong>>

CompleteStart ==
    /\ starting > 0
    /\ starts < MaxStarts
    /\ starting' = starting - 1
    /\ LET g == starts + 1
       IN  /\ starts' = g
           /\ streams' = g
           /\ running' = TRUE
           /\ driver' = [driver EXCEPT ![g] = "alive"]
           /\ loop' = [loop EXCEPT ![g] = Waiting]
           /\ clockTask' = g /\ loopTask' = g
    /\ overlapped' = (overlapped \/ IsRunning \/ stopping # "no")
    /\ UNCHANGED <<now, queue, stopping, windows, behind, wrong>>
    /\ Remember(armed, last)

\* clock.stop(), when the clock is running: the driver task it started last is
\* cancelled.
StopClock ==
    /\ running /\ stopping = "no"
    /\ stopping' = "clock"
    /\ running' = FALSE
    /\ driver' = [driver EXCEPT ![clockTask] = "ended"]
    /\ UNCHANGED <<now, queue, loop, clockTask, loopTask, streams, starts, starting,
                   streamVars, behind, overlapped, wrong>>

ClockStopped == stopping = "clock" \/ (stopping = "no" /\ ~running)

\* The loop task is cancelled, and stop waits until it has ended.
CancelLoop ==
    /\ ClockStopped /\ loopTask # 0
    /\ stopping' = "loop"
    /\ loop' = [loop EXCEPT ![loopTask] = Ended]
    /\ UNCHANGED <<now, running, driver, queue, clockTask, loopTask, streams, starts, starting,
                   streamVars, behind, overlapped, wrong>>

\* Whichever loop task there is by then is forgotten; sim_stop clears the scenarios.
FinishStop ==
    /\ stopping = "loop" \/ (ClockStopped /\ loopTask = 0)
    /\ stopping' = "no"
    /\ loopTask' = 0 /\ streams' = 0
    /\ windows' = {} /\ armed' = {}
    /\ UNCHANGED <<now, running, driver, queue, loop, clockTask, starts, starting, last,
                   behind, overlapped, wrong>>

-----------------------------------------------------------------------------
\* ClockDriver._run: sleep, advance, queue the step or drop it.

Put(q, t) == IF Len(q) < StepQueueSize THEN Append(q, t) ELSE q

Busy == \E g \in Runs : Alive(g) /\ (queue[g] # <<>> \/ loop[g] # Waiting)

OneStep == "ended"   \* mutant
AfterStep == IF running THEN "alive" ELSE "ended"   \* while self._running

AdvanceClock(g) ==
    /\ driver[g] = "alive"
    /\ now < MaxTime
    /\ now' = now + 1
    /\ queue' = [queue EXCEPT ![g] = Put(@, now')]
    /\ driver' = [driver EXCEPT ![g] = AfterStep]
    /\ behind' = (behind \/ Busy)
    /\ UNCHANGED <<running, loop, clockTask, loopTask, streams, starts, starting,
                   stopping, windows, overlapped, wrong>>
    /\ Remember(armed, last)

-----------------------------------------------------------------------------
\* LiveRunner._run: a step gives every stream a tick.

GetStep(g) ==
    /\ loop[g] = Waiting
    /\ queue[g] # <<>>
    /\ queue' = [queue EXCEPT ![g] = Tail(@)]
    /\ loop' = [loop EXCEPT ![g] =
                   IF streams = 0 \/ Streams = <<>> THEN Waiting
                   ELSE [step |-> "make", ts |-> Head(queue[g]), at |-> 1]]
    /\ UNCHANGED <<now, running, driver, clockTask, loopTask, streams, starts, starting,
                   stopping, streamVars, behind, overlapped, wrong>>

NextStream(g) ==
    loop' = [loop EXCEPT ![g] = IF @.at = Len(Streams) THEN Waiting
                                ELSE [step |-> "make", ts |-> @.ts, at |-> @.at + 1]]

Applies(w, m, t) == w.start <= t /\ t < w.end /\ (w.machine = None \/ w.machine = m)

InWindow(ws, m, t) == {w \in ws : Applies(w, m, t)}

\* active_overrides, which forgets the windows that are over at t
OverAtOnce(t) == {w \in windows : w.end > t + 1}   \* mutant
StillOpen(t) == {w \in windows : w.end > t}

\* LiveStream.next_tick.  It may fail: the machine has no tick of this step.
MakeTick(g) ==
    /\ loop[g].step = "make"
    /\ LET m == Streams[loop[g].at]
           t == loop[g].ts
           shown == InWindow(windows, m, t)
       IN  /\ windows' = StillOpen(t)
           /\ wrong' = IF Prompt /\ shown # InWindow(armed, m, t)
                        THEN wrong \cup {"scenario"} ELSE wrong
           /\ loop' = [loop EXCEPT ![g] = [step |-> "process", ts |-> t, at |-> @.at]]
    /\ UNCHANGED <<now, running, driver, queue, clockTask, loopTask, streams, starts, starting,
                   stopping, armed, last, behind, overlapped>>

SkipTick(g) ==
    /\ loop[g].step = "make"
    /\ NextStream(g)
    /\ UNCHANGED <<now, running, driver, queue, clockTask, loopTask, streams, starts, starting,
                   stopping, streamVars, behind, overlapped, wrong>>

\* ingest_tick sets the clock before anything that can fail.
StepStart(t) == t - 1   \* mutant
SetClock(t) == t

ProcessTick(g, commits) ==
    /\ loop[g].step = "process"
    /\ LET m == Streams[loop[g].at]
           t == loop[g].ts
       IN  /\ now' = SetClock(t)
           /\ wrong' = IF Prompt /\ commits /\ t <= last[m] THEN wrong \cup {"order"} ELSE wrong
    /\ NextStream(g)
    /\ UNCHANGED <<running, driver, queue, clockTask, loopTask, streams, starts, starting,
                   stopping, windows, behind, overlapped>>
    /\ Remember(armed, IF commits THEN [last EXCEPT ![Streams[loop[g].at]] = loop[g].ts] ELSE last)

-----------------------------------------------------------------------------
\* Requests and the edge tables.

\* ScenarioInjector.inject, for one machine or, with None, for all.
Inject(name, m) ==
    /\ Cardinality(windows) < MaxScenarios
    /\ LET w == [name |-> name, start |-> now, end |-> now + Duration, machine |-> m]
       IN  windows' = windows \cup {w} /\ armed' = IF Prompt THEN armed \cup {w} ELSE {}
    /\ UNCHANGED <<now, running, tasksVars, last, behind, overlapped, wrong>>

-----------------------------------------------------------------------------
Next ==
    \/ RequestStart \/ CompleteStart
    \/ StopClock \/ CancelLoop \/ FinishStop
    \/ \E g \in Runs :
          \/ AdvanceClock(g)
          \/ GetStep(g)
          \/ MakeTick(g)
          \/ SkipTick(g)
          \/ \E commits \in BOOLEAN : ProcessTick(g, commits)
    \/ \E name \in Scenarios, m \in Machines \cup {None} : Inject(name, m)

Spec == Init /\ [][Next]_vars

\* The event loop runs every task that can go on; a request is answered.
FairSpec ==
    /\ Spec
    /\ \A g \in Runs :
          /\ WF_vars(AdvanceClock(g))
          /\ WF_vars(GetStep(g))
          /\ WF_vars(MakeTick(g) \/ SkipTick(g))
          /\ WF_vars(\E commits \in BOOLEAN : ProcessTick(g, commits))
    /\ WF_vars(stopping # "no" /\ (CancelLoop \/ FinishStop))

-----------------------------------------------------------------------------
\* As long as every step is done before the clock takes the next one, and no
\* start overlapped another or a stop: a machine's ticks carry increasing times, and a scenario
\* is in every tick of its window.
PromptIsRight == wrong = {}

\* The steps on their way through the driver and the runner.
OnTheWay(g) ==
    {queue[g][i] : i \in DOMAIN queue[g]}
        \cup (IF loop[g].step \in {"make", "process"} THEN {loop[g].ts} ELSE {})
InFlight == {now} \cup UNION {OnTheWay(g) : g \in {h \in Runs : Alive(h)}}

\* A tick may set the clock back, but never to before the oldest step still on
\* its way: what is behind all of them is over for good.
FloorRises == [][\A x \in InFlight' : \E y \in InFlight : y <= x]_vars

\* While the runner is left running, time passes: the setbacks of a runner that
\* does not keep up are made good in the end.
TimePasses == <>[]running => <>[](now = MaxTime)
=============================================================================

--------------------------- MODULE LiveClockProofs ---------------------------
(***************************************************************************)
(* A tick of the live demo never sets the clock to before every step that  *)
(* is still on its way, for any number of machines, starts and callers:    *)
(* the only action that could bring an older step back is a start, whose   *)
(* loop finds its queue as the driver left it, and a run that has not      *)
(* begun has an empty queue and no driver that could fill it.              *)
(*                                                                         *)
(* While the loop keeps up and no start overlaps, ticks carry increasing   *)
(* times and show the windows they lie in.  The invariant: one runner, one *)
(* step at a time and that of the time the clock shows, machines still to  *)
(* come last ticked before it, and a window the injector forgot is over.   *)
(***************************************************************************)
EXTENDS LiveClock, SequenceTheorems, TLAPS

LoopState ==
    [step : {"none", "wait", "ended"}] \cup [step : {"make", "process"}, ts : Int, at : Int]

Types ==
    /\ now \in Int
    /\ starts \in Nat
    /\ clockTask \in 0 .. starts
    /\ queue \in [Runs -> Seq(Int)]
    /\ loop \in [Runs -> LoopState]
    /\ driver \in [Runs -> {"none", "alive", "ended"}]

\* A run that has not begun is untouched.
Unbegun == \A g \in Runs : g > starts => queue[g] = <<>> /\ driver[g] = "none"

LiveInv == Types /\ Unbegun

LEMMA LiveInit == Init => LiveInv
  BY LiveAssumption DEF Init, LiveInv, Types, Unbegun, LoopState, Runs

LEMMA LiveStep == LiveInv /\ [Next]_vars => LiveInv'
  <1> SUFFICES ASSUME LiveInv, [Next]_vars PROVE LiveInv'
    OBVIOUS
  <1> USE LiveAssumption DEF LiveInv, Types, Unbegun
  <1>1. ASSUME RequestStart PROVE LiveInv'
    BY <1>1 DEF RequestStart
  <1>2. ASSUME CompleteStart PROVE LiveInv'
    BY <1>2 DEF CompleteStart, LoopState, Waiting, Runs
  <1>3. ASSUME StopClock PROVE LiveInv'
    <2>1. driver' = [driver EXCEPT ![clockTask] = "ended"]
      BY <1>3 DEF StopClock
    <2>2. UNCHANGED <<now, starts, clockTask, queue, loop>>
      BY <1>3 DEF StopClock
    <2>3. driver' \in [Runs -> {"none", "alive", "ended"}]
      BY <2>1
    <2>4. ASSUME NEW g \in Runs, g > starts PROVE driver'[g] = "none"
      BY <2>1, <2>4 DEF Runs
    <2> QED
      BY <2>2, <2>3, <2>4
  <1>4. ASSUME CancelLoop PROVE LiveInv'
    <2>1. Ended \in LoopState
      BY DEF Ended, LoopState
    <2> QED
      BY <1>4, <2>1 DEF CancelLoop
  <1>12. ASSUME FinishStop PROVE LiveInv'
    BY <1>12 DEF FinishStop
  <1>5. ASSUME NEW g \in Runs, AdvanceClock(g) PROVE LiveInv'
    <2>1. /\ driver[g] = "alive" /\ now' = now + 1
          /\ queue' = [queue EXCEPT ![g] = Put(queue[g], now')]
          /\ driver' = [driver EXCEPT ![g] = AfterStep]
          /\ UNCHANGED <<starts, clockTask, loop>>
      BY <1>5 DEF AdvanceClock
    <2>2. Put(queue[g], now') \in Seq(Int) /\ now' \in Int
      BY <2>1 DEF Put
    <2>3. AfterStep \in {"none", "alive", "ended"}
      BY DEF AfterStep
    <2> QED
      BY <2>1, <2>2, <2>3 DEF Runs
  <1>6. ASSUME NEW g \in Runs, GetStep(g) PROVE LiveInv'
    <2>1. queue[g] \in Seq(Int) /\ queue[g] # <<>>
      BY <1>6 DEF GetStep
    <2>2. Head(queue[g]) \in Int /\ Tail(queue[g]) \in Seq(Int)
      BY <2>1
    <2>3. queue' = [queue EXCEPT ![g] = Tail(queue[g])]
      BY <1>6 DEF GetStep
    <2> DEFINE r == IF streams = 0 \/ Streams = <<>> THEN Waiting
                    ELSE [step |-> "make", ts |-> Head(queue[g]), at |-> 1]
    <2>4. loop' = [loop EXCEPT ![g] = r] /\ r \in LoopState
      BY <1>6, <2>2 DEF GetStep, LoopState, Waiting
    <2>5. UNCHANGED <<now, starts, clockTask, driver>>
      BY <1>6 DEF GetStep
    <2> QED
      BY <2>1, <2>2, <2>3, <2>4, <2>5 DEF Runs
  <1>7. ASSUME NEW g \in Runs, MakeTick(g) PROVE LiveInv'
    BY <1>7 DEF MakeTick, LoopState
  <1>8. ASSUME NEW g \in Runs, SkipTick(g) PROVE LiveInv'
    BY <1>8 DEF SkipTick, NextStream, LoopState, Waiting
  <1>9. ASSUME NEW g \in Runs, NEW commits \in BOOLEAN, ProcessTick(g, commits) PROVE LiveInv'
    <2>1. loop[g] \in LoopState /\ loop[g].step = "process"
      BY <1>9 DEF ProcessTick
    <2>2. loop[g].ts \in Int /\ loop[g].at \in Int
      BY <2>1 DEF LoopState
    <2>3. now' = loop[g].ts
      BY <1>9 DEF ProcessTick, SetClock
    <2> DEFINE r == IF loop[g].at = Len(Streams) THEN Waiting
                    ELSE [step |-> "make", ts |-> loop[g].ts, at |-> loop[g].at + 1]
    <2>4. loop' = [loop EXCEPT ![g] = r] /\ r \in LoopState
      BY <1>9, <2>2 DEF ProcessTick, NextStream, LoopState, Waiting
    <2>5. UNCHANGED <<queue, starts, clockTask, driver>>
      BY <1>9 DEF ProcessTick
    <2> QED
      BY <2>2, <2>3, <2>4, <2>5
  <1>10. ASSUME NEW name \in Scenarios, NEW m \in Machines \cup {None}, Inject(name, m)
         PROVE LiveInv'
    BY <1>10 DEF Inject, tasksVars
  <1>11. CASE UNCHANGED vars
    BY <1>11 DEF vars, tasksVars
  <1> QED
    BY <1>1, <1>2, <1>3, <1>4, <1>5, <1>6, <1>7, <1>8, <1>9, <1>10, <1>11, <1>12 DEF Next

-----------------------------------------------------------------------------
\* What is on the way, spelled out: the clock, a queued step of a live run, or
\* the step its loop is turning into ticks.
Queued(x, g) == \E i \in 1 .. Len(queue[g]) : x = queue[g][i]
InHand(x, g) == loop[g].step \in {"make", "process"} /\ x = loop[g].ts
Near(x, g) == Alive(g) /\ (Queued(x, g) \/ InHand(x, g))
Coming(x) == x = now \/ \E g \in Runs : Near(x, g)

Spelled == \A x : x \in InFlight <=> Coming(x)

LEMMA InFlightIs == LiveInv => Spelled
  <1> SUFFICES ASSUME LiveInv, NEW x PROVE x \in InFlight <=> Coming(x)
    BY DEF Spelled
  <1>1. ASSUME NEW g \in Runs PROVE x \in OnTheWay(g) <=> Queued(x, g) \/ InHand(x, g)
    <2>1. DOMAIN queue[g] = 1 .. Len(queue[g])
      BY DEF LiveInv, Types
    <2> QED
      BY <2>1 DEF OnTheWay, Queued, InHand
  <1> QED
    BY <1>1 DEF InFlight, Coming, Near

\* What is on the way is a time.
LEMMA InFlightTimes == LiveInv => InFlight \subseteq Int
  <1> SUFFICES ASSUME LiveInv, NEW x, Coming(x) PROVE x \in Int
    BY InFlightIs DEF Spelled
  <1> USE DEF LiveInv, Types
  <1>1. CASE x = now
    BY <1>1
  <1>2. ASSUME NEW g \in Runs, Queued(x, g) PROVE x \in Int
    BY <1>2 DEF Queued
  <1>3. ASSUME NEW g \in Runs, InHand(x, g) PROVE x \in Int
    BY <1>3 DEF InHand, LoopState
  <1> QED
    BY <1>1, <1>2, <1>3 DEF Coming, Near

\* Every step on the way after the action has one on the way before it that is
\* not later.
Raised == \A x \in InFlight' : \E y \in InFlight : y <= x

\* An action that brings nothing new on the way raises nothing.
LEMMA NothingNew ==
    ASSUME LiveInv, LiveInv', \A x : Coming(x)' => Coming(x)
    PROVE  Raised
  <1>1. Spelled /\ Spelled'
    BY InFlightIs, PTL
  <1> SUFFICES ASSUME NEW x \in InFlight' PROVE \E y \in InFlight : y <= x
    BY DEF Raised
  <1>2. Coming(x)'
    BY <1>1 DEF Spelled
  <1>3. x \in InFlight
    BY <1>1, <1>2 DEF Spelled
  <1>4. x <= x
    BY <1>3, InFlightTimes
  <1> QED
    BY <1>3, <1>4

-----------------------------------------------------------------------------
\* One lemma per kind of action: it takes steps off the way, or it puts one on.

\* Actions that leave the clock, the queues and the loops alone, or end a loop.
LEMMA Bystanders ==
    ASSUME LiveInv, LiveInv', now' = now, queue' = queue,
           \A g \in Runs : loop'[g] = loop[g] \/ loop'[g].step \in {"none", "wait", "ended"},
           \A g \in Runs : Alive(g)' => Alive(g)
    PROVE  Raised
  <1>1. ASSUME NEW x, NEW g \in Runs, Near(x, g)' PROVE Near(x, g)
    BY <1>1 DEF Near, Queued, InHand
  <1>2. \A x : Coming(x)' => Coming(x)
    BY <1>1 DEF Coming
  <1> QED
    BY <1>2, NothingNew

\* A start begins a loop whose queue is still empty.
LEMMA StartRaises ==
    ASSUME LiveInv, LiveInv', CompleteStart PROVE Raised
  <1> USE DEF CompleteStart
  <1>1. starts \in Nat /\ starts + 1 \in Runs
    BY LiveAssumption DEF LiveInv, Types, Runs
  <1>2. queue[starts + 1] = <<>>
    BY <1>1 DEF LiveInv, Unbegun
  <1>3. loop' = [loop EXCEPT ![starts + 1] = Waiting]
    OBVIOUS
  <1>4. \A g \in Runs : g # starts + 1 => loop'[g] = loop[g]
    BY <1>3 DEF LiveInv, Types
  <1>5. loop'[starts + 1] = Waiting
    BY <1>1, <1>3 DEF LiveInv, Types
  <1>6. ASSUME NEW x, NEW g \in Runs, Near(x, g)' PROVE Near(x, g)
    <2>1. CASE g = starts + 1
      <3>1. queue'[g] = <<>> /\ loop'[g] = Waiting
        BY <1>2, <1>5, <2>1
      <3>2. Len(queue'[g]) = 0
        BY <3>1
      <3>3. ~\E i \in 1 .. Len(queue'[g]) : x = queue'[g][i]
        BY <3>2
      <3> QED
        BY <1>6, <3>1, <3>3 DEF Near, Queued, InHand, Waiting
    <2>2. CASE g # starts + 1
      BY <1>4, <1>6, <2>2 DEF Near, Alive, Queued, InHand
    <2> QED
      BY <2>1, <2>2
  <1>7. \A x : Coming(x)' => Coming(x)
    BY <1>6 DEF Coming
  <1> QED
    BY <1>7, NothingNew

\* The loop takes the oldest step of its queue in hand.
LEMMA GetRaises ==
    ASSUME LiveInv, LiveInv', NEW g \in Runs, GetStep(g) PROVE Raised
  <1> USE DEF GetStep
  <1>1. queue[g] \in Seq(Int) /\ queue[g] # <<>> /\ Alive(g)
    BY DEF LiveInv, Types, Alive, Waiting
  <1>2. queue' = [queue EXCEPT ![g] = Tail(queue[g])]
    OBVIOUS
  <1>3. queue'[g] = Tail(queue[g]) /\ \A h \in Runs : h # g => queue'[h] = queue[h]
    BY <1>2 DEF LiveInv, Types
  <1>4. \A h \in Runs : h # g => loop'[h] = loop[h]
    BY DEF LiveInv, Types
  <1>5. loop'[g].step \in {"make", "process"} => loop'[g].ts = Head(queue[g])
    BY DEF LiveInv, Types, Waiting
  <1>6. \A x : Queued(x, g)' => Queued(x, g)
    <2>1. ASSUME NEW i \in 1 .. Len(Tail(queue[g]))
          PROVE  i + 1 \in 1 .. Len(queue[g]) /\ Tail(queue[g])[i] = queue[g][i + 1]
      BY <1>1
    <2> SUFFICES ASSUME NEW x, NEW i \in 1 .. Len(queue'[g]), x = queue'[g][i] PROVE Queued(x, g)
      BY DEF Queued
    <2>2. i \in 1 .. Len(Tail(queue[g])) /\ x = Tail(queue[g])[i]
      BY <1>3
    <2>3. i + 1 \in 1 .. Len(queue[g]) /\ x = queue[g][i + 1]
      BY <2>1, <2>2
    <2> QED
      BY <2>3 DEF Queued
  <1>7. \A x : InHand(x, g)' => Queued(x, g)
    <2>1. 1 \in 1 .. Len(queue[g]) /\ Head(queue[g]) = queue[g][1]
      BY <1>1
    <2> QED
      BY <2>1, <1>5 DEF Queued, InHand
  <1>8. ASSUME NEW x, NEW h \in Runs, Near(x, h)' PROVE Near(x, h)
    <2>1. CASE h = g
      BY <1>1, <1>6, <1>7, <1>8, <2>1 DEF Near
    <2>2. CASE h # g
      BY <1>3, <1>4, <1>8, <2>2 DEF Near, Alive, Queued, InHand
    <2> QED
      BY <2>1, <2>2
  <1>9. \A x : Coming(x)' => Coming(x)
    BY <1>8 DEF Coming
  <1> QED
    BY <1>9, NothingNew

\* The loop goes on with the step in hand, or lays it down.
LEMMA HandRaises ==
    ASSUME LiveInv, LiveInv', NEW g \in Runs, NEW r, queue' = queue, Alive(g),
           loop' = [loop EXCEPT ![g] = r], now' = now \/ InHand(now', g),
           r.step \in {"make", "process"} => InHand(r.ts, g)
    PROVE  Raised
  <1>1. \A h \in Runs : h # g => loop'[h] = loop[h]
    BY DEF LiveInv, Types
  <1>2. loop'[g] = r
    BY DEF LiveInv, Types
  <1>3. \A x : InHand(x, g)' => InHand(x, g)
    BY <1>2 DEF InHand
  <1>4. ASSUME NEW x, NEW h \in Runs, Near(x, h)' PROVE Near(x, h)
    <2>1. Queued(x, h)' => Queued(x, h)
      BY DEF Queued
    <2>2. InHand(x, h)' => InHand(x, h)
      BY <1>1, <1>3 DEF InHand
    <2>3. Alive(h)
      BY <1>1, <1>4 DEF Near, Alive
    <2> QED
      BY <1>4, <2>1, <2>2, <2>3 DEF Near
  <1>5. \A x : Coming(x)' => Coming(x)
    <2> SUFFICES ASSUME NEW x, Coming(x)' PROVE Coming(x)
      OBVIOUS
    <2>1. CASE x = now'
      BY <1>4, <2>1 DEF Coming, Near
    <2>2. CASE x # now'
      BY <1>4, <2>2 DEF Coming
    <2> QED
      BY <2>1, <2>2
  <1> QED
    BY <1>5, NothingNew

\* The driver puts the new time on the way: it is not before the clock was.
LEMMA AdvanceRaises ==
    ASSUME LiveInv, LiveInv', NEW g \in Runs, AdvanceClock(g) PROVE Raised
  <1> USE DEF AdvanceClock
  <1>1. now \in Int /\ now' = now + 1 /\ loop' = loop /\ queue[g] \in Seq(Int)
    BY DEF LiveInv, Types
  <1>2. queue' = [queue EXCEPT ![g] = Put(queue[g], now')]
    OBVIOUS
  <1>3. queue'[g] = Put(queue[g], now') /\ \A h \in Runs : h # g => queue'[h] = queue[h]
    BY <1>2 DEF LiveInv, Types
  <1>4. \A x : Queued(x, g)' => x = now' \/ Queued(x, g)
    <2>1. \A i \in 1 .. Len(queue'[g]) :
             queue'[g][i] = now' \/ (i \in 1 .. Len(queue[g]) /\ queue'[g][i] = queue[g][i])
      BY <1>1, <1>3 DEF Put
    <2> QED
      BY <2>1 DEF Queued
  <1>5. ASSUME NEW x, NEW h \in Runs, Near(x, h)' PROVE x = now' \/ Near(x, h)
    <2>1. CASE h # g
      BY <1>1, <1>3, <1>5, <2>1 DEF Near, Queued, Alive, InHand
    <2>2. CASE h = g
      BY <1>1, <1>4, <1>5, <2>2 DEF Near, Alive, InHand
    <2> QED
      BY <2>1, <2>2
  <1>6. \A x : Coming(x)' => x = now' \/ Coming(x)
    BY <1>5 DEF Coming
  <1>7. Spelled /\ Spelled'
    BY InFlightIs, PTL
  <1> SUFFICES ASSUME NEW x \in InFlight' PROVE \E y \in InFlight : y <= x
    BY DEF Raised
  <1>8. CASE x = now'
    <2>1. now \in InFlight /\ now <= x
      BY <1>1, <1>7, <1>8 DEF Spelled, Coming
    <2> QED
      BY <2>1
  <1>9. CASE Coming(x)
    <2>1. x \in InFlight /\ x <= x
      BY <1>7, <1>9, InFlightTimes DEF Spelled
    <2> QED
      BY <2>1
  <1> QED
    BY <1>6, <1>7, <1>8, <1>9 DEF Spelled

-----------------------------------------------------------------------------
\* No step of the live demo lowers the floor.
LEMMA StepRaises == LiveInv /\ LiveInv' /\ [Next]_vars => Raised
  <1> SUFFICES ASSUME LiveInv, LiveInv', [Next]_vars PROVE Raised
    OBVIOUS
  <1>1. CASE RequestStart
    BY <1>1, Bystanders DEF RequestStart, Alive
  <1>2. CASE CompleteStart
    BY <1>2, StartRaises
  <1>3. CASE StopClock
    BY <1>3, Bystanders DEF StopClock, Alive
  <1>4. CASE CancelLoop \/ FinishStop
    <2>1. \A g \in Runs : loop'[g] = loop[g] \/ loop'[g] = Ended
      BY <1>4 DEF CancelLoop, FinishStop, LiveInv, Types
    <2>2. \A g \in Runs : loop'[g] = loop[g] \/ loop'[g].step = "ended"
      BY <2>1 DEF Ended
    <2>3. now' = now /\ queue' = queue
      BY <1>4 DEF CancelLoop, FinishStop
    <2> QED
      BY <2>2, <2>3, Bystanders DEF Alive
  <1>5. ASSUME NEW g \in Runs, AdvanceClock(g) PROVE Raised
    BY <1>5, AdvanceRaises
  <1>6. ASSUME NEW g \in Runs, GetStep(g) PROVE Raised
    BY <1>6, GetRaises
  <1>7. ASSUME NEW g \in Runs, MakeTick(g) PROVE Raised
    <2> DEFINE r == [step |-> "process", ts |-> loop[g].ts, at |-> loop[g].at]
    <2>1. loop' = [loop EXCEPT ![g] = r] /\ now' = now /\ queue' = queue
      BY <1>7 DEF MakeTick
    <2>2. Alive(g) /\ InHand(r.ts, g)
      BY <1>7 DEF MakeTick, Alive, InHand
    <2> QED
      BY <2>1, <2>2, HandRaises
  <1>8. ASSUME NEW g \in Runs, SkipTick(g) PROVE Raised
    <2> DEFINE r == IF loop[g].at = Len(Streams) THEN Waiting
                    ELSE [step |-> "make", ts |-> loop[g].ts, at |-> loop[g].at + 1]
    <2>1. loop' = [loop EXCEPT ![g] = r] /\ now' = now /\ queue' = queue
      BY <1>8 DEF SkipTick, NextStream
    <2>2. Alive(g) /\ (r.step \in {"make", "process"} => InHand(r.ts, g))
      BY <1>8 DEF SkipTick, Alive, InHand, Waiting
    <2> HIDE DEF r
    <2> QED
      BY <2>1, <2>2, HandRaises
  <1>9. ASSUME NEW g \in Runs, NEW commits \in BOOLEAN, ProcessTick(g, commits) PROVE Raised
    <2> DEFINE r == IF loop[g].at = Len(Streams) THEN Waiting
                    ELSE [step |-> "make", ts |-> loop[g].ts, at |-> loop[g].at + 1]
    <2>1. loop' = [loop EXCEPT ![g] = r] /\ now' = loop[g].ts /\ queue' = queue
      BY <1>9 DEF ProcessTick, NextStream, SetClock
    <2>2. Alive(g) /\ InHand(now', g) /\ (r.step \in {"make", "process"} => InHand(r.ts, g))
      BY <1>9, <2>1 DEF ProcessTick, Alive, InHand, Waiting
    <2> HIDE DEF r
    <2> QED
      BY <2>1, <2>2, HandRaises
  <1>10. ASSUME NEW name \in Scenarios, NEW m \in Machines \cup {None}, Inject(name, m)
         PROVE Raised
    BY <1>10, Bystanders DEF Inject, tasksVars, Alive
  <1>11. CASE UNCHANGED vars
    BY <1>11, Bystanders DEF vars, tasksVars, Alive
  <1> QED
    BY <1>1, <1>2, <1>3, <1>4, <1>5, <1>6, <1>7, <1>8, <1>9, <1>10, <1>11 DEF Next

\* A run is begun with an empty queue and nothing to fill it before.
THEOREM LiveInvariant == Spec => []LiveInv
  <1>1. Init => LiveInv
    BY LiveInit
  <1>2. LiveInv /\ [Next]_vars => LiveInv'
    BY LiveStep
  <1> QED
    BY <1>1, <1>2, PTL DEF Spec

\* A tick may set the clock back (ingest.py sets it to the tick's timestamp), but
\* no action leaves the clock or a step behind everything that was on its way.
THEOREM NothingSetBackForGood == Spec => FloorRises
  <1>1. LiveInv /\ LiveInv' /\ [Next]_vars =>
           [\A x \in InFlight' : \E y \in InFlight : y <= x]_vars
    BY StepRaises DEF Raised
  <1>2. Spec => []LiveInv
    BY LiveInvariant
  <1> QED
    BY <1>1, <1>2, PTL DEF Spec, FloorRises

-----------------------------------------------------------------------------
\* One stream per machine, as _demo_machine_ids has them (SELECT DISTINCT).
StreamedOnce == \A i, j \in 1 .. Len(Streams) : Streams[i] = Streams[j] => i = j

HistoryTypes ==
    /\ \A w \in armed : w.end \in Int
    /\ last \in [Machines -> Int]

\* As long as no start overlaps another or a stop, there is one runner: its driver and
\* its loop.
OneRunner ==
    ~overlapped =>
        /\ \A g \in Runs : Alive(g) => loopTask = g
        /\ \A g \in Runs : driver[g] = "alive" => running /\ clockTask = g
        /\ running => loopTask # 0 /\ stopping = "no"
        /\ stopping = "loop" => \A g \in Runs : ~Alive(g)
        /\ loopTask # 0 => /\ loopTask = clockTask /\ loopTask \in Runs
                           /\ stopping = "loop" \/ Alive(loopTask)

\* A loop at work has nothing to do, or one step, of the time the clock shows.
Idle(g) == queue[g] = <<>> /\ loop[g] = Waiting
Due(g) == queue[g] = <<now>> /\ loop[g] = Waiting
Working(g) ==
    /\ queue[g] = <<>>
    /\ loop[g].step \in {"make", "process"} /\ loop[g].ts = now
    /\ loop[g].at \in 1 .. Len(Streams)

OneStepAtATime ==
    Prompt => \A g \in Runs : Alive(g) => Idle(g) \/ Due(g) \/ Working(g)

\* A machine's last tick is not later than the clock, and earlier than the step that
\* the machine has still to make a tick of.
TicksBefore ==
    Prompt =>
        /\ \A m \in Machines : last[m] <= now
        /\ \A g \in Runs : Alive(g) =>
              /\ Due(g) => \A m \in Machines : last[m] < now
              /\ Working(g) => \A i \in loop[g].at .. Len(Streams) : last[Streams[i]] < now

\* A window the injector has forgotten is over.
ForgottenAreOver ==
    Prompt => windows \subseteq armed /\ \A w \in armed \ windows : w.end <= now

PromptInv ==
    /\ LiveInv /\ HistoryTypes /\ OneRunner /\ OneStepAtATime /\ TicksBefore
    /\ ForgottenAreOver /\ PromptIsRight

LEMMA PromptStarts == Init => PromptInv
  <1> SUFFICES ASSUME Init PROVE PromptInv
    OBVIOUS
  <1>1. LiveInv
    BY LiveInit
  <1>2. \A g \in Runs : ~Alive(g) /\ driver[g] = "none"
    BY DEF Init, Alive
  <1>3. HistoryTypes /\ ForgottenAreOver
    BY DEF Init, HistoryTypes, ForgottenAreOver
  <1>4. OneRunner /\ OneStepAtATime
    BY <1>2 DEF Init, OneRunner, OneStepAtATime
  <1>5. TicksBefore
    BY <1>2 DEF Init, TicksBefore
  <1> QED
    BY <1>1, <1>3, <1>4, <1>5 DEF PromptInv, Init, PromptIsRight

\* What an action remembers of the history while the loop keeps up.
Kept(ws, ts) ==
    /\ Prompt' => armed' = ws /\ last' = ts
    /\ ~Prompt' => armed' = {} /\ last' = [m \in Machines |-> -1]

LEMMA RememberIs ==
    ASSUME NEW ws, NEW ts, Remember(ws, ts), LiveInv,
           ws \subseteq {w \in ws : w.end \in Int}, ts \in [Machines -> Int]
    PROVE  Kept(ws, ts) /\ HistoryTypes'
  <1>1. Kept(ws, ts)
    BY DEF Kept, Remember
  <1>2. CASE Prompt'
    BY <1>1, <1>2 DEF Kept, HistoryTypes
  <1>3. CASE ~Prompt'
    <2>1. armed' = {} /\ last' = [m \in Machines |-> -1]
      BY <1>1, <1>3 DEF Kept
    <2> QED
      BY <1>1, <2>1 DEF HistoryTypes
  <1> QED
    BY <1>1, <1>2, <1>3

LEMMA RequestStartKeepsPrompt == PromptInv /\ RequestStart /\ LiveInv' => PromptInv'
  BY DEF PromptInv, RequestStart, HistoryTypes, OneRunner, OneStepAtATime, TicksBefore,
         ForgottenAreOver, PromptIsRight, streamVars, Alive, Prompt, Idle, Due, Working

\* A start that overlaps nothing finds no runner: it begins the only one.
LEMMA CompleteStartKeepsPrompt == PromptInv /\ CompleteStart /\ LiveInv' => PromptInv'
  <1> SUFFICES ASSUME PromptInv, CompleteStart, LiveInv' PROVE PromptInv'
    OBVIOUS
  <1> PICK g : g = starts + 1
    OBVIOUS
  <1>1. g \in Runs /\ starts \in Nat
    BY LiveAssumption DEF PromptInv, LiveInv, Types, CompleteStart, Runs
  <1>2. /\ loop' = [loop EXCEPT ![g] = Waiting] /\ driver' = [driver EXCEPT ![g] = "alive"]
        /\ loopTask' = g /\ clockTask' = g /\ running' = TRUE /\ stopping' = stopping
        /\ overlapped' = (overlapped \/ IsRunning \/ stopping # "no") /\ behind' = behind
        /\ queue' = queue /\ now' = now /\ windows' = windows /\ wrong' = wrong
        /\ Remember(armed, last)
    BY DEF CompleteStart
  <1>3. HistoryTypes' /\ Kept(armed, last)
    BY <1>2, RememberIs DEF PromptInv, HistoryTypes
  <1>4. queue[g] = <<>>
    BY <1>1 DEF PromptInv, LiveInv, Unbegun
  <1>5. /\ loop'[g] = Waiting /\ \A h \in Runs : h # g => loop'[h] = loop[h]
        /\ driver'[g] = "alive" /\ \A h \in Runs : h # g => driver'[h] = driver[h]
    BY <1>1, <1>2 DEF PromptInv, LiveInv, Types
  <1>6. Alive(g)'
    BY <1>5 DEF Alive, Waiting
  <1>7. ASSUME ~overlapped'
        PROVE  /\ ~overlapped /\ stopping = "no" /\ \A h \in Runs : h # g => ~Alive(h)' /\ driver'[h] # "alive"
    <2>1. ~overlapped /\ stopping = "no" /\ loopTask = 0
      BY <1>2, <1>7 DEF IsRunning, PromptInv, OneRunner
    <2>2. ~running
      BY <2>1 DEF PromptInv, OneRunner
    <2>3. \A h \in Runs : h # 0
      BY DEF Runs
    <2>4. \A h \in Runs : ~Alive(h) /\ driver[h] # "alive"
      BY <2>1, <2>2, <2>3 DEF PromptInv, OneRunner
    <2> QED
      BY <1>5, <2>1, <2>2, <2>4 DEF Alive
  <1>8. OneRunner'
    <2>1. g # 0
      BY <1>1 DEF Runs
    <2> QED
      BY <1>1, <1>2, <1>6, <1>7, <2>1 DEF OneRunner
  <1>9. Prompt' => Prompt
    BY <1>2, <1>7 DEF Prompt
  <1>10. ASSUME Prompt', NEW h \in Runs, Alive(h)' PROVE h = g /\ Idle(h)'
    <2>1. h = g
      BY <1>7, <1>10 DEF Prompt
    <2> QED
      BY <1>2, <1>4, <1>5, <2>1 DEF Idle
  <1>11. OneStepAtATime'
    BY <1>10 DEF OneStepAtATime
  <1>12. ASSUME NEW h \in Runs, Idle(h)' PROVE ~Due(h)' /\ ~Working(h)'
    <2>1. queue'[h] = <<>> /\ loop'[h].step = "wait"
      BY <1>12 DEF Idle, Waiting
    <2>2. queue'[h] # <<now'>>
      BY <2>1
    <2> QED
      BY <2>1, <2>2 DEF Due, Working
  <1>13. TicksBefore'
    <2>1. ASSUME Prompt', NEW m \in Machines PROVE last'[m] <= now'
      BY <1>2, <1>3, <1>9, <2>1 DEF Kept, PromptInv, TicksBefore
    <2> QED
      BY <1>10, <1>12, <2>1 DEF TicksBefore
  <1>14. ForgottenAreOver'
    BY <1>2, <1>3, <1>9 DEF ForgottenAreOver, PromptInv, Kept
  <1> QED
    BY <1>2, <1>3, <1>8, <1>11, <1>13, <1>14 DEF PromptInv, PromptIsRight

\* The driver is ended first; the loop goes on with what it has.
LEMMA StopClockKeepsPrompt == PromptInv /\ StopClock /\ LiveInv' => PromptInv'
  <1> SUFFICES ASSUME PromptInv, StopClock, LiveInv' PROVE PromptInv'
    OBVIOUS
  <1>1. /\ driver' = [driver EXCEPT ![clockTask] = "ended"] /\ running' = FALSE /\ running
        /\ stopping = "no" /\ stopping' = "clock"
        /\ UNCHANGED <<now, queue, loop, clockTask, loopTask, windows, armed, last,
                       behind, overlapped, wrong>>
    BY DEF StopClock, streamVars
  <1>2. OneRunner'
    <2>1. ASSUME ~overlapped, NEW g \in Runs PROVE driver'[g] # "alive"
      <3>1. CASE g = clockTask
        BY <1>1, <3>1 DEF PromptInv, LiveInv, Types
      <3>2. CASE g # clockTask
        BY <1>1, <2>1, <3>2 DEF PromptInv, LiveInv, Types, OneRunner
      <3> QED
        BY <3>1, <3>2
    <2> QED
      BY <1>1, <2>1 DEF PromptInv, OneRunner, Alive
  <1> QED
    BY <1>1, <1>2 DEF PromptInv, HistoryTypes, OneStepAtATime, TicksBefore,
       ForgottenAreOver, PromptIsRight, Alive, Prompt, Idle, Due, Working

\* Then the loop.
LEMMA CancelLoopKeepsPrompt == PromptInv /\ CancelLoop /\ LiveInv' => PromptInv'
  <1> SUFFICES ASSUME PromptInv, CancelLoop, LiveInv' PROVE PromptInv'
    OBVIOUS
  <1>1. /\ ClockStopped /\ loop' = [loop EXCEPT ![loopTask] = Ended] /\ stopping' = "loop"
        /\ UNCHANGED <<now, running, driver, queue, clockTask, loopTask, windows, armed, last,
                       behind, overlapped, wrong>>
    BY DEF CancelLoop, streamVars
  <1>2. \A g \in Runs : loop'[g] = IF g = loopTask THEN Ended ELSE loop[g]
    BY <1>1 DEF PromptInv, LiveInv, Types
  <1>3. ASSUME ~overlapped, NEW g \in Runs PROVE ~Alive(g)'
    <2>1. g # loopTask => ~Alive(g)
      BY <1>3 DEF PromptInv, OneRunner
    <2> QED
      BY <1>2, <2>1 DEF Alive, Ended
  <1>4. ~overlapped => ~running
    BY <1>1 DEF ClockStopped, PromptInv, OneRunner
  <1>5. OneRunner'
    BY <1>1, <1>3, <1>4 DEF PromptInv, OneRunner
  <1>6. \A g \in Runs : Prompt' => ~Alive(g)'
    BY <1>1, <1>3 DEF Prompt
  <1>7. OneStepAtATime' /\ TicksBefore'
    BY <1>1, <1>6 DEF PromptInv, OneStepAtATime, TicksBefore, Prompt
  <1>8. ForgottenAreOver' /\ HistoryTypes'
    BY <1>1 DEF PromptInv, ForgottenAreOver, HistoryTypes, Prompt
  <1> QED
    BY <1>1, <1>5, <1>7, <1>8 DEF PromptInv, PromptIsRight

\* Then the stop forgets the loop, and the windows.
LEMMA FinishStopKeepsPrompt == PromptInv /\ FinishStop /\ LiveInv' => PromptInv'
  <1> SUFFICES ASSUME PromptInv, FinishStop, LiveInv' PROVE PromptInv'
    OBVIOUS
  <1>1. /\ stopping = "loop" \/ loopTask = 0
        /\ loopTask' = 0 /\ windows' = {} /\ armed' = {} /\ stopping' = "no"
        /\ UNCHANGED <<now, running, driver, queue, loop, clockTask, last, behind, overlapped, wrong>>
    BY DEF FinishStop
  <1>2. ASSUME ~overlapped PROVE ~running /\ \A g \in Runs : ~Alive(g)
    <2>1. \A g \in Runs : g # 0
      BY DEF Runs
    <2> QED
      BY <1>1, <1>2, <2>1 DEF PromptInv, OneRunner
  <1>3. \A g \in Runs : Alive(g)' = Alive(g)
    BY <1>1 DEF Alive
  <1>4. OneRunner'
    BY <1>1, <1>2, <1>3 DEF PromptInv, OneRunner
  <1>5. \A g \in Runs : Prompt' => ~Alive(g)'
    BY <1>1, <1>2, <1>3 DEF Prompt
  <1>6. OneStepAtATime' /\ TicksBefore'
    BY <1>1, <1>5 DEF PromptInv, OneStepAtATime, TicksBefore, Prompt
  <1>7. ForgottenAreOver' /\ HistoryTypes'
    BY <1>1 DEF PromptInv, ForgottenAreOver, HistoryTypes
  <1> QED
    BY <1>1, <1>4, <1>6, <1>7 DEF PromptInv, PromptIsRight

\* The clock steps: the step it queues is the only one on its way, or the loop has
\* fallen behind.
LEMMA AdvanceClockKeepsPrompt ==
    ASSUME NEW g \in Runs, PromptInv, AdvanceClock(g), LiveInv' PROVE PromptInv'
  <1>1. /\ driver[g] = "alive" /\ now' = now + 1
        /\ queue' = [queue EXCEPT ![g] = Put(queue[g], now')]
        /\ driver' = [driver EXCEPT ![g] = AfterStep]
        /\ behind' = (behind \/ Busy)
        /\ UNCHANGED <<running, loop, clockTask, loopTask, stopping, windows, overlapped, wrong>>
        /\ Remember(armed, last)
    BY DEF AdvanceClock
  <1>2. HistoryTypes' /\ Kept(armed, last)
    BY <1>1, RememberIs DEF PromptInv, HistoryTypes
  <1>3. \A h \in Runs : driver'[h] = "alive" => driver[h] = "alive"
    BY <1>1 DEF PromptInv, LiveInv, Types
  <1>4. OneRunner'
    BY <1>1, <1>3 DEF PromptInv, OneRunner, Alive
  <1>5. ASSUME Prompt' PROVE Prompt /\ ~Busy
    BY <1>1, <1>5 DEF Prompt
  <1>6. ASSUME Prompt', NEW h \in Runs, Alive(h)' PROVE Due(h)' /\ ~Working(h)'
    <2>1. ~overlapped /\ Alive(h)
      BY <1>1, <1>6 DEF Prompt, Alive
    <2>2. loopTask = h /\ running /\ clockTask = g /\ h = g
      BY <1>1, <2>1 DEF PromptInv, OneRunner
    <2>3. queue[g] = <<>> /\ loop[g] = Waiting
      BY <1>5, <1>6, <2>1, <2>2 DEF Busy
    <2>4. Put(queue[g], now') = <<now'>>
      <3>1. Len(queue[g]) = 0
        BY <2>3
      <3>2. Put(queue[g], now') = Append(queue[g], now')
        BY <3>1, LiveAssumption DEF Put
      <3> QED
        BY <2>3, <3>2
    <2>5. queue'[g] = <<now'>>
      BY <1>1, <2>4 DEF PromptInv, LiveInv, Types
    <2>6. queue'[h] = <<now'>> /\ loop'[h] = Waiting
      BY <1>1, <2>2, <2>3, <2>5
    <2> QED
      BY <2>6 DEF Due, Working, Waiting
  <1>7. OneStepAtATime'
    BY <1>6 DEF OneStepAtATime
  <1>8. ASSUME Prompt', NEW m \in Machines PROVE last'[m] < now'
    <2>1. last' = last /\ last[m] <= now /\ last[m] \in Int /\ now \in Int
      BY <1>2, <1>5, <1>8 DEF Kept, PromptInv, TicksBefore, HistoryTypes, LiveInv, Types
    <2> QED
      BY <1>1, <2>1
  <1>9. TicksBefore'
    <2>1. ASSUME Prompt', NEW m \in Machines PROVE last'[m] <= now'
      BY <1>2, <1>8, <2>1 DEF HistoryTypes, LiveInv, Types
    <2> QED
      BY <1>6, <1>8, <2>1 DEF TicksBefore
  <1>10. ForgottenAreOver'
    <2> SUFFICES ASSUME Prompt' PROVE windows' \subseteq armed' /\ \A w \in armed' \ windows' : w.end <= now'
      BY DEF ForgottenAreOver
    <2>1. armed' = armed /\ windows' = windows
      BY <1>1, <1>2 DEF Kept
    <2>2. windows \subseteq armed /\ \A w \in armed \ windows : w.end <= now /\ w.end \in Int
      BY <1>5 DEF PromptInv, ForgottenAreOver, HistoryTypes
    <2>3. now \in Int /\ now' = now + 1
      BY <1>1 DEF PromptInv, LiveInv, Types
    <2>4. \A w \in armed \ windows : w.end <= now'
      BY <2>2, <2>3
    <2> QED
      BY <2>1, <2>2, <2>4
  <1> QED
    BY <1>1, <1>2, <1>4, <1>7, <1>9, <1>10 DEF PromptInv, PromptIsRight

\* A loop goes from one thing to the next, all else that OneRunner speaks of being
\* as it was.
LEMMA LoopGoesOn ==
    ASSUME NEW g \in Runs, PromptInv, Alive(g), NEW r, loop' = [loop EXCEPT ![g] = r],
           r.step \notin {"none", "ended"},
           UNCHANGED <<running, driver, clockTask, loopTask, stopping, overlapped>>
    PROVE  /\ OneRunner' /\ Alive(g)' /\ loop'[g] = r
           /\ ~overlapped => \A h \in Runs : Alive(h)' => h = g
  <1>1. loop'[g] = r /\ \A h \in Runs : h # g => loop'[h] = loop[h]
    BY DEF PromptInv, LiveInv, Types
  <1>2. \A h \in Runs : Alive(h)' <=> Alive(h)
    BY <1>1 DEF Alive
  <1>3. OneRunner'
    BY <1>2 DEF PromptInv, OneRunner
  <1> QED
    BY <1>1, <1>2, <1>3 DEF PromptInv, OneRunner

\* What the loop at work leaves behind, when it is the only one.
LEMMA OneLoopSuffices ==
    ASSUME NEW g \in Runs, Prompt' => Idle(g)' \/ Due(g)' \/ Working(g)',
           Prompt' => \A h \in Runs : Alive(h)' => h = g,
           Prompt' => \A m \in Machines : last'[m] <= now',
           Prompt' /\ Due(g)' => \A m \in Machines : last'[m] < now',
           Prompt' /\ Working(g)' => \A i \in loop'[g].at .. Len(Streams) : last'[Streams[i]] < now'
    PROVE  OneStepAtATime' /\ TicksBefore'
  BY DEF OneStepAtATime, TicksBefore

\* The loop takes the step it waited for in hand.
LEMMA GetStepKeepsPrompt ==
    ASSUME NEW g \in Runs, PromptInv, GetStep(g), LiveInv' PROVE PromptInv'
  <1> DEFINE r == IF streams = 0 \/ Streams = <<>> THEN Waiting
                  ELSE [step |-> "make", ts |-> Head(queue[g]), at |-> 1]
  <1>1. /\ loop[g] = Waiting /\ queue[g] # <<>>
        /\ loop' = [loop EXCEPT ![g] = r] /\ queue' = [queue EXCEPT ![g] = Tail(queue[g])]
        /\ UNCHANGED <<now, running, driver, clockTask, loopTask, stopping, windows, armed, last,
                       behind, overlapped, wrong>>
    BY DEF GetStep, streamVars
  <1>2. Alive(g) /\ r.step \in {"wait", "make"}
    BY <1>1 DEF Alive, Waiting
  <1>3. /\ r.step = "wait" => r = Waiting
        /\ r.step = "make" => r.ts = Head(queue[g]) /\ r.at = 1 /\ Streams # <<>>
    BY DEF Waiting
  <1> HIDE DEF r
  <1>4. /\ OneRunner' /\ Alive(g)' /\ loop'[g] = r
        /\ ~overlapped => \A h \in Runs : Alive(h)' => h = g
    BY <1>1, <1>2, LoopGoesOn
  <1>5. ASSUME Prompt PROVE queue[g] = <<now>>
    <2>1. Idle(g) \/ Due(g) \/ Working(g)
      BY <1>2, <1>5 DEF PromptInv, OneStepAtATime
    <2> QED
      BY <1>1, <2>1 DEF Idle, Due, Working
  <1>6. ASSUME Prompt PROVE queue'[g] = <<>> /\ Head(queue[g]) = now
    <2>1. queue'[g] = Tail(queue[g])
      BY <1>1 DEF PromptInv, LiveInv, Types
    <2>2. Head(<<now>>) = now /\ Tail(<<now>>) = <<>>
      OBVIOUS
    <2> QED
      BY <1>5, <1>6, <2>1, <2>2
  <1>7. ASSUME Prompt PROVE \A m \in Machines : last[m] < now
    <2>1. Due(g)
      BY <1>1, <1>5, <1>7 DEF Due
    <2> QED
      BY <1>2, <1>7, <2>1 DEF PromptInv, TicksBefore
  <1>8. Prompt' <=> Prompt
    BY <1>1 DEF Prompt
  <1>9. Streams # <<>> => 1 \in 1 .. Len(Streams)
    BY LiveAssumption
  <1>10. ASSUME Prompt' PROVE Idle(g)' \/ Working(g)'
    BY <1>1, <1>2, <1>3, <1>4, <1>6, <1>8, <1>9, <1>10 DEF Idle, Working
  <1>11. Prompt' => ~Due(g)'
    <2>1. <<>> # <<now>>
      OBVIOUS
    <2> QED
      BY <1>1, <1>6, <1>8, <2>1 DEF Due
  <1>12. \A i \in 1 .. Len(Streams) : Streams[i] \in Machines
    BY LiveAssumption
  <1>13. ASSUME Prompt', Working(g)' PROVE \A i \in loop'[g].at .. Len(Streams) : last'[Streams[i]] < now'
    <2>1. r.step = "make"
      BY <1>2, <1>3, <1>4, <1>13 DEF Working, Waiting
    <2>2. loop'[g].at = 1
      BY <1>3, <1>4, <2>1
    <2> QED
      BY <1>1, <1>7, <1>8, <1>12, <1>13, <2>2
  <1>14. Prompt' => \A m \in Machines : last'[m] <= now'
    BY <1>1, <1>8 DEF PromptInv, TicksBefore
  <1>15. OneStepAtATime' /\ TicksBefore'
    BY <1>1, <1>4, <1>8, <1>10, <1>11, <1>13, <1>14, OneLoopSuffices DEF Prompt
  <1> QED
    BY <1>1, <1>4, <1>15 DEF PromptInv, HistoryTypes, ForgottenAreOver, PromptIsRight, Prompt

\* What the injector has forgotten was over before this tick, so the tick shows what it
\* would with every window there has been.
LEMMA MakeTickKeepsPrompt ==
    ASSUME NEW g \in Runs, PromptInv, MakeTick(g), LiveInv' PROVE PromptInv'
  <1> DEFINE r == [step |-> "process", ts |-> loop[g].ts, at |-> loop[g].at]
  <1>1. /\ loop[g].step = "make"
        /\ windows' = StillOpen(loop[g].ts)
        /\ loop' = [loop EXCEPT ![g] = r]
        /\ wrong' = IF Prompt /\ InWindow(windows, Streams[loop[g].at], loop[g].ts)
                                   # InWindow(armed, Streams[loop[g].at], loop[g].ts)
                    THEN wrong \cup {"scenario"} ELSE wrong
        /\ UNCHANGED <<now, running, driver, queue, clockTask, loopTask, stopping, armed, last,
                       behind, overlapped>>
    BY DEF MakeTick
  <1>2. Alive(g) /\ r.step = "process" /\ r.ts = loop[g].ts /\ r.at = loop[g].at
    BY <1>1 DEF Alive
  <1> HIDE DEF r
  <1>3. /\ OneRunner' /\ Alive(g)' /\ loop'[g] = r
        /\ ~overlapped => \A h \in Runs : Alive(h)' => h = g
    BY <1>1, <1>2, LoopGoesOn
  <1>4. Prompt' <=> Prompt
    BY <1>1 DEF Prompt
  <1>5. ASSUME Prompt PROVE Working(g)
    <2>1. Idle(g) \/ Due(g) \/ Working(g)
      BY <1>2, <1>5 DEF PromptInv, OneStepAtATime
    <2> QED
      BY <1>1, <2>1 DEF Idle, Due, Waiting
  <1>6. Prompt => Working(g)' /\ ~Due(g)'
    BY <1>1, <1>2, <1>3, <1>5 DEF Working, Due, Waiting
  <1>7. ASSUME Prompt', Working(g)' PROVE \A i \in loop'[g].at .. Len(Streams) : last'[Streams[i]] < now'
    <2>1. \A i \in loop[g].at .. Len(Streams) : last[Streams[i]] < now
      BY <1>2, <1>4, <1>5, <1>7 DEF PromptInv, TicksBefore
    <2> QED
      BY <1>1, <1>2, <1>3, <2>1
  <1>8. Prompt' => \A m \in Machines : last'[m] <= now'
    BY <1>1, <1>4 DEF PromptInv, TicksBefore
  <1>9. OneStepAtATime' /\ TicksBefore'
    BY <1>1, <1>3, <1>4, <1>6, <1>7, <1>8, OneLoopSuffices DEF Prompt
  <1>10. ASSUME Prompt
         PROVE  /\ windows \subseteq armed /\ \A w \in armed \ windows : w.end <= now
                /\ loop[g].ts = now /\ now \in Int /\ \A w \in armed : w.end \in Int
    BY <1>5, <1>10 DEF PromptInv, ForgottenAreOver, Working, LiveInv, Types, HistoryTypes
  <1>11. ForgottenAreOver'
    <2> SUFFICES ASSUME Prompt' PROVE windows' \subseteq armed' /\ \A w \in armed' \ windows' : w.end <= now'
      BY DEF ForgottenAreOver
    <2>1. windows' \subseteq windows /\ armed' = armed /\ now' = now
      BY <1>1 DEF StillOpen
    <2>2. ASSUME NEW w \in armed \ windows' PROVE w.end <= now
      <3>1. CASE w \in windows
        BY <1>1, <1>4, <1>10, <2>2, <3>1 DEF StillOpen
      <3>2. CASE w \notin windows
        BY <1>4, <1>10, <2>2, <3>2
      <3> QED
        BY <3>1, <3>2
    <2> QED
      BY <1>4, <1>10, <2>1, <2>2
  <1>12. ASSUME Prompt, NEW m PROVE InWindow(windows, m, now) = InWindow(armed, m, now)
    <2>1. ASSUME NEW w \in armed, Applies(w, m, now) PROVE w \in windows
      BY <1>10, <1>12, <2>1 DEF Applies
    <2> QED
      BY <1>10, <1>12, <2>1 DEF InWindow
  <1>13. wrong' = wrong
    BY <1>1, <1>10, <1>12
  <1> QED
    BY <1>1, <1>3, <1>9, <1>11, <1>13 DEF PromptInv, HistoryTypes, PromptIsRight

\* The loop goes on to the next machine, whose last tick is of an earlier step.
LEMMA NextStreamOnTime ==
    ASSUME NEW g \in Runs, PromptInv, loop[g].step \in {"make", "process"}, NextStream(g),
           now' = IF Prompt THEN now ELSE now', HistoryTypes',
           UNCHANGED <<running, driver, queue, clockTask, loopTask, stopping, behind, overlapped>>,
           Prompt => \A m \in Machines : last'[m] <= now,
           Prompt => \A i \in loop[g].at + 1 .. Len(Streams) : last'[Streams[i]] = last[Streams[i]]
    PROVE  OneRunner' /\ OneStepAtATime' /\ TicksBefore'
  <1> DEFINE r == IF loop[g].at = Len(Streams) THEN Waiting
                  ELSE [step |-> "make", ts |-> loop[g].ts, at |-> loop[g].at + 1]
  <1>1. loop' = [loop EXCEPT ![g] = r]
    BY DEF NextStream
  <1>2. Alive(g) /\ r.step \in {"wait", "make"}
    BY DEF Alive, Waiting
  <1>3. /\ r.step = "wait" => r = Waiting
        /\ r.step = "make" => r.ts = loop[g].ts /\ r.at = loop[g].at + 1 /\ loop[g].at # Len(Streams)
    BY DEF Waiting
  <1> HIDE DEF r
  <1>4. /\ OneRunner' /\ Alive(g)' /\ loop'[g] = r
        /\ ~overlapped => \A h \in Runs : Alive(h)' => h = g
    BY <1>1, <1>2, LoopGoesOn
  <1>5. Prompt' <=> Prompt
    BY DEF Prompt
  <1>6. ASSUME Prompt PROVE Working(g) /\ now' = now
    <2>1. Idle(g) \/ Due(g) \/ Working(g)
      BY <1>2, <1>6 DEF PromptInv, OneStepAtATime
    <2> QED
      BY <1>6, <2>1 DEF Idle, Due, Waiting
  <1>7. ASSUME Prompt' PROVE Idle(g)' \/ Working(g)'
    <2>1. queue'[g] = <<>> /\ loop[g].ts = now' /\ loop[g].at \in 1 .. Len(Streams)
      BY <1>5, <1>6, <1>7 DEF Working
    <2>2. Len(Streams) \in Nat
      BY LiveAssumption
    <2>3. loop[g].at # Len(Streams) => loop[g].at + 1 \in 1 .. Len(Streams)
      BY <2>1, <2>2
    <2> QED
      BY <1>2, <1>3, <1>4, <2>1, <2>3 DEF Idle, Working
  <1>8. Prompt' => ~Due(g)'
    <2>1. <<>> # <<now'>>
      OBVIOUS
    <2> QED
      BY <1>5, <1>6, <2>1 DEF Due, Working
  <1>9. ASSUME Prompt', Working(g)' PROVE \A i \in loop'[g].at .. Len(Streams) : last'[Streams[i]] < now'
    <2>1. \A i \in loop[g].at .. Len(Streams) : last[Streams[i]] < now
      BY <1>2, <1>5, <1>6, <1>9 DEF PromptInv, TicksBefore
    <2>2. loop'[g].at = loop[g].at + 1
      BY <1>2, <1>3, <1>4, <1>9 DEF Working, Waiting
    <2>3. loop[g].at \in 1 .. Len(Streams) /\ Len(Streams) \in Nat
      BY <1>5, <1>6, <1>9, LiveAssumption DEF Working
    <2>4. \A i \in loop[g].at + 1 .. Len(Streams) : i \in loop[g].at .. Len(Streams)
      BY <2>3
    <2> QED
      BY <1>5, <1>6, <1>9, <2>1, <2>2, <2>4
  <1>10. Prompt' => \A m \in Machines : last'[m] <= now'
    BY <1>5, <1>6
  <1>11. OneStepAtATime' /\ TicksBefore'
    BY <1>4, <1>5, <1>7, <1>8, <1>9, <1>10, OneLoopSuffices DEF Prompt
  <1> QED
    BY <1>4, <1>11

LEMMA SkipTickKeepsPrompt ==
    ASSUME NEW g \in Runs, PromptInv, SkipTick(g), LiveInv' PROVE PromptInv'
  <1>1. /\ loop[g].step \in {"make", "process"} /\ NextStream(g)
        /\ UNCHANGED <<now, running, driver, queue, clockTask, loopTask, stopping, windows, armed,
                       last, behind, overlapped, wrong>>
    BY DEF SkipTick, streamVars
  <1>2. HistoryTypes' /\ ForgottenAreOver'
    BY <1>1 DEF PromptInv, HistoryTypes, ForgottenAreOver, Prompt
  <1>3. Prompt => \A m \in Machines : last'[m] <= now
    BY <1>1 DEF PromptInv, TicksBefore
  <1>4. OneRunner' /\ OneStepAtATime' /\ TicksBefore'
    BY <1>1, <1>2, <1>3, NextStreamOnTime
  <1> QED
    BY <1>1, <1>2, <1>4 DEF PromptInv, PromptIsRight

\* The tick carries the time the clock shows, later than the machine's last one; the
\* machines still to come keep theirs, as no machine is streamed twice.
LEMMA ProcessTickKeepsPrompt ==
    ASSUME StreamedOnce, NEW g \in Runs, NEW commits \in BOOLEAN,
           PromptInv, ProcessTick(g, commits), LiveInv'
    PROVE  PromptInv'
  <1> DEFINE m == Streams[loop[g].at]
             ts == IF commits THEN [last EXCEPT ![m] = loop[g].ts] ELSE last
  <1>1. /\ loop[g].step = "process" /\ now' = loop[g].ts
        /\ wrong' = IF Prompt /\ commits /\ loop[g].ts <= last[m] THEN wrong \cup {"order"} ELSE wrong
        /\ NextStream(g)
        /\ UNCHANGED <<running, driver, queue, clockTask, loopTask, stopping, windows, behind, overlapped>>
        /\ Remember(armed, ts)
    BY DEF ProcessTick, SetClock
  <1>2. loop[g].ts \in Int /\ now \in Int /\ last \in [Machines -> Int]
    BY <1>1 DEF PromptInv, LiveInv, Types, LoopState, HistoryTypes
  <1>3. ts \in [Machines -> Int]
    BY <1>2
  <1>4. HistoryTypes' /\ Kept(armed, ts)
    <2> HIDE DEF ts
    <2> QED
      BY <1>1, <1>3, RememberIs DEF PromptInv, HistoryTypes
  <1>5. Prompt' <=> Prompt
    BY <1>1 DEF Prompt
  <1>6. ASSUME Prompt PROVE Working(g)
    <2>1. Alive(g)
      BY <1>1 DEF Alive
    <2>2. Idle(g) \/ Due(g) \/ Working(g)
      BY <1>6, <2>1 DEF PromptInv, OneStepAtATime
    <2> QED
      BY <1>1, <2>2 DEF Idle, Due, Waiting
  <1>7. ASSUME Prompt
        PROVE  /\ loop[g].ts = now /\ loop[g].at \in 1 .. Len(Streams) /\ m \in Machines
               /\ last[m] < now /\ last' = ts /\ armed' = armed
    <2>1. loop[g].ts = now /\ loop[g].at \in 1 .. Len(Streams)
      BY <1>6, <1>7 DEF Working
    <2>2. Alive(g)
      BY <1>1 DEF Alive
    <2>3. \A i \in loop[g].at .. Len(Streams) : last[Streams[i]] < now
      BY <1>6, <1>7, <2>2 DEF PromptInv, TicksBefore
    <2>4. Len(Streams) \in Nat
      BY LiveAssumption
    <2>5. loop[g].at \in loop[g].at .. Len(Streams)
      BY <2>1, <2>4
    <2>6. m \in Machines
      BY <2>1 DEF Machines
    <2> QED
      BY <1>4, <1>5, <1>7, <2>1, <2>3, <2>5, <2>6 DEF Kept
  <1>8. ASSUME Prompt PROVE \A k \in Machines : last'[k] <= now
    <2>1. \A k \in Machines : last[k] <= now
      BY <1>8 DEF PromptInv, TicksBefore
    <2>2. \A k \in Machines : ts[k] = last[k] \/ ts[k] = loop[g].ts
      BY <1>2
    <2> HIDE DEF ts
    <2> QED
      BY <1>2, <1>7, <1>8, <2>1, <2>2
  <1>9. ASSUME Prompt, NEW i \in loop[g].at + 1 .. Len(Streams)
        PROVE  last'[Streams[i]] = last[Streams[i]]
    <2>1. loop[g].at \in 1 .. Len(Streams) /\ Len(Streams) \in Nat
      BY <1>7, <1>9, LiveAssumption
    <2>2. i \in 1 .. Len(Streams) /\ i # loop[g].at
      BY <2>1
    <2>3. Streams[i] # m
      BY <2>1, <2>2 DEF StreamedOnce
    <2>4. ts[Streams[i]] = last[Streams[i]]
      BY <1>2, <2>3
    <2> HIDE DEF ts, m
    <2> QED
      BY <1>7, <1>9, <2>4
  <1>10. now' = IF Prompt THEN now ELSE now'
    BY <1>1, <1>7
  <1>11. OneRunner' /\ OneStepAtATime' /\ TicksBefore'
    <2> HIDE DEF ts, m
    <2> QED
      BY <1>1, <1>4, <1>8, <1>9, <1>10, NextStreamOnTime
  <1>12. ForgottenAreOver'
    BY <1>1, <1>5, <1>7 DEF PromptInv, ForgottenAreOver
  <1>13. wrong' = wrong
    <2>1. ASSUME Prompt PROVE ~(loop[g].ts <= last[m])
      <3>1. last[m] \in Int
        BY <1>2, <1>7, <2>1
      <3> QED
        BY <1>2, <1>7, <2>1, <3>1
    <2> QED
      BY <1>1, <2>1
  <1> QED
    BY <1>4, <1>11, <1>12, <1>13 DEF PromptInv, PromptIsRight

\* A new window is known to the injector and to the history alike.
LEMMA InjectKeepsPrompt ==
    ASSUME NEW name \in Scenarios, NEW m \in Machines \cup {None},
           PromptInv, Inject(name, m), LiveInv'
    PROVE  PromptInv'
  <1> DEFINE w == [name |-> name, start |-> now, end |-> now + Duration, machine |-> m]
  <1>1. /\ windows' = windows \cup {w} /\ armed' = IF Prompt THEN armed \cup {w} ELSE {}
        /\ UNCHANGED <<now, running, driver, queue, loop, clockTask, loopTask, stopping, last,
                       behind, overlapped, wrong>>
    BY DEF Inject, tasksVars
  <1>2. w.end \in Int
    BY LiveAssumption DEF PromptInv, LiveInv, Types
  <1> HIDE DEF w
  <1>3. HistoryTypes'
    BY <1>1, <1>2 DEF PromptInv, HistoryTypes
  <1>4. ForgottenAreOver'
    BY <1>1 DEF PromptInv, ForgottenAreOver, Prompt
  <1> QED
    BY <1>1, <1>3, <1>4 DEF PromptInv, OneRunner, OneStepAtATime, TicksBefore, PromptIsRight,
       Alive, Prompt, Idle, Due, Working

LEMMA PromptStep == StreamedOnce /\ PromptInv /\ [Next]_vars => PromptInv'
  <1> SUFFICES ASSUME StreamedOnce, PromptInv, [Next]_vars PROVE PromptInv'
    OBVIOUS
  <1>1. LiveInv'
    BY LiveStep DEF PromptInv
  <1>2. CASE UNCHANGED vars
    BY <1>1, <1>2 DEF vars, tasksVars, streamVars, PromptInv, HistoryTypes, OneRunner,
       OneStepAtATime, TicksBefore, ForgottenAreOver, PromptIsRight, Alive, Prompt, Idle, Due,
       Working
  <1>3. CASE Next
    BY <1>1, <1>3, RequestStartKeepsPrompt, CompleteStartKeepsPrompt, StopClockKeepsPrompt,
       CancelLoopKeepsPrompt, FinishStopKeepsPrompt, AdvanceClockKeepsPrompt, GetStepKeepsPrompt, MakeTickKeepsPrompt,
       SkipTickKeepsPrompt, ProcessTickKeepsPrompt, InjectKeepsPrompt DEF Next
  <1> QED
    BY <1>2, <1>3

\* As long as the loop keeps up and no start overlaps another or a stop, a machine's
\* ticks carry increasing times, and each shows exactly the scenarios whose window it
\* lies in (stream.py, scenarios.py): for any machines, each streamed once, any windows, any
\* tick that fails, and over any number of stops and starts.
THEOREM PromptLoopIsRight == StreamedOnce => (Spec => []PromptIsRight)
  <1> SUFFICES ASSUME StreamedOnce PROVE Spec => []PromptIsRight
    OBVIOUS
  <1>1. Init => PromptInv
    BY PromptStarts
  <1>2. PromptInv /\ [Next]_vars => PromptInv'
    BY PromptStep
  <1>3. PromptInv => PromptIsRight
    BY DEF PromptInv
  <1> QED
    BY <1>1, <1>2, <1>3, PTL DEF Spec
====

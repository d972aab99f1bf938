------------------------------ MODULE ShiftEnd ------------------------------
(***************************************************************************)
(* The end of a shift on one machine: the behavior engine, which measures  *)
(* engine and idle time and finds habits tick by tick; the check and the   *)
(* summary that close a shift, when the machine moves to another one or    *)
(* the presenter asks for it; and the hour meter, which the cloud moves by *)
(* each summary and sends back to the edge.  Translated from               *)
(* app/edge/behavior, app/edge/shift_summary.py, the tick pipeline,        *)
(* app/cloud/maintenance.py and the handlers of the two messages.          *)
(*                                                                         *)
(* A tick is one transaction, so is a request to end the shift; both run   *)
(* on one event loop and overlap wherever they await the database.  A      *)
(* reading is what the detectors tell apart; summaries are counted in      *)
(* seconds.  The two detectors of repeated incidents are the same code     *)
(* with a count each; one of them is modelled.                             *)
(***************************************************************************)
EXTENDS Integers, FiniteSets, Sequences, SequencesExt

CONSTANTS
    Shifts,
    Readings,     \* readings a tick may have
    Gaps,         \* seconds that may pass between ticks
    Nominal,      \* sim_tick_seconds
    GapCap,       \* max_tick_gap_seconds
    IdleLimit,    \* excessive_idling_seconds
    TravelLimit,  \* high_rpm_travel_sustained_seconds
    Repeats,      \* incidents that make a habit
    IdlePercent,  \* baseline plus its margin, in percent
    Serial,       \* TRUE: a request never overlaps a tick
    MaxTicks,     \* bound: ticks stored
    MaxEngines,   \* bound: behavior engines built
    MaxFailures,  \* bound: transactions that roll back
    MaxDead       \* bound: dead letters, of both directions

ASSUME ShiftAssumption ==
    /\ IsFiniteSet(Shifts)
    /\ Readings \subseteq {"off", "idle", "waiting", "travel", "incident"}
    /\ Gaps \subseteq Nat \ {0}
    /\ Nominal \in Nat /\ GapCap \in Nat
    /\ IdleLimit \in Nat \ {0} /\ TravelLimit \in Nat \ {0} /\ Repeats \in Nat \ {0}
    /\ IdlePercent \in Nat /\ Serial \in BOOLEAN
    /\ MaxTicks \in Nat /\ MaxEngines \in Nat /\ MaxFailures \in Nat /\ MaxDead \in Nat

VARIABLES
    clock,      \* sim_now()
    rows,       \* the machine's telemetry rows, in order
    events,     \* behavior_event rows
    engines,    \* every behavior engine built: its shift, memory and effects
    current,    \* the engine of the machine's context, 0 if none
    tick,       \* the tick transaction
    end,        \* the request to end the shift
    failures,
    summaries,  \* shift_summary messages in the edge outbox
    machines,   \* machine_master messages in the cloud outbox
    snapshots,  \* machine_master messages queued so far
    dead,       \* dead letters of each kind
    deadCount,
    hours,      \* the cloud's shift_summary rows: seconds per shift
    meter,      \* the cloud's hour meter
    edgeMeter,  \* the edge's copy
    inboxSeq,   \* the newest machine_master in the edge inbox
    \* History
    closed,     \* the engines whose summary was queued, in order
    left,       \* engines the machine moved on from
    announced,  \* coaching messages sent
    applied     \* summaries applied in the cloud

edgeVars  == <<clock, rows, events, engines, current, tick, end, failures, closed, left,
               announced>>
cloudVars == <<hours, meter, edgeMeter, inboxSeq, applied>>
messageVars == <<summaries, machines, snapshots, dead, deadCount>>
vars == <<edgeVars, cloudVars, messageVars>>

-----------------------------------------------------------------------------
NoTime == -1
Spans == {"excessive_idling", "high_rpm_travel"}
Limit(d) == IF d = "excessive_idling" THEN IdleLimit ELSE TravelLimit

\* A wait on a blocked task is idle time, but not the operator's idling.  An
\* incident is a working tick on which one opens.
Idle == {"idle", "waiting"}
Running == {"idle", "waiting", "travel", "incident"}
Continues(d, reading) == IF d = "excessive_idling" THEN reading = "idle" ELSE reading = "travel"

\* What checkpoint saves.
Fresh == [engine |-> 0, idle |-> 0, last |-> NoTime,
          span |-> [d \in Spans |-> NoTime], emitted |-> [d \in Spans |-> {}],
          opened |-> <<>>, noticed |-> FALSE, ended |-> FALSE]

NoTick == [pc |-> "idle"]
NoEnd == [pc |-> "idle"]

Init ==
    /\ clock = 0 /\ rows = <<>> /\ events = <<>>
    /\ engines = <<>> /\ current = 0
    /\ tick = NoTick /\ end = NoEnd /\ failures = 0
    /\ summaries = {} /\ machines = {} /\ snapshots = 0 /\ deadCount = 0
    /\ dead = [kind \in {"summary", "machines"} |-> {}]
    /\ hours = [s \in Shifts |-> 0] /\ meter = 0 /\ edgeMeter = 0 /\ inboxSeq = 0
    /\ closed = <<>> /\ left = {} /\ announced = {} /\ applied = {}

-----------------------------------------------------------------------------
\* The behavior engine.  Each step maps a memory to a memory and an event.

AtMost(a, b) == IF a <= b THEN a ELSE b

\* _tick_seconds
TickSeconds(mem, at) ==
    IF mem.last = NoTime THEN Nominal ELSE AtMost(at - mem.last, GapCap)

Measured(mem, row) ==
    LET seconds == TickSeconds(mem, row.at) IN
    [mem EXCEPT !.last = row.at,
                !.engine = @ + (IF row.reading \in Running THEN seconds ELSE 0),
                !.idle = @ + (IF row.reading \in Idle THEN seconds ELSE 0)]

\* update of the two span detectors: one event per span.
NeverEmitted(mem, d, row) ==   \* mutant
    Continues(d, row.reading) /\ mem.span[d] # NoTime /\ row.at - mem.span[d] >= Limit(d)
Emits(mem, d, row) ==
    /\ Continues(d, row.reading) /\ mem.span[d] # NoTime
    /\ row.at - mem.span[d] >= Limit(d)
    /\ mem.span[d] \notin mem.emitted[d]

Spanned(mem, row) ==
    [mem EXCEPT
        !.span = [d \in Spans |-> IF ~Continues(d, row.reading) THEN NoTime
                                  ELSE IF @[d] = NoTime THEN row.at ELSE @[d]],
        !.emitted = [d \in Spans |-> IF Emits(mem, d, row) THEN @[d] \cup {mem.span[d]}
                                                           ELSE @[d]]]

Event(kind, e, start, at) ==
    [kind |-> kind, by |-> e, shift |-> engines[e].shift, start |-> start, end |-> at]

\* record_incident, called by the safety engine before the detectors run.
Counted(mem, row) ==
    IF row.reading # "incident" THEN mem
    ELSE LET opened == Append(mem.opened, row.at)
         IN  [mem EXCEPT !.opened = opened, !.noticed = @ \/ Len(opened) >= Repeats]

Found(mem, e, row) ==
    {Event(d, e, mem.span[d], row.at) : d \in {d \in Spans : Emits(mem, d, row)}}
    \cup IF Counted(mem, row).noticed /\ ~mem.noticed
         THEN {Event("repeated", e, Counted(mem, row).opened[1], row.at)} ELSE {}

\* on_shift_end of an engine that has not ended its shift.
HighIdleRatio(mem, e, at) ==
    IF mem.idle * 100 > IdlePercent * mem.engine
    THEN {Event("high_idle_ratio", e, NoTime, at)} ELSE {}

\* build_shift_summary: each tick stands for the time since the one before it
\* in its shift, the first for one nominal tick.
TicksOf(shift) == {i \in DOMAIN rows : rows[i].shift = shift}
Stands(ticks, i) ==
    LET before == {j \in ticks : j < i} IN
    IF before = {} THEN AtMost(Nominal, GapCap)
    ELSE AtMost(rows[i].at - rows[CHOOSE j \in before : \A k \in before : k <= j].at, GapCap)
Seconds(ticks, kinds) ==
    SumFunction([i \in {j \in ticks : rows[j].reading \in kinds} |-> Stands(ticks, i)])

\* queue_shift_summary.
Summary(e, seconds) ==
    [seq |-> Len(closed) + 1, shift |-> engines[e].shift, seconds |-> seconds]

\* A close that did happen queues its summary when its transaction commits.
Queue(e, seconds) ==
    /\ summaries' = summaries \cup {Summary(e, seconds)}
    /\ closed' = Append(closed, e)

\* persist_and_broadcast: the row waits for the commit, the message for the
\* flush after it.
Remember(e, mem, found) == [engines[e] EXCEPT !.mem = mem, !.effects = @ \cup found]
Persist(found) == events' = events \o SetToSeq(found)
Flushed(ids) == [e \in DOMAIN engines |-> IF e \in ids THEN [engines[e] EXCEPT !.effects = {}]
                                                       ELSE engines[e]]
Send(ids) ==
    /\ announced' = announced \cup UNION {engines[e].effects : e \in ids}
    /\ engines' = Flushed(ids)

\* restore: the memory of the checkpoint, and no effects.
KeepMemory(saved) ==   \* mutant
    Flushed(DOMAIN saved)
Restored(saved) ==
    [e \in DOMAIN engines |->
        IF e \in DOMAIN saved THEN [engines[e] EXCEPT !.mem = saved[e], !.effects = {}]
                              ELSE engines[e]]

-----------------------------------------------------------------------------
\* The tick: engines of its shift, close of the shift before, then the tick
\* itself, the commit, and what waits for the commit.

\* _context_for: a new engine when the machine has none or its shift changed.
Changes(shift) == current = 0 \/ engines[current].shift # shift
Previous(shift) == IF current # 0 /\ Changes(shift) THEN {current} ELSE {}
Context(shift) == IF Changes(shift) THEN Len(engines) + 1 ELSE current
WithContext(shift) ==
    IF Changes(shift)
    THEN Append(engines, [shift |-> shift, mem |-> Fresh, effects |-> {}]) ELSE engines

\* on_shift_end marks the shift ended before it awaits anything.
Closes(e) == ~engines[e].mem.ended
Ended(mem) == [mem EXCEPT !.ended = TRUE]

BeginTick(shift, reading, gap) ==
    /\ tick.pc = "idle"
    /\ Serial => end.pc = "idle"
    /\ Len(rows) < MaxTicks
    /\ Changes(shift) => Len(engines) < MaxEngines
    /\ LET before == Previous(shift)
           ctx == Context(shift)
           closing == {e \in before : Closes(e)}
           found == UNION {HighIdleRatio(engines[e].mem, e, clock + gap) : e \in closing}
           all == WithContext(shift)
       IN  /\ tick' = [pc |-> "observe", ctx |-> ctx, before |-> before, closing |-> closing,
                       saved |-> [e \in before \cup {ctx} |-> all[e].mem],
                       found |-> found, seconds |-> 0,
                       row |-> [shift |-> shift, at |-> clock + gap, reading |-> reading,
                                by |-> ctx]]
           /\ engines' = [e \in DOMAIN all |->
                            IF e \in closing
                            THEN Remember(e, Ended(engines[e].mem), found) ELSE all[e]]
    /\ UNCHANGED <<cloudVars, messageVars, clock, rows, events, current, end, failures,
                   closed, left, announced>>

\* build_shift_summary of the shift that closes, then ingest_tick.
ObserveTick ==
    /\ tick.pc = "observe"
    /\ LET e == tick.ctx
           mem == engines[e].mem
           found == Found(mem, e, tick.row)
           after == Spanned(Measured(Counted(mem, tick.row), tick.row), tick.row)
       IN  /\ engines' = [engines EXCEPT ![e] = Remember(e, after, found)]
           /\ tick' = [tick EXCEPT !.pc = "commit", !.found = @ \cup found,
                          !.seconds = SumFunction(
                              [c \in tick.closing |-> Seconds(TicksOf(engines[c].shift), Running)])]
    /\ clock' = tick.row.at
    /\ UNCHANGED <<cloudVars, messageVars, rows, events, current, end, failures,
                   closed, left, announced>>

CommitTick ==
    /\ tick.pc = "commit"
    /\ rows' = Append(rows, tick.row)
    /\ Persist(tick.found)
    /\ IF tick.closing = {} THEN UNCHANGED <<summaries, closed>>
       ELSE \E e \in tick.closing : Queue(e, tick.seconds)
    /\ tick' = [tick EXCEPT !.pc = "finish"]
    /\ UNCHANGED <<cloudVars, machines, snapshots, dead, deadCount, clock, engines, current,
                   end, failures, left, announced>>

\* A new engine that was not installed goes with its tick.
Discarded(all) == IF tick.ctx # current THEN SubSeq(all, 1, tick.ctx - 1) ELSE all

RollbackTick ==
    /\ tick.pc \in {"observe", "commit"} /\ failures < MaxFailures
    /\ engines' = Discarded(Restored(tick.saved))
    /\ tick' = NoTick
    /\ failures' = failures + 1
    /\ UNCHANGED <<cloudVars, messageVars, clock, rows, events, current, end,
                   closed, left, announced>>

\* _install, then the effects of both engines.
FinishTick ==
    /\ tick.pc = "finish"
    /\ current' = tick.ctx
    /\ left' = left \cup tick.before
    /\ Send(tick.before \cup {tick.ctx})
    /\ tick' = NoTick
    /\ UNCHANGED <<cloudVars, messageVars, clock, rows, events, end, failures, closed>>

-----------------------------------------------------------------------------
\* The request to end the shift.

BeginEnd ==
    /\ end.pc = "idle" /\ current # 0
    /\ Serial => tick.pc = "idle"
    /\ Closes(current)
    /\ LET mem == engines[current].mem
           found == HighIdleRatio(mem, current, clock)
       IN  /\ end' = [pc |-> "summary", eng |-> current, saved |-> mem, found |-> found,
                      seconds |-> 0]
           /\ engines' = [engines EXCEPT ![current] = Remember(current, Ended(mem), found)]
    /\ UNCHANGED <<cloudVars, messageVars, clock, rows, events, current, tick, failures,
                   closed, left, announced>>

\* The shift has ended already: nothing to write, but the effects are sent.
EndAgain ==
    /\ end.pc = "idle" /\ current # 0
    /\ Serial => tick.pc = "idle"
    /\ ~Closes(current)
    /\ Send({current})
    /\ UNCHANGED <<cloudVars, messageVars, clock, rows, events, current, tick, end, failures,
                   closed, left>>

SummarizeEnd ==
    /\ end.pc = "summary"
    /\ end' = [end EXCEPT !.pc = "commit",
                          !.seconds = Seconds(TicksOf(engines[end.eng].shift), Running)]
    /\ UNCHANGED <<cloudVars, messageVars, clock, rows, events, engines, current, tick,
                   failures, closed, left, announced>>

CommitEnd ==
    /\ end.pc = "commit"
    /\ Persist(end.found)
    /\ Queue(end.eng, end.seconds)
    /\ end' = [end EXCEPT !.pc = "flush"]
    /\ UNCHANGED <<cloudVars, machines, snapshots, dead, deadCount, clock, rows, engines,
                   current, tick, failures, left, announced>>

RollbackEnd ==
    /\ end.pc \in {"summary", "commit"} /\ failures < MaxFailures
    /\ engines' = Restored([e \in {end.eng} |-> end.saved])
    /\ end' = NoEnd
    /\ failures' = failures + 1
    /\ UNCHANGED <<cloudVars, messageVars, clock, rows, events, current, tick,
                   closed, left, announced>>

FlushEnd ==
    /\ end.pc = "flush"
    /\ Send({end.eng})
    /\ end' = NoEnd
    /\ UNCHANGED <<cloudVars, messageVars, clock, rows, events, current, tick, failures,
                   closed, left>>

\* The runner stops (reset drops the engines; a request goes on with its own)
\* or the process restarts.  The shift is not closed.
Stop(process) ==
    /\ current # 0 /\ Len(engines) < MaxEngines
    /\ tick' = NoTick /\ current' = 0
    /\ engines' = IF tick.pc \in {"observe", "commit"} THEN Discarded(engines) ELSE engines
    /\ end' = IF process THEN NoEnd ELSE end
    /\ UNCHANGED <<cloudVars, messageVars, clock, rows, events, failures, closed, left,
                   announced>>

-----------------------------------------------------------------------------
\* The messages, delivered in order unless one became a dead letter.

IsFirst(m, queue) == m \in queue /\ \A n \in queue : m.seq <= n.seq

\* apply_shift_summary and add_shift_hours: the meter moves by the difference
\* to the summary there was.
WholeSummary(m) == m.seconds   \* mutant
Delta(m) == m.seconds - hours[m.shift]

ApplySummary(m) ==
    /\ IsFirst(m, summaries)
    /\ summaries' = summaries \ {m}
    /\ applied' = applied \cup {m}
    /\ hours' = [hours EXCEPT ![m.shift] = m.seconds]
    /\ IF Delta(m) = 0 THEN UNCHANGED <<meter, machines, snapshots>>
       ELSE /\ meter' = meter + Delta(m)
            /\ snapshots' = snapshots + 1
            /\ machines' = machines \cup {[seq |-> snapshots', meter |-> meter']}
    /\ UNCHANGED <<edgeVars, edgeMeter, inboxSeq, dead, deadCount>>

\* apply_machine_master
NewerSnapshotApplied(m) == inboxSeq > m.seq

ApplyMachines(m) ==
    /\ IsFirst(m, machines)
    /\ machines' = machines \ {m}
    /\ edgeMeter' = IF NewerSnapshotApplied(m) THEN edgeMeter ELSE m.meter
    /\ inboxSeq' = IF inboxSeq > m.seq THEN inboxSeq ELSE m.seq
    /\ UNCHANGED <<edgeVars, hours, meter, applied, summaries, snapshots, dead, deadCount>>

DeadLetter(kind, m) ==
    /\ deadCount < MaxDead
    /\ IsFirst(m, IF kind = "summary" THEN summaries ELSE machines)
    /\ dead' = [dead EXCEPT ![kind] = @ \cup {m}]
    /\ summaries' = IF kind = "summary" THEN summaries \ {m} ELSE summaries
    /\ machines' = IF kind = "machines" THEN machines \ {m} ELSE machines
    /\ deadCount' = deadCount + 1
    /\ UNCHANGED <<edgeVars, cloudVars, snapshots>>

Retry(kind, m) ==
    /\ m \in dead[kind]
    /\ dead' = [dead EXCEPT ![kind] = @ \ {m}]
    /\ summaries' = IF kind = "summary" THEN summaries \cup {m} ELSE summaries
    /\ machines' = IF kind = "machines" THEN machines \cup {m} ELSE machines
    /\ UNCHANGED <<edgeVars, cloudVars, snapshots, deadCount>>

-----------------------------------------------------------------------------
Next ==
    \/ \E s \in Shifts, reading \in Readings, gap \in Gaps : BeginTick(s, reading, gap)
    \/ ObserveTick \/ CommitTick \/ RollbackTick \/ FinishTick
    \/ BeginEnd \/ EndAgain \/ SummarizeEnd \/ CommitEnd \/ RollbackEnd \/ FlushEnd
    \/ \E process \in BOOLEAN : Stop(process)
    \/ \E m \in summaries : ApplySummary(m) \/ DeadLetter("summary", m)
    \/ \E m \in machines : ApplyMachines(m) \/ DeadLetter("machines", m)
    \/ \E kind \in {"summary", "machines"} : \E m \in dead[kind] : Retry(kind, m)

Spec == Init /\ [][Next]_vars

-----------------------------------------------------------------------------
TypeOK ==
    /\ clock \in Nat /\ current \in 0 .. Len(engines) /\ Len(engines) <= MaxEngines
    /\ Len(rows) <= MaxTicks
    /\ \A i \in DOMAIN rows : rows[i].shift \in Shifts /\ rows[i].reading \in Readings
    /\ \A e \in DOMAIN engines :
          /\ engines[e].shift \in Shifts
          /\ engines[e].mem.engine \in Nat /\ engines[e].mem.idle \in 0 .. engines[e].mem.engine
          /\ engines[e].mem.last \in {NoTime} \cup 0 .. clock
    /\ tick.pc \in {"idle", "observe", "commit", "finish"}
    /\ end.pc \in {"idle", "summary", "commit", "flush"}
    /\ failures \in 0 .. MaxFailures /\ deadCount \in 0 .. MaxDead
    /\ \A m \in summaries \cup dead["summary"] \cup applied :
          m.seq \in 1 .. Len(closed) /\ m.shift \in Shifts /\ m.seconds \in Nat
    /\ \A m \in machines \cup dead["machines"] : m.seq \in 1 .. snapshots /\ m.meter \in Nat
    /\ hours \in [Shifts -> Nat] /\ meter \in Nat /\ edgeMeter \in Nat
    /\ inboxSeq \in 0 .. snapshots

-----------------------------------------------------------------------------
\* No transaction is open.
Settled == tick.pc = "idle" /\ end.pc = "idle"

\* The ticks an engine has measured: those it stored.
RowsBy(e) == {i \in DOMAIN rows : rows[i].by = e}
Closings(e) == Cardinality({i \in DOMAIN closed : closed[i] = e})

\* The engine's accumulators are those of the stored ticks, measured as the
\* summary measures them (shift_summary.py: "the same rule the behavior engine
\* uses, so both agree when ticks arrive at uneven intervals").
SecondsAgree ==
    current # 0 => LET mem == engines[current].mem IN
        /\ mem.engine = Seconds(RowsBy(current), Running)
        /\ mem.idle = Seconds(RowsBy(current), Idle)

\* An engine closes its shift once: it believes so if the summary was queued,
\* and never leaves a shift behind unreported (on_shift_end: "Runs at most once
\* per shift").
ClosedOnce ==
    /\ \A e \in DOMAIN engines : Closings(e) <= 1
    /\ \A e \in left : Closings(e) = 1
    /\ current # 0 => engines[current].mem.ended = (Closings(current) = 1)

\* What the engine remembers is what was committed, whatever was rolled back
\* before: seconds measured, shift closed (pipeline.py: "their in-memory state
\* never runs ahead of the database").
MemoryCommitted == Settled => SecondsAgree /\ ClosedOnce

\* The events a run of stored ticks calls for: one for each span of idling or
\* fast travel that reached its limit, at the tick that did, and one at the
\* incident that makes a habit.
Holds(d, ticks, i) == i \in ticks /\ Continues(d, rows[i].reading)
SpanEvents(e, d) ==
    LET ticks == RowsBy(e)
        starts == {i \in ticks : Holds(d, ticks, i) /\ ~Holds(d, ticks, i - 1)}
        reached(i) == {j \in ticks : /\ \A k \in i .. j : Holds(d, ticks, k)
                                     /\ j > i /\ rows[j].at - rows[i].at >= Limit(d)}
    IN  {Event(d, e, rows[i].at, rows[CHOOSE j \in reached(i) : \A k \in reached(i) : j <= k].at) :
            i \in {i \in starts : reached(i) # {}}}

HabitEvents(e) ==
    LET incidents == {i \in RowsBy(e) : rows[i].reading = "incident"}
        nth(n) == CHOOSE i \in incidents : Cardinality({j \in incidents : j <= i}) = n
    IN  IF Cardinality(incidents) < Repeats THEN {}
        ELSE {Event("repeated", e, rows[nth(1)].at, rows[nth(Repeats)].at)}

\* Every habit found is on record once and no other is; the coaching messages
\* sent are those of committed events (behavior/engine.py: "sent only after it
\* commits").
EventsExact ==
    Settled => \A e \in DOMAIN engines :
        LET found == {i \in DOMAIN events :
                         events[i].by = e /\ events[i].kind # "high_idle_ratio"}
            ratios == {i \in DOMAIN events :
                         events[i].by = e /\ events[i].kind = "high_idle_ratio"}
            expected == HabitEvents(e) \cup UNION {SpanEvents(e, d) : d \in Spans}
        IN  /\ {events[i] : i \in found} = expected
            /\ Cardinality(found) = Cardinality(expected)
            /\ Cardinality(ratios) <= Closings(e)
            /\ announced \subseteq ToSet(events)

\* The cloud's meter is the sum of the shifts' summaries, however often and in
\* whatever order they came, and the edge has it once the machine lists are
\* through (apply_shift_summary: "a repeated summary never counts its hours
\* twice").
MeterExact ==
    /\ meter = SumFunction(hours)
    /\ machines = {} /\ dead["machines"] = {} => edgeMeter = meter

\* A summary of a shift is not overwritten by an older one
\* (edge_to_cloud.py: "updates are skipped when the row already holds a newer
\* message").
SummaryNewest ==
    \A m \in applied :
        (\A n \in applied : n.shift = m.shift => n.seq <= m.seq) => hours[m.shift] = m.seconds

=============================================================================

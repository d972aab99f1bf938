---------------------------- MODULE SafetyEngine ----------------------------
(***************************************************************************)
(* The incidents of one machine: the safety engine that opens, escalates   *)
(* and closes them tick by tick, the operator who acknowledges them, and   *)
(* the demo clock that runs at 1x while any of them is unresolved.         *)
(* Translated from app/edge/safety/engine.py, acknowledgement.py,          *)
(* app/edge/telemetry/pipeline.py, api/routes/operator.py and              *)
(* simulator/live/clock_driver.py.                                         *)
(*                                                                         *)
(* A rule is what HazardLifecycle says it is: at each tick it opens,       *)
(* escalates or closes its incident, or leaves it.  A tick is one database *)
(* transaction; so is a request.  Everything runs on one event loop, so    *)
(* another coroutine gets in wherever the code awaits the database.  A     *)
(* transaction commits the columns it changed.                             *)
(***************************************************************************)
EXTENDS Integers, FiniteSets, Sequences, SequencesExt

CONSTANTS
    NumRules,      \* rules of the engine, evaluated in order
    Serial,        \* TRUE: a request never overlaps a tick
    MaxIncidents,  \* bound: incidents, which are numbered as they open
    MaxContexts,   \* bound: engines built, one per shift and restart
    MaxFailures,   \* bound: ticks that roll back
    MaxDegraded    \* bound: rules that raise

ASSUME EngineAssumption ==
    /\ NumRules \in Nat \ {0}
    /\ Serial \in BOOLEAN
    /\ MaxIncidents \in Nat /\ MaxContexts \in Nat /\ MaxFailures \in Nat
    /\ MaxDegraded \in Nat

Rules == 1 .. NumRules
Incidents == 1 .. MaxIncidents
NoIncident == 0

VARIABLES
    db,         \* the edge's incident rows
    cloud,      \* the row each incident's newest outbox message carries
    engines,    \* every engine built; the old one lives on in an open tick
    installed,  \* the registered engine, 0 if none
    built,      \* engines installed so far
    tick,       \* the tick transaction
    ack,        \* the acknowledgement request
    slow,       \* _open_incident_count of the clock driver
    calm,       \* readings have cleared for good
    failures,
    degradings,
    \* History
    tracked,    \* committed incidents of the engines since the last stop
    announced   \* incidents broadcast as opened

vars == <<db, cloud, engines, installed, built, tick, ack, slow, calm, failures,
          degradings, tracked, announced>>

-----------------------------------------------------------------------------
NoRow == [status |-> "none", severity |-> "none", ended |-> FALSE, acked |-> FALSE,
          manual |-> FALSE]

\* hazard is a rule's severity while its machine is in an incident.
Fresh == [hazard     |-> [r \in Rules |-> "none"],
          openId     |-> [r \in Rules |-> NoIncident],
          degraded   |-> {},
          unresolved |-> {},
          effects    |-> <<>>]

NoTick == [pc |-> "idle"]
NoAck == [pc |-> "idle"]

Init ==
    /\ db = [i \in Incidents |-> NoRow] /\ cloud = [i \in Incidents |-> NoRow]
    /\ engines = [e \in 1 .. MaxContexts |-> Fresh]
    /\ installed = 0 /\ built = 0
    /\ tick = NoTick /\ ack = NoAck
    /\ slow = 0 /\ calm = FALSE /\ failures = 0 /\ degradings = 0
    /\ tracked = {} /\ announced = {}

Merge(row, old, new) ==
    [f \in DOMAIN row |-> IF new[f] # old[f] THEN new[f] ELSE row[f]]

\* The next incident: not committed, nor opened in the tick's transaction.
Used == {i \in Incidents : db[i].status # "none"}
            \cup (IF tick.pc = "rules" THEN DOMAIN tick.rows ELSE {})
IsNextId(i) == i \in Incidents \ Used /\ \A j \in 1 .. i - 1 : j \in Used

-----------------------------------------------------------------------------
\* Effects: sent in order, and only then is the count what they made it.

CountDown(n) == IF n > 0 THEN n - 1 ELSE 0
Counted(start, effects) ==
    LET count[n \in 0 .. Len(effects)] ==
            IF n = 0 THEN start
            ELSE CASE effects[n].kind = "slow" -> count[n - 1] + 1
                   [] effects[n].kind = "normal" -> CountDown(count[n - 1])
                   [] effects[n].kind = "announce" -> count[n - 1]
    IN  count[Len(effects)]

Sent(effects) ==
    /\ slow' = Counted(slow, effects)
    /\ announced' = announced \cup {x.id : x \in {y \in ToSet(effects) : y.kind = "announce"}}

\* flush_effects takes the effects and leaves none.
Flushed(e) == [e EXCEPT !.effects = <<>>]
Holding(e, unresolved) == [e EXCEPT !.unresolved = unresolved]

MarkUnresolved(e, i) ==
    [e EXCEPT !.unresolved = @ \cup {i},
              !.effects = @ \o <<[kind |-> "slow", id |-> i], [kind |-> "announce", id |-> i]>>]

AlwaysNotify(e, i) ==   \* mutant
    [e EXCEPT !.unresolved = @ \ {i}, !.effects = Append(@, [kind |-> "normal", id |-> i])]
MarkResolved(e, i) ==
    IF i \notin e.unresolved THEN e
    ELSE [e EXCEPT !.unresolved = @ \ {i},
                   !.effects = Append(@, [kind |-> "normal", id |-> i])]

-----------------------------------------------------------------------------
\* The tick: checkpoint, rules in order, commit, then the effects.

\* _context_for: the engine of the tick's shift, built anew when it changed.
BeginTick(ctx) ==
    /\ tick.pc = "idle"
    /\ Serial => ack.pc = "idle"
    /\ \/ ctx = installed /\ UNCHANGED engines
       \/ /\ ctx = built + 1 /\ ctx <= MaxContexts
          /\ engines' = [engines EXCEPT ![ctx] = Fresh]
    /\ ctx # 0
    /\ tick' = [pc |-> "rules", ctx |-> ctx, next |-> 1, saved |-> engines', rows |-> <<>>]
    /\ UNCHANGED <<db, cloud, installed, built, ack, slow, calm, failures, degradings,
                   tracked, announced>>

\* A row as the transaction has it: loaded once, then its own.
Loaded(i) == IF i \in DOMAIN tick.rows THEN tick.rows[i]
                                       ELSE [old |-> db[i], new |-> db[i]]
WithRow(i, new) ==
    [j \in DOMAIN tick.rows \cup {i} |-> IF j = i THEN [old |-> Loaded(i).old, new |-> new]
                                                  ELSE tick.rows[j]]

\* What the engine holds of a rule: its hazard and its open incident.
Believes(e, r, severity, i) ==
    [e EXCEPT !.hazard = [@ EXCEPT ![r] = severity], !.openId = [@ EXCEPT ![r] = i]]

Evaluates(r) == tick.pc = "rules" /\ r = tick.next
Engine == engines[tick.ctx]
SetEngine(e) == engines' = [engines EXCEPT ![tick.ctx] = e]
Proceed(rows) ==
    tick' = [pc |-> "rules", ctx |-> tick.ctx, next |-> tick.next + 1, saved |-> tick.saved,
             rows |-> rows]

Unaffected == UNCHANGED <<db, cloud, installed, built, ack, slow, calm, failures,
                          tracked, announced>>

\* A degraded rule is skipped; another one may leave its incident as it is,
\* unless the readings have cleared for good.
LeaveRule(r) ==
    /\ Evaluates(r)
    /\ calm /\ r \notin Engine.degraded => Engine.hazard[r] = "none"
    /\ Proceed(tick.rows)
    /\ UNCHANGED <<engines, degradings>> /\ Unaffected

OpenIncident(r, severity) ==
    /\ Evaluates(r) /\ r \notin Engine.degraded /\ ~calm
    /\ Engine.hazard[r] = "none"
    /\ \E i \in Incidents :
          /\ IsNextId(i)
          /\ SetEngine(MarkUnresolved(Believes(Engine, r, severity, i), i))
          /\ Proceed(WithRow(i, [NoRow EXCEPT !.status = "open", !.severity = severity]))
    /\ UNCHANGED degradings /\ Unaffected

EscalateIncident(r) ==
    /\ Evaluates(r) /\ r \notin Engine.degraded /\ ~calm
    /\ Engine.hazard[r] = "warning"
    /\ SetEngine(Believes(Engine, r, "critical", Engine.openId[r]))
    /\ LET i == Engine.openId[r] IN
            Proceed(WithRow(i, [Loaded(i).new EXCEPT !.severity = "critical"]))
    /\ UNCHANGED degradings /\ Unaffected

\* status_after_hazard_clears
ResolveCritical(severity, status) == "resolved"   \* mutant
StatusAfterClear(severity, status) ==
    IF severity = "warning" \/ status = "acknowledged" THEN "resolved" ELSE status

CloseIncident(r) ==
    /\ Evaluates(r) /\ r \notin Engine.degraded
    /\ Engine.hazard[r] # "none"
    /\ LET i == Engine.openId[r]
           row == Loaded(i).new
           status == StatusAfterClear(row.severity, row.status)
           closed == Believes(Engine, r, "none", NoIncident)
       IN  /\ SetEngine(IF status = "resolved" THEN MarkResolved(closed, i) ELSE closed)
           /\ Proceed(WithRow(i, [row EXCEPT !.ended = TRUE, !.status = status]))
    /\ UNCHANGED degradings /\ Unaffected

\* The rule raises: it is out until its engine is replaced.
DegradeRule(r) ==
    /\ degradings < MaxDegraded
    /\ Evaluates(r) /\ r \notin Engine.degraded
    /\ SetEngine([Engine EXCEPT !.degraded = @ \cup {r}])
    /\ degradings' = degradings + 1
    /\ Proceed(tick.rows)
    /\ Unaffected

\* queue_incident copies the row as it is after the change.
Copied(row) == row.new

CommitTick ==
    /\ tick.pc = "rules" /\ tick.next > NumRules
    /\ LET rows == tick.rows IN
        /\ db' = [i \in Incidents |-> IF i \in DOMAIN rows
                                      THEN Merge(db[i], rows[i].old, rows[i].new) ELSE db[i]]
        /\ cloud' = [i \in Incidents |-> IF i \in DOMAIN rows THEN Copied(rows[i]) ELSE cloud[i]]
        /\ tracked' = tracked \cup {i \in DOMAIN rows : rows[i].old = NoRow}
    /\ tick' = [pc |-> "committed", ctx |-> tick.ctx]
    /\ UNCHANGED <<engines, installed, built, ack, slow, calm, failures, degradings,
                   announced>>

KeepEngines(saved) == [e \in DOMAIN saved |-> [engines[e] EXCEPT !.effects = <<>>]]   \* mutant
KeepQueued(saved) == [e \in DOMAIN saved |-> [saved[e] EXCEPT !.effects = engines[e].effects]]   \* mutant
Restored(saved) ==
    [e \in DOMAIN saved |-> [saved[e] EXCEPT !.effects = <<>>]]

\* restore: the checkpoint does not hold the effects, which are dropped.
RollbackTick ==
    /\ tick.pc = "rules" /\ failures < MaxFailures
    /\ engines' = Restored(tick.saved)
    /\ tick' = NoTick
    /\ failures' = failures + 1
    /\ UNCHANGED <<db, cloud, installed, built, ack, slow, calm, degradings, tracked,
                   announced>>

\* After the commit: install a new engine, hand it the unresolved incidents,
\* send the old engine's effects and then its own.
FinishTick ==
    /\ tick.pc = "committed"
    /\ LET e == tick.ctx IN
       IF e = installed
       THEN /\ Sent(engines[e].effects)
            /\ engines' = [engines EXCEPT ![e] = Flushed(@)]
            /\ UNCHANGED <<installed, built>>
       ELSE /\ installed' = e /\ built' = e
            /\ IF installed = 0
               THEN /\ Sent(engines[e].effects)
                    /\ engines' = [engines EXCEPT ![e] = Flushed(@)]
               ELSE /\ Sent(engines[installed].effects \o engines[e].effects)
                    /\ engines' = [engines EXCEPT
                            ![e] = Flushed(Holding(engines[e],
                                engines[e].unresolved \cup engines[installed].unresolved)),
                            ![installed] = Flushed(Holding(engines[installed], {}))]
    /\ tick' = NoTick
    /\ UNCHANGED <<db, cloud, ack, calm, failures, degradings, tracked>>

-----------------------------------------------------------------------------
\* Requests of the operator.

\* acknowledge, on a stationary machine.
AckAlways(row) == [row EXCEPT !.acked = TRUE, !.status = "acknowledged"]   \* mutant
Acknowledged(row) ==
    IF row.status = "resolved" THEN row
    ELSE [row EXCEPT !.acked = TRUE,
                     !.status = IF row.ended THEN "resolved" ELSE "acknowledged"]

BeginAck(i) ==
    /\ ack.pc = "idle"
    /\ Serial => tick.pc = "idle"
    /\ db[i].status # "none"
    /\ ack' = [pc |-> "commit", id |-> i, old |-> db[i], new |-> Acknowledged(db[i])]
    /\ UNCHANGED <<db, cloud, engines, installed, built, tick, slow, calm, failures,
                   degradings, tracked, announced>>

CommitAck ==
    /\ ack.pc = "commit"
    /\ db' = [db EXCEPT ![ack.id] = Merge(@, ack.old, ack.new)]
    /\ cloud' = [cloud EXCEPT ![ack.id] = Copied(ack)]
    /\ ack' = IF ack.new.status = "resolved" THEN [pc |-> "notify", id |-> ack.id] ELSE NoAck
    /\ UNCHANGED <<engines, installed, built, tick, slow, calm, failures, degradings,
                   tracked, announced>>

\* incident_resolved of the registered engine: all its effects are sent.
NotifyResolved ==
    /\ ack.pc = "notify"
    /\ IF installed = 0
       THEN UNCHANGED <<engines, slow, announced>>
       ELSE LET e == MarkResolved(engines[installed], ack.id) IN
            /\ Sent(e.effects)
            /\ engines' = [engines EXCEPT ![installed] = Flushed(e)]
    /\ ack' = NoAck
    /\ UNCHANGED <<db, cloud, installed, built, tick, calm, failures, degradings, tracked>>

\* A manual report: its hazard time is over when it is filed.
ReportManual(i) ==
    /\ Serial => tick.pc = "idle"
    /\ IsNextId(i)
    /\ db' = [db EXCEPT ![i] = [NoRow EXCEPT !.status = "open", !.severity = "warning",
                                             !.ended = TRUE, !.manual = TRUE]]
    /\ cloud' = [cloud EXCEPT ![i] = db'[i]]
    /\ UNCHANGED <<engines, installed, built, tick, ack, slow, calm, failures, degradings,
                   tracked, announced>>

\* LiveRunner.stop: the tick is cancelled, engines and count are dropped.
Stop ==
    /\ installed # 0 /\ built < MaxContexts
    /\ Serial => ack.pc = "idle"
    /\ tick' = NoTick
    /\ installed' = 0 /\ slow' = 0
    /\ tracked' = {}
    /\ UNCHANGED <<db, cloud, engines, built, ack, calm, failures, degradings, announced>>

HazardsEnd ==
    /\ ~calm /\ calm' = TRUE
    /\ UNCHANGED <<db, cloud, engines, installed, built, tick, ack, slow, failures,
                   degradings, tracked, announced>>

-----------------------------------------------------------------------------
TickStep ==
    \/ \E r \in Rules :
          \/ LeaveRule(r) \/ EscalateIncident(r) \/ CloseIncident(r) \/ DegradeRule(r)
          \/ \E severity \in {"warning", "critical"} : OpenIncident(r, severity)
    \/ CommitTick \/ FinishTick

Next ==
    \/ \E ctx \in 1 .. MaxContexts : BeginTick(ctx)
    \/ TickStep \/ RollbackTick
    \/ \E i \in Incidents : BeginAck(i) \/ ReportManual(i)
    \/ CommitAck \/ NotifyResolved
    \/ Stop \/ HazardsEnd

Spec == Init /\ [][Next]_vars

\* The clock driver keeps ticking whatever requests come (no request holds up
\* its loop: serving them one at a time is this model's abstraction, hence SF),
\* coroutines that can run do, and the operator acknowledges what is
\* unresolved.
FairSpec ==
    /\ Spec
    /\ SF_vars(BeginTick(installed)) /\ WF_vars(TickStep)
    /\ WF_vars(CommitAck) /\ WF_vars(NotifyResolved)
    /\ \A i \in Incidents : SF_vars(BeginAck(i) /\ db[i].status # "resolved")

-----------------------------------------------------------------------------
Rows == [status : {"none", "open", "acknowledged", "resolved"},
         severity : {"none", "warning", "critical"},
         ended : BOOLEAN, acked : BOOLEAN, manual : BOOLEAN]

TypeOK ==
    /\ db \in [Incidents -> Rows] /\ cloud \in [Incidents -> Rows]
    /\ installed \in {0, built} /\ built \in 0 .. MaxContexts
    /\ \A e \in 1 .. MaxContexts :
            /\ engines[e].hazard \in [Rules -> {"none", "warning", "critical"}]
            /\ engines[e].openId \in [Rules -> Incidents \cup {NoIncident}]
            /\ engines[e].degraded \subseteq Rules
            /\ engines[e].unresolved \subseteq Incidents
    /\ tick.pc \in {"idle", "rules", "committed"}
    /\ ack.pc \in {"idle", "commit", "notify"}
    /\ slow \in 0 .. MaxIncidents

\* Between transactions.
AtRest == tick.pc = "idle" /\ ack.pc = "idle"

\* The engine believes in an incident exactly when it was committed: a rule's
\* open incident is a row whose hazard goes on, of the severity the rule has.
BeliefsCommitted ==
    tick.pc = "idle" /\ installed # 0 =>
        LET e == engines[installed] IN
        \A r \in Rules :
            /\ e.hazard[r] = "none" <=> e.openId[r] = NoIncident
            /\ e.openId[r] # NoIncident =>
                    LET row == db[e.openId[r]] IN
                    row.status # "none" /\ ~row.ended /\ row.severity = e.hazard[r]

\* The clock runs at 1x for exactly the incidents that are not resolved.
AutoSlowExact ==
    AtRest /\ installed # 0 =>
        LET open == {i \in tracked : db[i].status # "resolved"} IN
        engines[installed].unresolved = open /\ slow = Cardinality(open)

\* A warning resolves when its hazard clears, a critical incident when it has
\* been acknowledged too, a report when it has been acknowledged.
ResolvedWhenDone ==
    AtRest => \A i \in Incidents :
        LET row == db[i] IN
        row.status = "resolved" <=>
            row.ended /\ (row.acked \/ (row.severity = "warning" /\ ~row.manual))

\* What is visible outside is committed ("Everything visible outside the
\* engine ... is queued and only sent by flush_effects() after the commit").
AnnouncedCommitted == \A i \in announced : db[i].status # "none"

\* The last message about an incident says what its row says.
MessagesCurrent == AtRest => cloud = db

\* Between transactions an incident has the status its hazard and its
\* acknowledgement give it, and the cloud is told so.
IncidentsSettled == ResolvedWhenDone /\ MessagesCurrent

\* Every engine incident whose hazard goes on has a rule that will close it.
SomebodyCloses ==
    AtRest /\ installed # 0 =>
        \A i \in tracked : db[i].ended \/ \E r \in Rules : engines[installed].openId[r] = i

\* Once the hazards are over and the operator has acknowledged, the clock
\* returns to the selected speed, as long as no rule raises and the shift does
\* not change.
AutoSlowEnds ==
    <>calm /\ [](degradings = 0 /\ built <= 1) => <>[](slow = 0)

=============================================================================

# SAFE2GO: models and proofs

SAFE2GO runs on two tiers. The *edge* sits on a machine: it takes telemetry
ticks, watches seven safety rules, guides the operator through tasks and works
offline. The *cloud* plans shifts and tasks and collects what the edges report.
Between them are two channels: a transactional outbox per direction, drained by
one worker, and a data stream through Kafka. This directory holds TLA+ modules
of the parts whose correctness depends on the order of things, the TLC runs
that check them on small instances, and TLAPS proofs of the most important
results for every value of the constants.

`PROJECT.json` lists components, runs, mutants (one per property: a plausible
bug that the property catches), the source lines each definition translates, the
findings, the hazards and the theorems. Paths below are relative to
`src/backend/app/` unless they start with `src/` or `simulator/` (which is
`src/backend/simulator/`).

## 1. Inventory

| Component | State it keeps | Operations | Talks to |
|---|---|---|---|
| Sync delivery (`sync/worker.py`, `outbox.py`) | outbox, inbox and dead-letter tables of each direction; per-direction backoff | enqueue (in the caller's transaction), a delivery pass, record a failure, dead-letter, retry a dead letter, start/stop | every service that enqueues; the handlers; `core/connectivity.py`, `core/clock.py` |
| Task ownership (`cloud/assignment/service.py`, `edge/tasks/service.py`, `sync/handlers/`) | the task row on each tier, `sync_seq` / `edge_sync_seq`, `sync_conflict` rows | create, cancel, reassign; start, pause, resume, block, complete; progress by ticks; the four task handlers | sync delivery both ways; the tick pipeline |
| Assignment validation (`cloud/assignment/`, `cloud/conflicts/`) | the cloud's shifts, tasks and conflicts | create a shift; create, move and cancel a task; review a conflict | task ownership; credentials; ETA |
| Safety rule (`edge/safety/state_machine.py`, `escalation.py`, `rules/`) | state, three timestamps, severity, the rolling window of warnings | evaluate a reading, hold on an unknown reading, reset | called by the safety engine |
| Safety engine (`edge/safety/engine.py`, `acknowledgement.py`, `edge/telemetry/pipeline.py`) | one slot per rule with its open incident, the unresolved set, the effect queue; incident rows | process a tick, flush or drop effects, checkpoint/restore, acknowledge, manual report, change of shift, reset | rules; incident outbox; WebSocket; `simulator/live/clock_driver.py` |
| Data stream (`edge/stream/`, `cloud/stream/`, `stream/`) | spool table, forwarder memory, Kafka log and offsets, archive, gap, event and rollup tables | spool a tick or event, enforce the limit, a forwarding pass, poll and store, commit offsets, recompute rollups | tick pipeline; Kafka |
| Behavior engine (`edge/behavior/`, `edge/shift_summary.py`, `cloud/maintenance.py`) | span starts, engine and idle seconds, `_shift_ended`; the cloud's summary rows and hour meter | per-tick detectors, end of shift, checkpoint/restore, apply a summary | tick pipeline; sync delivery both ways; coaching |
| Baselines (`cloud/baselines/service.py`, `edge/behavior/baselines.py`) | median and MAD per operator and per machine type, on both tiers | compute, publish, apply, judge a shift | shift summaries; sync delivery |
| ETA (`cloud/eta/`, `edge/eta/`, `shared/eta_aggregates.py`, `src/backend/ml/`) | the aggregate tables of both tiers; the pause, block and revision columns of a task | train, deploy, publish, apply; estimate at assignment, revise on a tick | finished tasks and summaries; the tick pipeline |
| Credentials and sign-in (`cloud/credentials/`, `edge/auth/`, `edge/shift.py`) | accounts, roster, shifts and offline credentials on both tiers | create an account, issue with a shift or an account, apply, sign in offline | assignment; sync delivery |
| Training and shift reports (`edge/training/`, `cloud/training/`, `*/shift_report.py`) | the catalog of each tier; recommendations, quiz results | publish a catalog, recommend, submit a quiz, the operator's and the admin's report | safety and behavior engine; sync delivery |
| WebSocket manager (`api/ws/`) | connections per machine, updates held until a snapshot is sent | connect, broadcast, snapshot, disconnect | pipeline, engine, behavior, operator requests |
| Live simulator (`simulator/live/`, `core/clock.py`) | the simulation clock, the step queue, the running task and scenario windows, the work cycle | start, stop, advance, one tick per machine, inject a scenario, slow down | ingest; every component that reads the clock |
| Batch simulator (`simulator/batch/`, `src/backend/evaluation/`) | one generated shift | plan tasks and injected windows, generate ticks, summarise, replay the detectors, score | writes the tables the ETA and the baselines learn from |
| Maintenance suggestion, assistant, admin and system API, configuration, ML fit, console | none of their own, or rows written by others | queries, thin handlers, offline tools | |

What makes this system hard to test, and where the properties aim:

* **Two deliverers.** The app's worker and a script (seeding, the rehearsals)
  may drain one outbox at the same time. Only row locks
  (`FOR UPDATE SKIP LOCKED`), the inbox key and the order of commits protect
  the receiver.
* **Two owners.** A task belongs to the cloud until it is started and to the
  edge afterwards, and each tier hears of the other late, in another order, or
  after a dead letter was put back by hand.
* **Check, then write.** Nothing is locked between the checks of an admin's
  request and its insert, nor between a tick's read of a task and its commit.
* **Memory beside transactions.** The safety engine keeps in memory what the
  tick's transaction writes. A tick that rolls back restores a checkpoint, on an
  event loop that runs requests wherever the tick awaits the database.
* **Time.** The simulation clock can be set back, and is when a tick comes late;
  hold times, cooldowns and rolling windows meet their boundaries exactly on a
  tick; the dead-letter window runs on the wall clock.
* **At-least-once.** A batch may be stored by the broker and not acknowledged,
  a consumer may stop between the database commit and the offset commit, the
  spool may overflow while the link is down.
* **One rule, two implementations.** The edge and the generator judge idling,
  the edge and the cloud report a shift, training and the deployed table look up
  a history: each pair has to agree.

Per component, correctness means:

* *delivery*: each message applied once, none lost, none overtaken, the row never
  older than a message applied to it, progress once the link is back;
* *tasks*: both tiers agree when nothing is in flight, every refused change is on
  record, a started task is the edge's;
* *plan*: nobody is booked twice and no task is where it does not fit, except by
  requests that overlapped;
* *rule*: nothing opens or closes without the readings its hold times ask for,
  nothing that lasts is missed, severity follows the thresholds;
* *engine*: memory equals the committed rows, the demo clock is slow exactly while
  an incident is unresolved, nothing is announced that was not committed;
* *stream*: every record is stored, on its way, or counted in one gap, and resent
  ticks are counted once;
* *end of a shift*: what the engine remembers is what was committed, each habit is
  on record once, and the hour meter is the sum of the newest summaries;
* *ETA*: a training row does not know its own outcome, the deployed table gives
  the history the model was trained on, a task's minutes are those it was worked
  on;
* *baselines and batch history*: the two judgements and the two summaries agree,
  injected idling and fast travel are found and nothing else is;
* *sign-in*: an operator with an account can sign in offline to the current shift, or
  to the next one in advance;
* *training and reports*: admin and operator read the same shift;
* *console*: a live client shows what is stored of every item that requests and ticks
  change, one at a time; what the sync worker changes it shows late (section 5);
* *live clock*: ticks are in order while the loop keeps up, and no setback is for
  good.

The full list is `hazards` in `PROJECT.json`, each at its line with the
properties that would catch it.

## 2. Modules

| Module | What it is |
|---|---|
| `SyncDelivery`, `MCSyncDelivery` | one direction of the outbox; which row each message updates |
| `TaskSync`, `MCTaskSync` | one task on both tiers, over both directions; which moves the admin makes |
| `AssignmentPlan`, `MCAssignmentPlan` | several admins planning shifts and tasks at once; two of everything |
| `HazardLifecycle` | abstract: what a safety rule promises |
| `RuleStateMachine` | one rule of any of the seven kinds |
| `SafetyEngine` | incidents of one machine: ticks, requests, clock driver |
| `StreamPipeline`, `MCStreamPipeline` | spool, forwarder, broker, consumer, tables; whose the first record is |
| `ShiftEnd`, `MCShiftEnd` | behavior engine, closing a shift, its summary, the hour meter; the symmetry of shifts |
| `LiveClock`, `MCLiveClock` | the live demo's clock, step queue, loop and scenarios; two machines |
| `EtaAggregates` | the history behind the ETA |
| `EtaTask` | the time of a task, and when and to what its ETA is revised |
| `SignIn` | accounts, shifts, credentials and the offline sign-in |
| `StatePush` | snapshot and updates of the console |
| `ShiftRecords` | records, training and the two reports of a shift |
| `IdleBaselines` | the idle baselines and the two judgements by them |
| `BatchShift` | one generated shift, its summary, events and scores |
| `MCCabin` | the last seven for TLC, with their tables and examples |
| `SyncDeliveryProofs`, `TaskSyncProofs`, `AssignmentPlanProofs`, `SafetyEngineProofs`, `StreamPipelineProofs`, `LiveClockProofs`, `CabinProofs`, `HistoryProofs` | the theorems |

The modules compose through their contracts. `TaskSync` uses delivery as
`SyncDelivery` establishes it (in order, at most once, possibly a dead letter
put back) instead of repeating its rows, and so do `AssignmentPlan`, `ShiftEnd`,
`SignIn`, `ShiftRecords`, `EtaAggregates` and `IdleBaselines`; `SafetyEngine`
uses a rule as `HazardLifecycle` describes it, which `RuleStateMachine` is proved
to implement; `EtaTask` and the components that read the clock let it go back as
`LiveClock` shows it may.

### SyncDelivery

A message is a model value; its outbox row is `seq`, `replaySeq`, `createdAt`,
the attempt and failure columns; `outbox` / `delivered` / `dead` say which table
holds it. `inbox` and `row` are the receiver. A deliverer (`Workers`, which poll
for ever and back off, and `Scripts`, which make one pass and respect no
backoff) goes through `BeginPass` (reads the link and the ordered ids) and, for
each id, one of `Take` (locks the row; reads inbox), `SkipDelivered`, `EndPass`
(not ready, or locked by another), then `ApplyDuplicate`, `Apply` or `Fail`
(the transaction of `worker.py:136-150`), then `RecordFailure` or `DeadLetter`
in a transaction of its own and `HoldBack` for the backoff. `Enqueue`,
`CommitEnqueue` and `AbortEnqueue` are the caller's transaction: the sequence is
drawn before the commit, so rows may appear out of order. `Crash` drops a
deliverer with its open transaction; `Retry` is the admin's button; `SetClock`
sets the simulation clock forwards or backwards; `ToggleLink` and `RealTime` are
the environment. `Poison` messages always fail, `Flaky` ones may.

### TaskSync

`cloud` and `edge` are the two rows with the columns the protocol reads; the
assignment's other fields are one number (`asg`), `actual_start` is `start`.
Every database transaction is a `Begin...` action, which reads a row and
computes the new one, and a `Commit`, which writes the columns it changed over
whatever the row has become by then (`Merge`, the ORM's UPDATE). With
`Serial = TRUE` transactions do not overlap. `BeginCreate`, `BeginReassign`,
`BeginCancel` are the admin's services (for an admin and a colleague),
`BeginOperator` the five task actions, `BeginTick` a tick that
records load cycles, `BeginApply` the handlers in each direction, whose effect
is `FromCloud` (`Assigned`, `Cancelled`) and `FromEdge` (with `Conflict`).
`DeadLetter` and `Retry` set a message of a kind in `MayFail` aside and put it
back. What a cancelled task was assigned to is not compared (`Agree`): a move
that arrives after the cancellation is skipped, and nobody reads it.

### AssignmentPlan

`shifts` and `tasks` are the cloud's rows, `booking` and `placing` the requests in
progress. A shift request is `CheckShift` (`validate_shift` on the rows it reads)
and `InsertShift`; a task request is `BeginCreate`, `BeginReassign` or
`BeginCancel` (the guard of the route and what it reads of the task), then
`PlaceTask` or `PlaceByDefault` (the asked or the next free slot, checked against
the other tasks as they are at that moment: `Fits`) and `WriteTask`. The edge is
`Deliver`, `EdgeStart`, and the worker's `ReadReport` and `WriteReport`, which
records a conflict and puts the task back where the edge works on it;
`ResolveConflict` is the admin's review. `raced` remembers which requests
overlapped in time: the properties say that a bad plan needs such a pair.

### RuleStateMachine and HazardLifecycle

A reading is the hazard's level on the scale of the rule's four thresholds;
`Kind` chooses between the five hysteresis rules, the seatbelt rule (two grace
times) and the operator-seated rule (no hold time). `Evaluate` is one tick:
`FromIdle`, `FromPending`, `FromActive`, `FromClearing`, `FromClosed`, or
`HoldUnknown` for a faulty sensor, then the repeat tracker (`RecordAndCheck`).
`Steps` are the possible seconds between ticks. `HazardLifecycle` has a clock,
the open incident's severity and the time of the last close; its promise is the
docstring of `state_machine.py`: one incident at a time, warnings may become
critical, nothing opens within the silence after a close.

### SafetyEngine

`engines` is the memory of each engine built, `db` the incident rows, `cloud`
the row of each incident's newest message, `slow` the clock driver's count of
open incidents. A tick is `BeginTick` (checkpoint, and a new engine when the
shift changed), one step per rule (`OpenIncident`, `EscalateIncident`,
`CloseIncident`, `LeaveRule`, `DegradeRule`), then `CommitTick` and `FinishTick`
(adopt the previous engine's unresolved incidents, install, flush the effects) or
`RollbackTick` (restore). `BeginAck`/`CommitAck`/`NotifyResolved` are the
acknowledgement request, `ReportManual` the operator's own report, `Stop` the
runner's stop. With `Serial = TRUE` a request does not start during a tick.

### StreamPipeline

A pass of the forwarder finds the link up or down (`BeginPass(reachable)`).
A record is `[seq, kind, machine, minute, lost]`, `lost` being the seqs whose
number a gap record carries. `Spool`, `Commit` and `Rollback` are the writers
(the tick, and an operator's request). A pass of the forwarder is `BeginPass`,
`EnforceLimit` (drops the oldest ticks and writes one gap per machine), `Gaps`,
`ReadBatch`, `Send` (the broker takes and acknowledges any prefix of each
partition's records, and may take more than it acknowledges) and `FinishPass`
(deletes what was acknowledged contiguously per machine), or fails. The consumer
is `Fetch`, `Store` (insert what is new, recompute the minutes touched) and
`CommitOffsets`, or `ConsumerFails`. `Crash` restarts the process that runs
both.

### ShiftEnd

A tick is a row `[shift, at, reading, by]`; a reading is what the detectors tell
apart (engine off, idling, waiting on a blocked task, travelling fast, a working
tick on which an incident opens), `by` the engine that measured it. An engine's
`mem` is what `BehaviorEngine.checkpoint` saves, `effects` what waits for the
flush. `Measured`, `Spanned` and `Counted` are the accumulators and detectors.
A tick is `BeginTick` (the engine of its shift, the check that closes the
previous one), `ObserveTick` (the summary of the shift that closes, then the
detectors), `CommitTick` and `FinishTick` (install, flush) or `RollbackTick`
(restore). `BeginEnd`, `SummarizeEnd`, `CommitEnd` and `FlushEnd`, or
`RollbackEnd`, are the request to end the shift; `EndAgain` is that request once
the shift has ended. With `Serial = TRUE` the two do not overlap. `Stop` is the
runner's stop or a restart. A summary's seconds are what
`build_shift_summary` computes from the stored rows (`Stands`, `Seconds`); its
sequence is drawn at the commit. `ApplySummary` moves the cloud's meter and
queues the machine list, `ApplyMachines` brings it to the edge; `DeadLetter` and
`Retry` set a message of either direction aside and put it back. Hours and
ratios are whole seconds and percent. The two repeat detectors are the same code
with a count each, one is modelled.

### LiveClock

`now` and `running` are `core/clock.py`; each start has a clock task (`driver`),
a step queue and a loop task. `AdvanceClock` is one iteration of the driver (step
the clock, put the step, dropping it when the queue is full), `GetStep`,
`MakeTick` or `SkipTick`, and `ProcessTick` one of the loop, which sets the clock
to the tick's timestamp (`edge/telemetry/ingest.py:59`). `RequestStart` and
`CompleteStart` are the two halves of a start; a stop is `StopClock`, `CancelLoop`
(whose end it awaits, and a start may get in between) and `FinishStop`; `Inject`
arms a scenario. An action is what a task does between two awaits.

### The seven of MCCabin

They share no variable, and none reads what another writes, so `MCCabin` lets a
behavior be one component's, named by `part`: interleaving them would reach no
state of any that it does not reach alone.

* `EtaAggregates`: `FinishTask` and `CloseShift` add to the history, `Train` reads
  it (`TrainingHistory` leaves out the task and its shift's summary; `Resolve`
  walks from the operator to the skill group and from the machine to the fleet),
  `PublishReference` and `ApplyReference` copy the table to the edge.
* `EtaTask`: `BeginAction`/`CommitAction` are the operator's requests on a row
  (`Acted`, with `Held` and `Release` for the pause and block columns),
  `MakeTick`, `ReadTask` and `CommitTick`/`FailTick` the work cycle of
  `simulator/live/stream.py` and the tick that counts its loads and revises the
  ETA (`Trigger`, `Revised`). Both write the columns they changed (`Merge`).
  `PassMinute` moves the clock, which a tick still on its way sets back (by at most
  `MaxBack`).
* `SignIn`: `BeginShift`/`CommitShift` and
  `BeginAccount`/`IssueCredentials`/`CommitAccount` are the admin's requests, each
  issuing the credentials it sees are due; `ApplyRoster`, `ApplyShift` and
  `ApplyCredential` the handlers; `MaySignIn` is `verify_offline_credential` on
  the current shift.
* `StatePush`: `Change` is a commit of a request or a tick, `Route` takes the clients
  from the registry, `Send` reaches one of them; `Deliver` is a commit of the sync
  worker's handlers (`cloud_to_edge.py:123-174`), which nothing follows; `Connect`, `ReadItem`, `SendSnapshot`, `TakeHeld`,
  `SendHeld` are the connection's catching up, `Disconnect` its loss.
* `ShiftRecords`: `OpenIncident`, `Escalate`, `ReportIncident`, `RecordEvent` with
  the training they recommend (or fail to), `SubmitQuiz` on a parked machine,
  `PublishCatalog`/`ApplyContent` down and `ApplyRecord` up; `EdgeReport` and
  `CloudReport` are the two `shift_report.py`.
* `IdleBaselines`: `Summarise`, `ComputeBaselines` and `PublishBaselines`, `ApplyBaselines`;
  `Flagged` is the edge's judgement, `FlaggedInBatch` the generator's.
* `BatchShift`: `TaskTick` and `BetweenTick` are one tick of the generator, with
  the injected window in force (`Phases`, `Rolled`: each tick of a task rolls on its
  own, also right after a gap or a window); `FileShift` computes actuals, statuses, summary
  and events of the finished shift.

## 3. Runs

All bounds are CONSTANTS named in the module with the word *bound*.

| Run | Checks | Instance |
|---|---|---|
| `sync_two_deliverers` | `AppliedOnce`, `NothingLost`, `NoOvertaking` | two messages, a worker and a script, one of the messages may fail, one retry, one crash, window 1, clock two values |
| `sync_live` | `TypeOK`, `NewestApplied`, `EventuallySettled` | two messages for one row, the worker alone, clock that may go back, one retry, one crash, a link that drops and returns |
| `tasks_crossing` | `Reconciled`, `ReportsRight`, `EdgeOwnsStarted`, `EventuallyAgree` | three shifts, three admin changes, three reports, one load cycle, two dead letters of any kind in `MayFail` (not the assignment) |
| `plan_admins` | `PlanExplained`, `StartedAgrees` | two admins, operators, machines, shifts and tasks, three windows to ask for, four task requests |
| `rule_proximity` | `RuleInv`, `OpensAfterHold`, `ClosesAfterClear`, `ImplementsLifecycle` | debounce 2, clearing 2, cooldown 3, ticks 1 or 2 s apart, 14 s |
| `rule_seatbelt` | `NoticedInTime`, `SeverityExplained` | grace times 1 and 2, three warnings in 12 s, 25 s |
| `engine_serial` | `BeliefsCommitted`, `AutoSlowExact`, `IncidentsSettled`, `AnnouncedCommitted`, `AutoSlowEnds` | two rules, two incidents, two engines, one rollback, one degraded rule |
| `engine_early_send` | *violated:* `AnnouncedCommitted` | requests may overlap a tick |
| `stream_faults` | `Accounted`, `TablesExact`, `EventuallyStored` | two machines, one minute, three records, a spool of one, batches of two, one fault, the link up or down at any pass |
| `shift_close` | `MemoryCommitted`, `EventsExact`, `MeterExact` | two shifts, two engines, three ticks, four readings, one rollback, one dead letter |
| `live_demo` | `PromptIsRight`, `FloorRises`, `TimePasses` | two machines, queue of two, two callers and starts, one scenario of two steps, clock up to 3 |
| `cabin` | `HistoryRight`, `ElapsedIsWorked`, `NothingUndone`, `SignInReady`, `ViewCurrent`, `ReportsAgree`, `JudgedAlike`, `HistorySound` | one of seven components per behavior; its instance in `cabin.cfg` and `MCCabin` |

What they show. `sync_two_deliverers` and `sync_live`: the row locks, the inbox
key and the order of a pass make delivery exactly-once and in order for each
receiver, and the queue drains. `tasks_crossing`: ownership changes hands cleanly however the
messages cross. `plan_admins`: the checks of one request are right on what it
read, so that a bad plan is always the work of two that overlapped (or of a conflict that put a
task back); that it *can* happen then is section 5. `rule_*`, `engine_serial`: an
incident has behind it what the thresholds ask for, and memory, rows, messages
and the auto-slow count follow it through rollbacks and restarts. `stream_faults`
and `shift_close`: nothing is lost silently or counted twice. `live_demo`: what a
loop that falls behind may do to time, and what it may not. `cabin`: each of the
seven keeps its promise in every order of its own messages, transactions and
clock.

Why the bounds are enough. *Delivery:* the races are between two deliverers over
one row, and between two messages for one receiving row; a third of either
repeats one of these. One retry, one crash and one failing message suffice to
reach each transition; the link changes twice, so that it is lost and returns;
section 5 says what a second retry does.
*Tasks:* the protocol distinguishes the current assignment, the one the edge
holds and one in flight: three shifts and three changes. Three reports allow
start, a pause or load cycle, and one more, and two dead letters put any two
messages in the wrong order, in one direction or one in each. *Plan:* every check
compares a request with one other row, and every race is between two
transactions; the three windows overlap, meet and miss one another, and four task
requests create both tasks and move or cancel each. *Rule:* each hold time spans at
least two ticks, so that "reached exactly", "passed by a longer tick" and "not
reached" all happen, and the time bound allows an open, escalation, close,
cooldown and a second open; the seatbelt run is long enough for the fourth warning to fall
into a second window. *Engine:* two incidents let one be unresolved while another
opens or resolves (the count goes 0-1-2-1-0), two engines are one shift change
or one restart. *Stream:* with a spool of one record the third record overflows
it while a batch of two is out; one fault can hit any step, and a resend meets
an overflow in between; the model asks whether the link is up at the start of a pass
because the code reads it there and nowhere else. The machines are alike until
the first record, so `MCStreamPipeline` gives that one to the first
(`FirstFromA`). *End of a shift:* three
ticks are the start, the limit and the tick after it of a span, or two incidents
that make a habit around another reading; a gap of 2 is under the cap of 3, the
gap left by a tick that rolled back over it; two engines are a change of shift,
or a restart within one, which closes it twice. The fast-travel detector is the
idling detector with another condition and limit, so the runs leave its reading out. The
two shifts are interchangeable, which `SYMMETRY` uses. *Live clock:* a queue of
two drops the third step, two starts overlap, follow one another or come in the middle of a stop, and a
scenario of two steps begins, goes on and ends. *Cabin:* a task with a target of
three passes the pace threshold of 25 % and is revised before it is done; its two
requests are interchangeable, and so are the two admins who create accounts and shifts,
also two accounts of one operator at once. The sign-in has two shifts of one operator
with an hour between them, so that there is one being worked, one to come and one over;
an operator's credentials depend on no other operator's. Two writers are
enough for one to be overtaken, and one item the sync worker changes beside one it does not; the tables have
an operator with enough samples, one with too few, and a group of one; the
generated shift has room for three of the four tasks drawn, the injected
idling and travelling are longer than the detectors' limits, as configured, and a gap of
two ticks followed by an idle moment is one short of the idling limit of four.

`CHECK_DEADLOCK FALSE` is set where the bounds or the
finished work really leave nothing to do; a rule's clock stutters at its bound,
so its runs check deadlock.

### Fairness

* `SyncDelivery!FairSpec`: the app's worker polls in an endless loop
  (`worker.py:328-336`), so its steps are weakly fair; a script finishes the
  pass it began; backoff and wall-clock time pass. No fairness for messages being
  queued, retries, crashes or the link: `EventuallySettled` assumes that it stays up in
  the end, and with `MaxToggles = 2` it goes down and comes back on the way.
* `TaskSync!FairSpec`: an open transaction ends, and the worker keeps delivering
  (what `EventuallySettled` gives). Nobody is obliged to start, move, cancel or
  retry: `EventuallyAgree` assumes that no dead letter is left behind.
* `SafetyEngine!FairSpec`: telemetry keeps arriving at the installed engine and
  a tick or request in progress ends. `BeginTick` is strongly fair because
  `Serial` lets requests disable it again and again, which in the code they
  do not. `AutoSlowEnds` is conditional on readings that have cleared, no
  degraded rule and no shift change: see section 5 for what happens otherwise.
* `StreamPipeline!FairSpec`: both loops run for ever (`forwarder.py:152`,
  `consumer.py:87`) and a backoff ends; faults are finitely many. That passes
  find the link up again and again is the environment's part: `EventuallyStored`
  assumes it (`LinkReturns`), the specification does not.
* `LiveClock!FairSpec`: the event loop runs every task that can go on, and a stop
  that has begun ends. Nobody is obliged to start or stop: `TimePasses` assumes
  that the runner is left running.

## 4. Proofs

All theorems hold for every value of the constants that satisfies the named
assumption of the module (`MessagesAssumption` and `BoundsAssumption`,
`TaskAssumption`, `PlanAssumption`, `RuleAssumption`, `EngineAssumption`,
`StreamAssumption`, `LiveAssumption`, and those of `StatePush`, `SignIn`, `EtaTask`,
`ShiftRecords`, `EtaAggregates`, `IdleBaselines`, `ShiftEnd` and `BatchShift`): any number of messages, rows, deliverers,
admins, shifts, machines and incidents, any hold times, batch sizes and step
lengths. Each file proves an inductive invariant, with one lemma per action, and
reads the properties off it. A property that holds under a condition only says so in
the theorem (`Serial`, `OneDeliverer`, ...); the run of the same name checks it under
that condition, and section 5 says what happens without it.

**SyncDeliveryProofs.** `TypeCorrect` is type correctness. `DeliveryCorrect`
proves the inductive invariant `DeliveryInv`; its parts are needed
together. That a message is applied once (`ExactlyOnce`) depends on no second
deliverer sitting between its inbox check and its commit; that is the row lock
(`LockInv`: two deliverers never hold one row), which in turn means something
only while rows in a transaction are undelivered ones of the outbox
(`QueueInv`: outbox, delivered and dead letters are disjoint and agree with
the inbox) and a row's being ticked off implies it was applied
(`DeliveredIsApplied`). `DeliveredCorrect` names the part that matters to a
reader: what is marked delivered was applied. `NoMessageLost` is the action
property: an outbox row leaves only into the dead letters and back. `InOrder` is
`NoOvertaking`: a row of the batch that still waits is not overtaken. It rests on
`PassOf` (what a deliverer has left of its batch is in order and holds every row of it that
still waits) and on a message's keeping its place during a pass (`PlacesKept`: it is
retried at most once, or there is one deliverer). `NewestStays` (`NewestApplied`) needs both:
only then is a message older than the row one that was retried, and so one the
handler refuses (`RowInv`).

**TaskSyncProofs** (for `Serial`, that is, transactions that do not overlap).
`TaskInv` says that an open transaction still holds the row it read (`AdminRead`,
`EdgeRead`, `ApplyRead`), that a task not under way has not started (`StartInv`),
that the edge has no task the cloud has not (`CloudFirst`), and that reports are
told apart by their sequences (`Reports`). `StartedIsTheEdges`
(`EdgeOwnsStarted`) needs the first two: the handler's test of the status, made
on the row it still holds, covers every task that has started. `ReportsAreRight`
(`ReportsRight`, when the operator uses the console) needs the last: each report
has a sequence of its own and keeps it when it is retried, so the handler's
comparison decides between it and what the row holds. `TiersReconciled`
(`Reconciled`) is the long one: when nothing is on its way, cloud and edge hold one
task with one status, and a conflict is on record for every move the edge rejected.
Its invariant follows each change from the row that was written to the message that
carries it and the row it arrives at (`ChangesInv`, `EdgeInv`, `RankInv`,
`SettledInv`, `AgreeInv`). It asks for a clock that is not set back, an assignment
that is not dead-lettered, and moves that never return to a shift they left
(`NeverBack`): each of them has a counterexample in section 5.

**AssignmentPlanProofs.** In `PlanInv`, the row an open request has read is still
there unless two transactions are writing it (`Seen`, `Read`), and the slot it is
about to write fits its shift and conflicts with no undisturbed task but those
whose requests it overlapped (`Opened`). `OnlyRacesMisplan` (`PlanExplained`) and `OnlyRacesUnseatStarted`
(`StartedAgrees`) follow.

**SafetyEngineProofs** (for `Serial`, requests between ticks). `EngineInv` has a
part for the rows (`RowsInv`), the engines (`EnginesInv`), the open
acknowledgement (`AckInv`), the open tick (`TickInv`), and two that carry the
argument: `BeliefInv` says that the evaluating engine believes the rows as its
transaction has them while the checkpoint believes the committed ones, so that a
commit and a rollback each leave a right engine behind; `EffectInv` says that a
queued announcement is about a row that is committed or in the transaction. From
them `EngineBelievesRows` (`BeliefsCommitted`), `IncidentsAreSettled`
(`IncidentsSettled`) and `OnlyCommittedAnnounced` (`AnnouncedCommitted`). That
the last one needs `Serial` is what `engine_early_send` shows.
`AutoSlowIsExact` (`AutoSlowExact`) is about a counter the simulator moves up and down
with the effects it is sent. Its invariant `SlowInv` says what the counter will be
once the queue in hand is sent: the number of critical rows unresolved, as committed
at rest (`RestInv`), as written while a tick evaluates (`EvaluatingInv`), as committed
before the flush (`CommittedInv`). What a queue does to the counter is a recursive
function over it (`Counted`); that the function exists, and what it gives for a
queue with one effect more, is an induction over the length, which
`Induction` derives from the least counterexample.

**StreamPipelineProofs.** `SpoolSafe` proves `SpoolInv`: records are told
apart by their sequences, a gap names only ticks of its machine that have left
the spool, no two gaps the same, every record can be traced, and what the
forwarder holds as acknowledged the broker has. It holds at every step of a pass,
also of one that fails. `NothingLostUncounted`
(`Accounted`) follows: a record is in the spool, on the broker or named by
exactly one gap. `TablesAreExact` is all of `TablesExact`: the consumer
commits no offset it has not stored, a tick counts once in its minute
however often it was sent and read, and the last copies of a machine's ticks are in
the order in which they were made. The last needs the order of a pass
(`DeliveryInv`: a batch is the front of the spool, what was sent of it was sent in
order, and what was delivered is a front of what was sent).

**LiveClockProofs.** `LiveInvariant`: a run not begun has an empty queue and no
driver. `NothingSetBackForGood` (`FloorRises`): only
`AdvanceClock` puts a new step on its way, and it is later than the clock; every
other action passes on a time that was there, so the earliest one never falls.
`PromptLoopIsRight` (`PromptIsRight`): while the loop keeps up and no start
overlaps another or a stop, a machine's ticks carry increasing times and each shows the scenarios of its
time, provided a machine is streamed once (`StreamedOnce`). `PromptInv` adds to the
invariant that one run is alive, that one step is on its way at a time
(`OneStepAtATime`) and that a window forgotten is over (`ForgottenAreOver`).

**CabinProofs** has one invariant for each component behind the console, and those of a
safety rule.
`LiveViewsCurrent` (`ViewCurrent`): a live client to which nothing is on its way
shows what is stored, unless two writers changed the item at once (`overtaken`) or the
sync worker changed it since the client connected and no request or tick has since
(`untold`); `AllShown` says
which message will bring it every change it does not show (`PushInv`). `OfflineSignIn` (`SignInReady`):
an operator with an account can sign in for the shift being worked, or else for the next
one to come (`FirstNotOver`), because the newest
roster queued lists everybody with an account (`Listed`) and every shift is queued with
the credential (`Issued`), but for what `crossed`, `together` and `expired` name
(`SignInv`). `WorkIsKept` (`NothingUndone`) and `TimeIsWorked` (`ElapsedIsWorked`):
a load counted or a status set is not undone by what read the row before
(`TaskInv`: an open tick still agrees with the row on the quantity, and each writes
its own columns), and the minutes counted are
those it was in progress (`TimeInv`). `OneReport` (`ReportsAgree`): the admin's and the operator's
report of one shift are the same once the records are through (`RecordsInv`). No
incident type is called `manual_report`, the type of those an operator files, which no catalog maps
(`RecordsAssumption`).
About a safety rule, `RuleCorrect` proves `RuleInv`, which relates the
state to its timestamps and to history variables (`heldSince`: since when the
hazard has been there without a break; `below`: since when the reading has been
under each clear value): pending means held since no later than
`_pending_since`, clearing means below its limit since then, closed means the
last incident closed at `_closed_since`, and idle never hides a recent close. From it follow
`OpenedHeld` (an incident opens only on a hazard held for the debounce or grace
time), `ClosedCleared` (it closes only on readings clear for the whole clearing
hold), `HazardNoticed` (a hazard that lasts is an incident within the silence,
hold time and tick), and `KeepsContract`: every step of the state machine is a
step of `HazardLifecycle` or leaves its variables alone. `RepeatInv` adds what the
repeat window remembers, and `RepeatsAreRaised` follows for every rule: no window of
time holds as many warnings as make one critical. `BeltInv` is about the belt
rule (`BeltRule`: no faults, and ticks closer than its two grace times), and
`BeltSeverityExplained` (`SeverityExplained`) says that a belt left open and repeated
warnings are critical in time and nothing else is.

**HistoryProofs** is about what histories add up to. It begins with sums over finite
sets: the library defines them by a choice of a function, so that there is one
(`SumsExist`) and that it does not depend on the set it is chosen for (`SumsAgree`) are
proved first, from the well-foundedness of the subsets (`SubsetInduction`); then one term
more, one less and one changed (`SumAdded`, `SumSplit`, `SumChanged`).
`EdgeAndGeneratorAgree` (`JudgedAlike`) is for `BaselineSamples <= 2`, which the code has
(`_MIN_SAMPLES = 2`): the tables on the edge are those of the newest message it has seen
(`IdleInv`), and a type with two summaries has the median the generator takes.
`HistoryIsRight` (`HistoryRight`): subtracting a training task from the running sums gives
what a history without it gives, scope by scope, and what is deployed and applied is what
was trained on (`EtaInv`). `MeterIsExact` (`MeterExact`): the newest snapshot of the meter
is on its way to the edge, by the queue or out of a dead letter, unless the edge has it
(`NewestHasMeter`). `MemoryIsCommitted` (`MemoryCommitted`) is for `Serial` and `Nominal <= GapCap`
(the first tick is capped in the summary and not in the engine; the settings have 1 and
5 seconds). What an engine should remember is a set of memories given by the stored rows and the
summaries queued (`AsCommitted`): its seconds, its last tick, whether its shift ended,
and what its detectors hold of the spans and repeats under way (`HabitsKept`).
`MemoryInv` says where such a memory is while a transaction is open: in the checkpoint
until the commit, in the engine after it, and in between the engine is one row ahead
(`TickMemory`, `EndMemory`). `OwnRow` is the step that matters: the seconds a tick adds
are those its row stands for once it is stored, and the habits it finds are those the
rows with it call for and the rows without it did not.
`EventsAreExact` (`EventsExact`), for `Serial`, adds `EventInv`: the events are listed
once each (`Listed`); of every engine they are those its stored rows call for, and a
ratio only of a reported shift, one at most (`Recorded`); the finds of the open
transaction are those of its row, or the ratio of the shift it closes (`Awaited`); and
what is queued or sent is of events on record or about to be (`Sendable`). It rests on
the memory: a span is flagged once because the detector remembers having flagged it,
and after a rollback has forgotten it again.
`HistoryIsSound` (`HistorySound`) is about the generated shift. Its hypothesis `Apart`
is about constants: a gap between tasks (at most 3 minutes, `_GAP_SECONDS_RANGE`) and the
idle moments a task rolls in a row (at most `MaxIdleRun`, a bound of the model: the
code rolls each second on its own) stay *together* below the idling limit (5 minutes), since
the rolls of a task may follow its gap; and a
window of idling or fast travel is longer than its detector's limit (6 minutes and 65
seconds at least, for limits of 5 minutes and 60 seconds) and ends within the shift
(`_build_windows`). The constants of `cabin` satisfy it. Without it a
long gap, or enough idle moments in a row or after a gap, is flagged though nobody injected
it. Of the five kinds injected the two are meant whose detectors read ticks one by one
(`ReplayedKinds`: `excessive_idling`, `high_rpm_travel`); the others are drawn and laid over the
ticks, but scored by counts of incidents or by the shift's ratio. `ActualsAreSound` is the part that does not need it.
`BatchInv` says: the plan is one that can be drawn (`Drafted`); a tick shows its phase,
and the phase the window over it (`Sensed`); the ticks of a task follow each other,
after those of every task before it, and only tasks before `runIdx` are done
(`InTurn`); progress is what the ticks moved (`Tallied`); a wait that began has been
met but for what is left of it (`Waited`); idling outside the idling windows is a gap and
then rolls of the task after it (`RollsLast`), with no more rolls in a row than there may be
(`ShortRolls`) and a gap that leaves room for them below the limit, also with what is left of
it to come (`ShortGaps`; together `ShortIdling`); and
what was filed is what the finished shift shows (`Finished`). `ShortIdling` is the part
that needs `Apart`, and why no false alarm is raised: as many idle ticks as the limit
include one in a window (`FlaggedInWindow`). A window, being longer than the limit, is
flagged from where the idling around it began (`WindowIsFlagged`), which may be before
it, and then by `ShortIdling` still overlaps it.

Every invariant and action property of the runs is stated by a theorem here.
Only model-checked is liveness (`EventuallySettled`, `EventuallyAgree`,
`AutoSlowEnds`, `EventuallyStored`, `TimePasses`), which needs fairness and
ENABLED, beyond this prover. The theorems under a hypothesis (`Serial`,
`OneDeliverer`, `Apart`, ...) say nothing of what happens without it; TLC does, in
section 5.

## 5. What the models show about the code

One finding is a run that TLC must find violated:

* **Effects sent before their commit** (`engine_early_send`).
  `incident_resolved` flushes the engine's effect queue, which during a tick
  also holds the tick's effects: they go out before the tick commits, also when it then
  rolls back.

Three more contradict what the code's documents say; each is reproduced by
changing a run's cfg:

* **A second retry undoes newer data.** A message that is
  retried carries its original sequence in `replay_seq`. When it fails again
  and is dead-lettered again, `_record_failure` (`worker.py:192`) stores the
  sequence of the retry's own row; the next retry replays with that newer
  number and the handler lets the old payload overwrite the row (`sync_live`
  with `MaxRetries = 2`: `NewestApplied`).
* **A cancelled task comes back.**
  `apply_task_cancelled` on an unknown task records nothing, so an assignment
  that was dead-lettered and retried later creates the task as `assigned`
  (`tasks_crossing` with `MayFail = {"assigned"}`, `MaxChanges = 2`,
  `MaxDead = 1`: `Converged`).
* **An older summary overwrites a newer one.**
  `apply_shift_summary` (`edge_to_cloud.py:152`) does not look at the sequence.
  A shift closed, continued after a restart and closed again has two
  summaries; if the first was dead-lettered and is retried last, the row and the
  hour meter go back to it (`shift_close` with `MaxTicks = 2`: `SummaryNewest`).

Also seen while modelling:

* Delivery: two deliverers that apply two messages for one row at the same time
  leave the older payload (`NewestApplied` with `Scripts = {"script"}`). The
  link is read once per pass (`worker.py:319`), and a pass of up to 200 messages
  goes on after it drops. Outages count towards the dead-letter window
  (`worker.py:187`).
* Tasks: a clock set back delivers a cancellation before its assignment
  (`Converged` with `ClockMayRegress = TRUE`). A task moved away and back before
  the start arrives is not seen as moved (`Moves <- BackAgain`), because
  `_conflict_type` compares the shift only. With
  overlapping transactions (`Serial = FALSE`) the admin's guard can be stale
  (`OnlyUnstartedChanged`), a handler can overwrite a task started meanwhile
  (`EdgeOwnsStarted`) and a tick can report a status that has changed
  (`ReportsAreCurrent`); these definitions are kept in the module and checked
  only where they hold. An operator who bypasses the console
  (`ConsoleOnly = FALSE`) can complete a task that was never started
  (`StartedOnce`).
* Plan: since nothing is locked, two requests can double-book an operator or a
  machine, and place two tasks in one slot; `PlanExplained` names exactly these
  pairs. A task put back by a conflict may overlap another; the conflict on
  record is what tells the admin.
* Rules: a belt fastened on the very tick the second grace time ends still
  escalates (`state_machine.py:205` tests the time before the reading). The
  operator-seated rule is built with both hold times 0 and opens as critical on
  its second tick.
* Engine: with `Serial = FALSE` an acknowledgement that read the incident before
  a tick closed it leaves it unresolved (`ResolvedWhenDone`), and an early send
  followed by a rollback leaves the auto-slow count wrong (`AutoSlowExact`). After a shift change the
  new engine does not know a hazard that is still there: the old incident has
  nobody to close it (`SomebodyCloses`, kept but not checked: it does not hold),
  and the same is true of a degraded rule's open incident, which also leaves
  auto-slow on.
* Stream: a gap may also count ticks that had reached Kafka but whose
  acknowledgement was lost: `Accounted` says a record is stored, under way or
  counted, not that a counted one is absent.
* End of a shift: with `Serial = FALSE` a tick that rolls back after `end_shift`
  committed restores `_shift_ended` to false, and the next end reports the shift
  again (`MemoryCommitted`); a second `end_shift` during a tick flushes the
  coaching of a tick that may still roll back (`EventsExact`). The engine and
  the summary agree on the seconds (`shift_summary.py:7-10`) only for an engine
  that saw the whole shift: after a restart the summary covers the shift and the
  engine the time since. Ticks stored after `end_shift` reach no summary. A
  nominal tick above the cap would be cut in the summary and not in the engine.
* Live clock: `core/clock.py:16` calls the clock monotonically advancing, but
  ingesting a tick sets it to the tick's timestamp, so a loop that is behind sets
  it back (`PromptIsRight` and `FloorRises` say how far). Two starts at once leave
  two drivers on one clock.
* Sign-in: an account and its shift created by requests that overlap may leave the
  shift without a credential, and two accounts created at once a roster without
  one of them, until the next one is published (`crossed`, `together`).
* Console: two writers of one item may broadcast in the other order than they
  committed; the view keeps the older until the next change or connection
  (`overtaken`). The sync worker commits shifts, assignments and cancellations
  (`cloud_to_edge.py:123`, `139-174`) that the snapshot shows (`operator_ws.py:99-111`) and
  broadcasts nothing: a connected console shows a new or cancelled task only when it
  reconnects, and an older state of a task it has until somebody changes it (`untold`).
* Reports: the admin's report derives training from the catalog of today, so it
  differs from the operator's once the catalog was edited (`behind`).
* Baselines: a machine type with a single summary has no row and the edge does not
  judge it, the generator does. And `JudgedAlike` is about one history: the generator takes the
  shifts of the 40 days before the evaluation split (`generate.py:213`, `edge_replay.py:107`),
  the cloud's table, computed after it, all 50, so the history to be replayed and the one the
  edge judges by are the same only up to that window.
* Generated history: the batch summary's fuel includes the first tick, the
  edge's, a difference of two readings, does not; a task short by less than the
  rounding of its actual may be filed as done; a task is filed as paused only
  when the overtime ran out.

## 6. Abstractions

Payloads are identities; text, logging, rates, pacing and pages are left out.
PostgreSQL is READ COMMITTED with row locks (`SKIP LOCKED`), a transaction's
writes appear at its commit. `TaskSync` has one task, `SafetyEngine` one machine
with abstract rules, `SyncDelivery` one direction (both run the same code),
`StreamPipeline` one partition per topic (per-machine order is what its
properties use). Not modelled in the stream: broker retention
(`stream/kafka.py:61`), failing spool writes (`spool.py:74`), which lose the
Kafka copy by design, and an old producer's request that lands after a restart.

In the end of a shift: the baseline's median and MAD are one threshold
(`IdleBaselines` has them), a clock
set back within a shift, a detector that raises, the other
figures of a summary and machines other than the one. `recompute_hour_meters`,
which only the data generator calls, is left out.

In the ETA the regression is a function of quantity and weather, minutes are
whole, and `EtaTask` has one shift with one task at work. In `SignIn` hashing and
tokens are identities. In `StatePush` a socket that blocks is a `Send` that is
not taken, and an item's version is of what its updates carry: a task's status and
quantities, an incident's severity and status. Its schedule, ETA and acknowledgement time are
in the snapshot only, and what the clock alone changes (which shift is current) is left
out. In `BatchShift` a tick is
the unit of time, random draws are choices, and the sensor values are what the
detectors make of them.

### Not modelled

* The documentation assistant (text retrieval and one external call), the
  maintenance suggestion, read-only pages and the audit rows: no state whose
  order matters.
* Configuration and the schema: the values the models need are constants.
* The ML fit and its evaluation, the tuning sweep, the seeding and rehearsal
  scripts: offline, single-threaded; their use of the sync worker is the script
  of `SyncDelivery`, their training rows are in `EtaAggregates`.
* The generators of sensor values, weather and master data, and loading
  `idle_records`, which differ from the generator's end of a shift by one tick.
* The online login and the request guards (`core/deps.py`): library calls.
* The console but for its task buttons (`Offered`, `ConsoleOnly`): presentation.

## 7. Plan

1. *Done:* delivery, task ownership over it, the plan the admins share, the rule, its
   contract and the proof that it keeps it, the engine over that contract, the stream,
   the end of a shift, the live clock, ETA, sign-in, console, training and reports,
   baselines and the generated history. All safety and action properties the runs check
   are proved; liveness is model-checked.
2. *Next, more of the system:* an abstract delivery specification that
   `SyncDelivery` implements and the other modules instance; two tasks of one
   shift in `EtaTask`; the validation of a tick's fields.
3. *More proofs:* that the abstract delivery, once written, is implemented; a weaker
   hypothesis than `Serial` for the engine, one that lets a request begin in a tick as
   long as it does not flush its effects.

## 8. Running

In this directory, with TLC, TLAPS 1.4.5 and the community modules on the path:

    tlc -workers 2 -config sync_two_deliverers.cfg MCSyncDelivery
    tlapm SyncDeliveryProofs.tla

A run's module is named in `PROJECT.json`. The longest runs take two to three
minutes, the longest proof (`HistoryProofs`) about ten.

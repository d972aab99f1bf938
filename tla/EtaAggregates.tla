---------------------------- MODULE EtaAggregates ----------------------------
(***************************************************************************)
(* The history behind the ETA: finished tasks and shift summaries are      *)
(* summed per scope, the sums train the model (each training task left out *)
(* of its own features), are deployed in the cloud and, when somebody      *)
(* publishes them, copied to the edge.  Translated from                    *)
(* app/shared/eta_aggregates.py, ml/features.py, ml/train_eta.py,          *)
(* replace_aggregates, queue_eta_reference and apply_eta_model_ref.        *)
(*                                                                         *)
(* Averages are kept as <<sum, count>>, the numbers the code divides.      *)
(***************************************************************************)
EXTENDS Integers, FiniteSets, FiniteSetsExt

CONSTANTS
    TaskPool,        \* the tasks that may finish
    ShiftPool,       \* the shift summaries that may arrive
    MIN_SAMPLES,
    TrainDays,       \* TRAIN_DAYS
    MaxReferences     \* bound: reference messages

None == [none |-> TRUE]

ASSUME EtaAssumption ==
    /\ IsFiniteSet(TaskPool) /\ IsFiniteSet(ShiftPool)
    /\ None \notin TaskPool \cup ShiftPool
    /\ MIN_SAMPLES \in Nat \ {0}
    /\ TrainDays \in Nat /\ MaxReferences \in Nat
    /\ \A t \in TaskPool : {t.minutes, t.quantity, t.day} \subseteq Nat /\ t.quantity > 0
    /\ \A s \in ShiftPool : {s.idle, s.cycles, s.day} \subseteq Nat

VARIABLES
    done,        \* the cloud's finished tasks
    summarised,  \* the cloud's shift summaries
    deployed,    \* cloud.eta_aggregate: a row per trusted scope
    published,   \* reference messages queued for the edge
    edgeApplied, \* sequences of those the edge has applied
    edgeTable,   \* its eta_aggregate
    trained      \* history: what the last training run read

etaVars == <<done, summarised, deployed, published, edgeApplied, edgeTable, trained>>

-----------------------------------------------------------------------------
\* Sums per scope (AggregateStats).

SkillScope(r) == <<r.type, r.skill>>   \* skill_scope_id

TaskKeys(t) == {<<"operator", t.operator, t.task>>, <<"machine", t.machine, t.task>>,
                <<"skill", SkillScope(t), t.task>>, <<"fleet", t.type, t.task>>}

ShiftKeys(s) == {<<"operator", s.operator>>, <<"machine", s.machine>>,
                 <<"skill", SkillScope(s)>>, <<"fleet", s.type>>}

TaskMinutes == [t \in TaskPool |-> t.minutes]
TaskQuantity == [t \in TaskPool |-> t.quantity]
ShiftIdle == [s \in ShiftPool |-> s.idle]
ShiftCycles == [s \in ShiftPool |-> s.cycles]

Pace(ts, key) ==
    LET of == {t \in ts : key \in TaskKeys(t)}
    IN  [minutes |-> SumFunctionOnSet(TaskMinutes, of),
         quantity |-> SumFunctionOnSet(TaskQuantity, of), count |-> Cardinality(of)]

ShiftSums(ss, key) ==
    LET of == {s \in ss : key \in ShiftKeys(s)}
    IN  [idle |-> SumFunctionOnSet(ShiftIdle, of),
         cycles |-> SumFunctionOnSet(ShiftCycles, of), count |-> Cardinality(of)]

\* mutant
WithoutCount(p, t, key) ==
    IF t # None /\ key \in TaskKeys(t)
    THEN [p EXCEPT !.minutes = @ - t.minutes, !.quantity = @ - t.quantity] ELSE p
LeaveTask(p, t, key) ==
    IF t # None /\ key \in TaskKeys(t)
    THEN [minutes |-> p.minutes - t.minutes, quantity |-> p.quantity - t.quantity,
          count |-> p.count - 1]
    ELSE p

LeaveShift(p, s, key) ==
    IF s # None /\ key \in ShiftKeys(s)
    THEN [idle |-> p.idle - s.idle, cycles |-> p.cycles - s.cycles, count |-> p.count - 1]
    ELSE p

DefaultMeans == [idle |-> "default", cycles |-> "default", count |-> 0]

ShiftMeans(ss, key, outShift) ==
    LET p == LeaveShift(ShiftSums(ss, key), outShift, key)
    IN  IF p.count <= 0 THEN DefaultMeans ELSE p

\* resolver: the row of a scope, or None when it has too few samples.
Resolve(ts, ss, outTask, outShift, key) ==
    LET p == LeaveTask(Pace(ts, key), outTask, key)
    IN  IF p.count < MIN_SAMPLES \/ p.quantity <= 0 THEN None
        ELSE [minutes |-> p.minutes, quantity |-> p.quantity,
              means |-> ShiftMeans(ss, <<key[1], key[2]>>, outShift)]

Keys(ts) == UNION {TaskKeys(t) : t \in ts}

\* to_rows, as AggregateTable holds them: the trusted rows by key.
Rows(ts, ss) ==
    [key \in {k \in Keys(ts) : Resolve(ts, ss, None, None, k) # None} |->
        Resolve(ts, ss, None, None, key)]

NoRows == [key \in {} |-> None]
Lookup(table, key) == IF key \in DOMAIN table THEN table[key] ELSE None

-----------------------------------------------------------------------------
\* The cold-start chain (resolve_history): the first scope with a row.

OperatorChain(x) == <<<<"operator", x.operator, x.task>>, <<"skill", SkillScope(x), x.task>>,
                      <<"fleet", x.type, x.task>>>>
MachineChain(x) == <<<<"machine", x.machine, x.task>>, <<"fleet", x.type, x.task>>>>

ChainKeys(x) == Range(OperatorChain(x)) \cup Range(MachineChain(x))

\* row gives each key of the chains its row.
FirstRow(row, chain) ==
    LET found == {i \in DOMAIN chain : row[chain[i]] # None}
    IN  IF found = {} THEN [scope |-> "default", row |-> None]
        ELSE [scope |-> chain[Min(found)][1], row |-> row[chain[Min(found)]]]

History(row, x) ==
    [operator |-> FirstRow(row, OperatorChain(x)), machine |-> FirstRow(row, MachineChain(x))]

\* table.history, at assignment and at a revision
TableHistory(table, x) == History([key \in ChainKeys(x) |-> Lookup(table, key)], x)

-----------------------------------------------------------------------------
\* The data set and the training run.

\* load_dataset: tasks that ran to their target, in time that can be counted.
Sample(t) == t.reached /\ t.minutes > 0
DataSet(ts) == {t \in ts : Sample(t)}

\* time_split, with shift_dates: what the model is trained on.
SplitDay(ts) == Min({t.day : t \in ts}) + TrainDays
TrainingTasks(ts) == {t \in ts : t.day < SplitDay(ts)}
TrainingShifts(ts, ss) == IF ts = {} THEN {} ELSE {s \in ss : s.day < SplitDay(ts)}

\* training_matrix: the shift left out with a task is its own, if it has a summary.
ShiftOf(ss, t) ==
    IF \E s \in ss : s.shift = t.shift THEN CHOOSE s \in ss : s.shift = t.shift ELSE None

TrainingHistory(ts, ss, t) ==
    History([key \in ChainKeys(t) |-> Resolve(ts, ss, t, ShiftOf(ss, t), key)], t)

\* evaluation_matrix: held-out tasks look the training aggregates up.
EvaluationHistory(ts, ss, t) ==
    History([key \in ChainKeys(t) |-> Resolve(ts, ss, None, None, key)], t)

DeployedRows(ts, ss) == Rows(ts, ss)   \* run: all of the history is deployed

EtaInit ==
    /\ done = {} /\ summarised = {}
    /\ deployed = NoRows
    /\ published = {} /\ edgeApplied = {}
    /\ edgeTable = NoRows
    /\ trained = [tasks |-> {}, shifts |-> {}]

FinishTask(t) ==
    /\ done' = done \cup {t}
    /\ UNCHANGED <<summarised, deployed, published, edgeApplied, edgeTable, trained>>

CloseShift(s) ==
    /\ summarised' = summarised \cup {s}
    /\ UNCHANGED <<done, deployed, published, edgeApplied, edgeTable, trained>>

\* ml.train_eta: the model on the first days, the rows of everything deployed.
Train ==
    /\ DataSet(done) # {}
    /\ deployed' = DeployedRows(DataSet(done), summarised)
    /\ trained' = [tasks |-> DataSet(done), shifts |-> summarised]
    /\ UNCHANGED <<done, summarised, published, edgeApplied, edgeTable>>

\* queue_eta_reference: the training run does not do it.
PublishReference ==
    /\ Cardinality(published) < MaxReferences
    /\ published' = published \cup {[seq |-> Cardinality(published) + 1, rows |-> deployed]}
    /\ UNCHANGED <<done, summarised, deployed, edgeApplied, edgeTable, trained>>

\* apply_eta_model_ref; a message may have been retried, after newer ones.
NewestSnapshot(m) == \A seq \in edgeApplied : seq < m.seq   \* _newer_snapshot_applied

ApplyReference(m) ==
    /\ m.seq \notin edgeApplied
    /\ edgeApplied' = edgeApplied \cup {m.seq}
    /\ edgeTable' = IF NewestSnapshot(m) THEN m.rows ELSE edgeTable
    /\ UNCHANGED <<done, summarised, deployed, published, trained>>

EtaNext ==
    \/ \E t \in TaskPool \ done : FinishTask(t)
    \/ \E s \in ShiftPool \ summarised : CloseShift(s)
    \/ Train
    \/ PublishReference
    \/ \E m \in published : ApplyReference(m)

EtaSpec == EtaInit /\ [][EtaNext]_etaVars

-----------------------------------------------------------------------------
\* A training task's features are those a history without it, and without its
\* shift, would give, so that nothing of what the model is to predict leaks into
\* them (features.py: "Each training row is left out of its own aggregates so its
\* target does not leak into its features").
LeaveOneOut ==
    LET ts == TrainingTasks(DataSet(done))
        ss == TrainingShifts(DataSet(done), summarised)
    IN  \A t \in ts : TrainingHistory(ts, ss, t) =
                         EvaluationHistory(ts \ {t}, ss \ {ShiftOf(ss, t)}, t)

\* What the cloud's table says of any task, known or not, is what the history it was
\* trained on says, cold start included, and the edge's table is the newest it has
\* seen.
TablesAgree ==
    /\ \A x \in TaskPool : TableHistory(deployed, x) =
            EvaluationHistory(DataSet(trained.tasks), trained.shifts, x)
    /\ \A m \in published :
          edgeApplied # {} /\ m.seq = Max(edgeApplied) => edgeTable = m.rows

\* Estimates, in training and in use, rest on the history they are meant to rest on.
HistoryRight == LeaveOneOut /\ TablesAgree

=============================================================================

---------------------------- MODULE IdleBaselines ----------------------------
(***************************************************************************)
(* Which shifts idle more than their operator usually does.  The cloud     *)
(* computes a median and a MAD of the idle ratios per operator and per     *)
(* machine type, somebody publishes them, the edge judges a shift by its   *)
(* copy when the shift ends; the generated history is judged by a second   *)
(* implementation of the same rule.  Translated from                       *)
(* app/cloud/baselines/service.py, app/edge/behavior/baselines.py,         *)
(* detectors/idle_ratio.py, queue_baselines, apply_behavior_baseline and   *)
(* idle_ratio_events of simulator/batch/edge_replay.py.                    *)
(*                                                                         *)
(* Ratios are in percent.  A median is kept doubled and a MAD quadrupled,  *)
(* so that the halves of an even number of values stay whole.              *)
(***************************************************************************)
EXTENDS Integers, FiniteSets, FiniteSetsExt

CONSTANTS
    ClosedShifts,     \* shift summaries that may come in
    BaselineSamples,  \* _MIN_SAMPLES
    MinShifts,        \* baseline_min_shifts
    Multiplier,       \* idle_ratio_mad_multiplier
    MaxTables         \* bound: baseline messages

ASSUME BaselineAssumption ==
    /\ IsFiniteSet(ClosedShifts)
    /\ {BaselineSamples, MinShifts, Multiplier, MaxTables} \subseteq Nat
    /\ BaselineSamples > 0 /\ MinShifts >= BaselineSamples
    /\ \A r \in ClosedShifts : r.ratio \in 0 .. 100

VARIABLES
    ratios,      \* cloud.shift_summary
    baselines,   \* cloud.behavior_baseline, by key
    tables,      \* baseline messages queued for the edge
    tablesSeen,  \* sequences of those it has applied
    edgeRows,    \* edge.behavior_baseline
    computedOf   \* history: the summaries each table was computed from, by sequence

idleVars == <<ratios, baselines, tables, tablesSeen, edgeRows, computedOf>>

-----------------------------------------------------------------------------
\* np.median and _mad.

Kth(f, k) == Min({f[i] : i \in {j \in DOMAIN f : Cardinality({l \in DOMAIN f : f[l] <= f[j]}) >= k}})

\* twice the median
Middle(f) ==
    LET n == Cardinality(DOMAIN f) IN Kth(f, (n + 1) \div 2) + Kth(f, n \div 2 + 1)

Distances(f) ==
    [i \in DOMAIN f |-> IF 2 * f[i] > Middle(f) THEN 2 * f[i] - Middle(f) ELSE Middle(f) - 2 * f[i]]

Ratio(rs) == [r \in rs |-> r.ratio]
Baseline(rs) ==
    [median |-> Middle(Ratio(rs)), mad |-> Middle(Distances(Ratio(rs))), count |-> Cardinality(rs)]

\* IdleRatioDetector.check, in quarters of a percent
Exceeds(r, b) == 4 * r.ratio > 2 * b.median + Multiplier * b.mad

-----------------------------------------------------------------------------
\* The cloud.

OperatorKey(r) == <<"operator", r.operator, r.type>>
FleetKey(r) == <<"fleet", r.type>>
BaselineKeys(rs) == {OperatorKey(r) : r \in rs} \cup {FleetKey(r) : r \in rs}
Of(rs, key) == {r \in rs : key \in {OperatorKey(r), FleetKey(r)}}

Known(rs) == {key \in BaselineKeys(rs) : Cardinality(Of(rs, key)) >= BaselineSamples}
Computed(rs) == [key \in Known(rs) |-> Baseline(Of(rs, key))]

NoBaselines == [key \in {} |-> 0]

IdleInit ==
    /\ ratios = {} /\ baselines = NoBaselines
    /\ tables = {} /\ tablesSeen = {} /\ edgeRows = NoBaselines
    /\ computedOf = [seq \in {0} |-> {}]

\* apply_shift_summary
Summarise(r) ==
    /\ ratios' = ratios \cup {r}
    /\ UNCHANGED <<baselines, tables, tablesSeen, edgeRows, computedOf>>

\* compute_and_store_baselines: with no summaries at all it leaves the old rows.
ComputeBaselines ==
    /\ ratios # {}
    /\ baselines' = Computed(ratios)
    /\ computedOf' = [computedOf EXCEPT ![0] = ratios]
    /\ UNCHANGED <<ratios, tables, tablesSeen, edgeRows>>

\* queue_baselines
PublishBaselines ==
    /\ Cardinality(tables) < MaxTables
    /\ LET seq == Cardinality(tables) + 1
       IN  /\ tables' = tables \cup {[seq |-> seq, rows |-> baselines]}
           /\ computedOf' = [i \in DOMAIN computedOf \cup {seq} |->
                                IF i = seq THEN computedOf[0] ELSE computedOf[i]]
    /\ UNCHANGED <<ratios, baselines, tablesSeen, edgeRows>>

\* apply_behavior_baseline; a message may have been retried, after newer ones.
ApplyBaselines(m) ==
    /\ m.seq \notin tablesSeen
    /\ tablesSeen' = tablesSeen \cup {m.seq}
    /\ edgeRows' = IF \A seq \in tablesSeen : seq < m.seq THEN m.rows ELSE edgeRows
    /\ UNCHANGED <<ratios, baselines, tables, computedOf>>

IdleNext ==
    \/ \E r \in ClosedShifts \ ratios : Summarise(r)
    \/ ComputeBaselines
    \/ PublishBaselines
    \/ \E m \in tables : ApplyBaselines(m)

IdleSpec == IdleInit /\ [][IdleNext]_idleVars

-----------------------------------------------------------------------------
\* Judging a shift.

Usable(rows, r) ==
    OperatorKey(r) \in DOMAIN rows /\ rows[OperatorKey(r)].count >= MinShifts

\* idle_ratio_baseline, and the check at the shift's end: without a baseline the
\* threshold is 1.0.
OperatorFirst(rows, r) ==   \* mutant
    IF OperatorKey(r) \in DOMAIN rows THEN Exceeds(r, rows[OperatorKey(r)])
    ELSE FleetKey(r) \in DOMAIN rows /\ Exceeds(r, rows[FleetKey(r)])
Flagged(rows, r) ==
    IF Usable(rows, r) THEN Exceeds(r, rows[OperatorKey(r)])
    ELSE FleetKey(r) \in DOMAIN rows /\ Exceeds(r, rows[FleetKey(r)])

\* idle_ratio_events: the history itself, not the rows made of it.
HistoryOf(rs, r) ==
    IF Cardinality(Of(rs, OperatorKey(r))) >= MinShifts THEN Of(rs, OperatorKey(r))
    ELSE Of(rs, FleetKey(r))

FlaggedInBatch(rs, r) ==
    HistoryOf(rs, r) # {} /\ Exceeds(r, Baseline(HistoryOf(rs, r)))

-----------------------------------------------------------------------------
\* The edge and the generator, each with its own fallback from operator to fleet,
\* judge every shift alike once the edge has the rows of the same history, whatever
\* was published, retried and overtaken before: its table is the newest it has seen.
\* The one exception is a machine type with a single summary: it has no row, and the
\* generator still judges by it.
JudgedAlike ==
    tablesSeen # {} =>
        LET rs == computedOf[Max(tablesSeen)]
        IN  \A r \in ClosedShifts :
                Cardinality(Of(rs, FleetKey(r))) # 1 =>
                    (Flagged(edgeRows, r) <=> FlaggedInBatch(rs, r))

=============================================================================

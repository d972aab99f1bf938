--------------------------- MODULE StreamPipeline ---------------------------
(***************************************************************************)
(* The fleet data pipeline: live ticks and safety events are spooled on    *)
(* the edge in the transaction that makes them (edge/stream/spool.py),     *)
(* forwarded to Kafka in batches (edge/stream/forwarder.py), read by one   *)
(* consumer and stored in the analytics tables (cloud/stream/consumer.py   *)
(* and analytics.py).                                                      *)
(*                                                                         *)
(* A record is [seq, kind, machine, minute, lost]: seq is the identity     *)
(* column of the spool and stands for the event_id as well (both are       *)
(* unique and kept by every copy of the record), lost is the set of seqs a *)
(* gap record reports, whose cardinality is its dropped_count.  Each topic *)
(* has one partition.                                                      *)
(***************************************************************************)
EXTENDS Integers, FiniteSets, Sequences, Functions

CONSTANTS
    Machines,
    Minutes,
    MaxRecords,    \* stream_spool_max_records
    LowWater,      \* int(max_records * stream_spool_low_water)
    BatchSize,     \* stream_batch_size
    MaxSeq,        \* bound: records are written up to this seq
    MaxFaults      \* bound: broker errors, lost passes, restarts

ASSUME StreamAssumption ==
    /\ MaxRecords \in Nat /\ LowWater \in 0 .. MaxRecords
    /\ BatchSize \in Nat \ {0}
    /\ MaxSeq \in Nat /\ MaxFaults \in Nat

VARIABLES
    nextSeq,     \* the identity column of stream_spool
    open,        \* records added in each writer's open transaction
    spool,       \* committed rows of stream_spool
    fpc,         \* where the forwarder's pass is
    producer,    \* the producer is connected
    backoff,     \* _retry_at lies ahead
    batch,       \* the rows the pass has read
    acked,       \* those of them the broker acknowledged
    log,         \* each topic's records, in the broker's order
    cpc,         \* where the consumer's poll_once is
    position,    \* records of each topic handed to the consumer
    committed,   \* offsets committed by the group
    stored,      \* telemetry_archive, telemetry_gap and stream_event
    rollup,      \* ticks of fleet_minute_rollup
    faults,
    \* History, read by the properties only
    written      \* every record committed to the spool

edgeVars  == <<nextSeq, open, spool, written>>
passVars  == <<fpc, producer, backoff, batch, acked>>
cloudVars == <<cpc, position, committed, stored, rollup>>
vars == <<edgeVars, passVars, log, cloudVars, faults>>

-----------------------------------------------------------------------------
Writers == {"tick", "request"}
Topics  == {"telemetry", "events"}
Kinds   == {"gap", "event", "tick"}

TopicOf(r) == IF r.kind = "event" THEN "events" ELSE "telemetry"

\* The order a batch is read and sent in: gaps, then events, then ticks, each
\* by seq.
Priority(kind) == IF kind = "gap" THEN 0 ELSE IF kind = "event" THEN 1 ELSE 2
Before(q, r) ==
    \/ Priority(q.kind) < Priority(r.kind)
    \/ Priority(q.kind) = Priority(r.kind) /\ q.seq < r.seq

TicksOf(records) == {r \in records : r.kind = "tick"}
CellOf(r) == <<r.machine, r.minute>>   \* the rollup row a tick counts in
Cells == Machines \X Minutes
Older(records, r) == {q \in records : q.seq < r.seq}

Init ==
    /\ faults = 0
    /\ nextSeq = 1 /\ open = [w \in Writers |-> {}] /\ spool = {} /\ written = {}
    /\ fpc = "idle" /\ producer = FALSE /\ backoff = FALSE /\ batch = {} /\ acked = {}
    /\ log = [t \in Topics |-> <<>>]
    /\ cpc = "poll" /\ position = [t \in Topics |-> 0] /\ committed = [t \in Topics |-> 0]
    /\ stored = {} /\ rollup = [cell \in Cells |-> 0]

-----------------------------------------------------------------------------
\* Spooling.  The tick pipeline spools the tick and the events it causes in
\* one transaction, an operator request spools events in its own; ticks are
\* processed one at a time.

Spool(w, kind, m, n) ==
    /\ nextSeq <= MaxSeq
    /\ kind = "tick" => w = "tick" /\ TicksOf(open[w]) = {}
    /\ open' = [open EXCEPT ![w] = @ \cup
                  {[seq |-> nextSeq, kind |-> kind, machine |-> m, minute |-> n, lost |-> {}]}]
    /\ nextSeq' = nextSeq + 1
    /\ UNCHANGED <<spool, written, passVars, log, cloudVars, faults>>

Commit(w) ==
    /\ open[w] # {}
    /\ spool' = spool \cup open[w]
    /\ written' = written \cup open[w]
    /\ open' = [open EXCEPT ![w] = {}]
    /\ UNCHANGED <<nextSeq, passVars, log, cloudVars, faults>>

Rollback(w) ==
    /\ open[w] # {}
    /\ open' = [open EXCEPT ![w] = {}]
    /\ UNCHANGED <<nextSeq, spool, written, passVars, log, cloudVars, faults>>

-----------------------------------------------------------------------------
\* The forwarder.  A pass enforces the limit, also while the link is down, and
\* looks at the link (cloud_reachable, which may change at any time) and the
\* backoff once.

Excess ==
    IF Cardinality(TicksOf(spool)) <= MaxRecords THEN 0
    ELSE Cardinality(TicksOf(spool)) - LowWater
Dropped == {r \in TicksOf(spool) : Cardinality(Older(TicksOf(spool), r)) < Excess}
FirstDropped(m) ==
    CHOOSE r \in Dropped : r.machine = m /\ \A q \in Dropped : q.machine = m => r.seq <= q.seq

\* One gap record per machine, in the order of the machines' oldest rows.
GapSeq(m) == nextSeq + Cardinality({o \in {r.machine : r \in Dropped} :
                                        FirstDropped(o).seq < FirstDropped(m).seq})
Gap(m) ==
    [seq |-> GapSeq(m), kind |-> "gap", machine |-> m, minute |-> FirstDropped(m).minute,
     lost |-> {r.seq : r \in {q \in Dropped : q.machine = m}}]
OneGap == IF Dropped = {} THEN {} ELSE {Gap((CHOOSE r \in Dropped : TRUE).machine)}   \* mutant
Gaps == {Gap(m) : m \in {r.machine : r \in Dropped}}

EnforceLimit ==
    /\ spool' = (spool \ Dropped) \cup Gaps
    /\ written' = written \cup Gaps
    /\ nextSeq' = nextSeq + Cardinality(Gaps)

BeginPass(reachable) ==
    /\ fpc = "idle"
    /\ EnforceLimit
    /\ fpc' = IF reachable /\ ~backoff THEN "connect" ELSE "idle"
    /\ UNCHANGED <<open, producer, backoff, batch, acked, log, cloudVars, faults>>

\* _ensure_producer fails: the broker cannot be reached.
ConnectFails ==
    /\ fpc = "connect" /\ ~producer /\ faults < MaxFaults
    /\ backoff' = TRUE /\ fpc' = "idle"
    /\ faults' = faults + 1
    /\ UNCHANGED <<edgeVars, producer, batch, acked, log, cloudVars>>

ReadBatch ==
    /\ fpc = "connect"
    /\ producer' = TRUE
    /\ batch' = {r \in spool : Cardinality({q \in spool : Before(q, r)}) < BatchSize}
    /\ fpc' = IF spool = {} THEN "idle" ELSE "send"
    /\ UNCHANGED <<edgeVars, backoff, acked, log, cloudVars, faults>>

\* The broker appends some of the batch, a topic's in the order sent, and acknowledges
\* some of what it appended: a record may fail, its acknowledgement may be
\* lost, and after a timeout none counts as acknowledged.
Parts(t) ==
    {s \in UNION {[1 .. n -> {r \in batch : TopicOf(r) = t}] : n \in 0 .. Cardinality(batch)} :
        \A i, j \in DOMAIN s : i < j => Before(s[i], s[j])}

Send(landed, results) ==
    /\ fpc = "send"
    /\ results # batch => faults < MaxFaults
    /\ log' = [t \in Topics |-> log[t] \o landed[t]]
    /\ acked' = results
    /\ fpc' = "delete"
    /\ faults' = IF results = batch THEN faults ELSE faults + 1
    /\ UNCHANGED <<edgeVars, producer, backoff, batch, cloudVars>>

\* acknowledged_prefix: for each machine, every record before its first failure.
AcknowledgedPrefix ==
    {r \in batch : \A q \in batch : q.machine = r.machine /\ ~Before(r, q) => q \in acked}

FinishPass ==
    /\ fpc = "delete"
    /\ spool' = spool \ AcknowledgedPrefix
    /\ producer' = (acked = batch)
    /\ backoff' = (acked # batch)
    /\ batch' = {} /\ acked' = {}
    /\ fpc' = "idle"
    /\ UNCHANGED <<nextSeq, open, written, log, cloudVars, faults>>

BackoffStays == backoff /\ UNCHANGED vars   \* mutant: every pass schedules the retry anew
BackoffEnds ==
    /\ backoff
    /\ backoff' = FALSE
    /\ UNCHANGED <<edgeVars, fpc, producer, batch, acked, log, cloudVars, faults>>

\* An error of the database ends the pass (_loop catches it); nothing is
\* deleted and the producer is kept.
PassFails ==
    /\ fpc # "idle" /\ faults < MaxFaults
    /\ fpc' = "idle" /\ batch' = {} /\ acked' = {}
    /\ faults' = faults + 1
    /\ UNCHANGED <<edgeVars, producer, backoff, log, cloudVars>>

-----------------------------------------------------------------------------
\* The consumer: fetch, store in one transaction, then commit the offsets.

Fetch ==
    /\ cpc = "poll"
    /\ \E end \in [Topics -> 0 .. Len(log["telemetry"]) + Len(log["events"])] :
          /\ \A t \in Topics : position[t] <= end[t] /\ end[t] <= Len(log[t])
          /\ end # position
          /\ position' = end
    /\ cpc' = "fetched"
    /\ UNCHANGED <<edgeVars, passVars, log, committed, stored, rollup, faults>>

Fetched == UNION {{log[t][i] : i \in committed[t] + 1 .. position[t]} : t \in Topics}
NewTicks == TicksOf(Fetched \ stored)

\* recompute_rollups counts the archive, so a resent tick adds nothing.
CountsBatch(archive, cell) ==   \* mutant
    rollup[cell] + Cardinality({r \in TicksOf(Fetched) : CellOf(r) = cell})
Recomputed(archive, cell) == Cardinality({r \in TicksOf(archive) : CellOf(r) = cell})

Store ==
    /\ cpc = "fetched"
    /\ stored' = stored \cup Fetched
    /\ rollup' = [cell \in Cells |-> IF \E r \in NewTicks : CellOf(r) = cell
                                     THEN Recomputed(stored \cup Fetched, cell) ELSE rollup[cell]]
    /\ cpc' = "stored"
    /\ UNCHANGED <<edgeVars, passVars, log, position, committed, faults>>

CommitOffsets ==
    /\ cpc = "stored"
    /\ committed' = position
    /\ cpc' = "poll"
    /\ UNCHANGED <<edgeVars, passVars, log, position, stored, rollup, faults>>

\* After an error the consumer reconnects at the committed offsets.
ConsumerFails ==
    /\ faults < MaxFaults
    /\ cpc' = "poll" /\ position' = committed
    /\ faults' = faults + 1
    /\ UNCHANGED <<edgeVars, passVars, log, committed, stored, rollup>>

\* The process stops: open transactions are rolled back, a pass and a poll are
\* cut short.
Crash ==
    /\ faults < MaxFaults
    /\ open' = [w \in Writers |-> {}]
    /\ fpc' = "idle" /\ producer' = FALSE /\ backoff' = FALSE /\ batch' = {} /\ acked' = {}
    /\ cpc' = "poll" /\ position' = committed
    /\ faults' = faults + 1
    /\ UNCHANGED <<nextSeq, spool, written, log, committed, stored, rollup>>

-----------------------------------------------------------------------------
Forward ==
    \/ ConnectFails \/ ReadBatch \/ FinishPass
    \/ \E telemetry \in Parts("telemetry"), events \in Parts("events") :
          \E results \in SUBSET (Range(telemetry) \cup Range(events)) :
              Send([t \in Topics |-> IF t = "telemetry" THEN telemetry ELSE events], results)

Consume == Fetch \/ Store \/ CommitOffsets

Next ==
    \/ BackoffEnds \/ PassFails \/ ConsumerFails \/ Crash
    \/ \E w \in Writers : Commit(w) \/ Rollback(w)
    \/ \E w \in Writers, kind \in Kinds \ {"gap"}, m \in Machines, n \in Minutes :
            Spool(w, kind, m, n)
    \/ \E reachable \in BOOLEAN : BeginPass(reachable)
    \/ Forward \/ Consume

Spec == Init /\ [][Next]_vars

\* Both loops run for ever and the backoff is a time; faults are bounded.
\* Nothing makes a record come, or a pass find the link up.
FairSpec ==
    /\ Spec
    /\ WF_vars(Forward) /\ WF_vars(BackoffEnds)
    /\ WF_vars(Consume)

-----------------------------------------------------------------------------
Seqs == 1 .. 2 * MaxSeq   \* each tick is dropped into at most one gap
Records == [seq : Seqs, kind : Kinds, machine : Machines, minute : Minutes, lost : SUBSET Seqs]

TypeOK ==
    /\ faults \in 0 .. MaxFaults
    /\ nextSeq \in Nat \ {0}
    /\ \A w \in Writers : open[w] \subseteq Records
    /\ spool \subseteq written /\ written \subseteq Records
    /\ fpc \in {"idle", "connect", "send", "delete"}
    /\ producer \in BOOLEAN /\ backoff \in BOOLEAN
    /\ batch \subseteq spool /\ acked \subseteq batch
    /\ fpc \in {"idle", "connect"} => batch = {} /\ acked = {}
    /\ \A t \in Topics : \A i \in DOMAIN log[t] : log[t][i] \in written
    /\ cpc \in {"poll", "fetched", "stored"}
    /\ \A t \in Topics : /\ position[t] \in committed[t] .. Len(log[t])
                         /\ committed[t] \in Nat
    /\ stored \subseteq written
    /\ rollup \in [Cells -> Nat]

OnBroker == UNION {Range(log[t]) : t \in Topics}

\* Every record that was spooled is still in the spool or has reached the
\* broker, but for raw ticks, each of which may instead be counted in one gap
\* record, of its machine (README: "A record leaves the spool only after Kafka
\* confirms it"; "Incidents are never dropped").
Accounted ==
    /\ \A r \in written \ TicksOf(written) : r \in spool \cup OnBroker
    /\ \A r \in TicksOf(written) :
          LET gaps == {g \in written : r.seq \in g.lost} IN
            /\ Cardinality(gaps) <= 1 /\ \A g \in gaps : g.machine = r.machine
            /\ gaps = {} => r \in spool \cup OnBroker

\* What the group has committed is in the tables: a batch is read again unless
\* its transaction has committed (consumer.py: "a crash in between replays the
\* batch").
CommittedIsStored ==
    \A t \in Topics : \A i \in 1 .. committed[t] : log[t][i] \in stored

\* Resent and replayed ticks are counted once (analytics.py: "duplicate or
\* reordered delivery gives the same result as a single in-order delivery").
RollupExact ==
    \A cell \in Cells : rollup[cell] = Cardinality({r \in TicksOf(stored) : CellOf(r) = cell})

\* A record that failed is resent before anything after it leaves the spool:
\* the last copies of a machine's ticks are in the order they were spooled.
LastCopy(r) ==
    CHOOSE i \in DOMAIN log["telemetry"] :
        /\ log["telemetry"][i] = r
        /\ \A j \in DOMAIN log["telemetry"] : log["telemetry"][j] = r => j <= i
Delivered == {r \in TicksOf(OnBroker \ spool) : \A g \in written : r.seq \notin g.lost}

LastCopiesInOrder ==
    \A q, r \in Delivered :
        q.machine = r.machine /\ q.seq < r.seq => LastCopy(q) < LastCopy(r)

\* What the consumer has put away is complete, counted once and in order.
TablesExact == CommittedIsStored /\ RollupExact /\ LastCopiesInOrder

\* The environment: sooner or later a pass finds the cloud reachable.
LinkReturns == WF_vars(BeginPass(TRUE))

\* As long as passes find the link up now and then, the spool drains and the
\* tables catch up with the broker, for good: with Accounted, every record is
\* stored or, a raw tick, reported in a stored gap.
EventuallyStored == LinkReturns => <>[](spool = {} /\ OnBroker \subseteq stored)

=============================================================================

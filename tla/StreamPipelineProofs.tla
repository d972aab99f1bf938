------------------------ MODULE StreamPipelineProofs ------------------------
(***************************************************************************)
(* Nothing that was spooled is lost without a trace, and what the consumer *)
(* has committed is stored and counted once: for any number of machines    *)
(* and records, any limits and any faults.                                 *)
(*                                                                         *)
(* The invariant: a committed record is in the spool, has reached the      *)
(* broker or, a tick, is named by a gap record; and what a gap record      *)
(* names is a tick of its machine that has left the spool, so no tick is   *)
(* named twice.  It rests on the ticks' sequences being unique.            *)
(***************************************************************************)
EXTENDS StreamPipeline, FiniteSetTheorems, SequenceTheorems, TLAPS

Opened == open["tick"] \cup open["request"]
IsTick(r) == r.kind = "tick"
IsOwn(r) == r.kind # "gap"
OwnSeq(r) == IsOwn(r) => r.seq \in Nat /\ r.seq < nextSeq

SpoolTypes ==
    /\ nextSeq \in Nat
    /\ DOMAIN open = Writers
    /\ \A w \in Writers : IsFiniteSet(open[w])
    /\ IsFiniteSet(spool) /\ spool \subseteq written
    /\ DOMAIN log = Topics /\ \A t \in Topics : log[t] \in Seq(written)

\* Ticks and events have sequences of their own; what is open is not yet written.
SeqsUnique ==
    /\ \A r \in written \cup Opened : OwnSeq(r)
    /\ \A q, r \in written \cup Opened : IsOwn(q) /\ IsOwn(r) /\ q.seq = r.seq => q = r
    /\ \A r \in Opened : r.lost = {} /\ r \notin written /\ IsOwn(r)
    /\ open["tick"] \cap open["request"] = {}

\* A gap record names ticks of its machine that have left the spool.
GapsTrue ==
    \A g \in written : \A s \in g.lost :
        \E r \in TicksOf(written \ spool) : r.seq = s /\ r.machine = g.machine

GapsApart == \A g, h \in written : g.lost \cap h.lost # {} => g = h

Traced ==
    \A r \in written :
        r \in spool \cup OnBroker \/ (IsTick(r) /\ \E g \in written : r.seq \in g.lost)

\* What the broker acknowledged, it has.
AckedIsThere == batch \subseteq written /\ acked \subseteq OnBroker

\* Gap records are numbered too, so that a batch has an order.
Numbered == \A r \in written : r.seq \in Nat

SpoolInv ==
    SpoolTypes /\ SeqsUnique /\ GapsTrue /\ GapsApart /\ Traced /\ AckedIsThere /\ Numbered

LEMMA SpoolInit == Init => SpoolInv
  <1> SUFFICES ASSUME Init PROVE SpoolInv
    OBVIOUS
  <1> USE DEF Init
  <1>1. Opened = {}
    BY DEF Opened, Writers
  <1>2. SpoolTypes
    BY FS_EmptySet DEF SpoolTypes
  <1>3. SeqsUnique
    BY <1>1 DEF SeqsUnique, Writers
  <1>4. GapsTrue /\ GapsApart /\ Traced /\ AckedIsThere /\ Numbered
    BY DEF GapsTrue, GapsApart, Traced, AckedIsThere, Numbered
  <1> QED
    BY <1>2, <1>3, <1>4 DEF SpoolInv

\* The records of the log, one by one.
LEMMA OnBrokerIs ==
    OnBroker = UNION {{log[t][i] : i \in DOMAIN log[t]} : t \in Topics}
  BY DEF OnBroker, Range

\* What the spool and the writers' transactions do not touch.
LEMMA BrokerFrame == log' = log => OnBroker' = OnBroker
  BY DEF OnBroker

LEMMA SpoolRecord ==
    ASSUME SpoolInv, NEW w \in Writers, NEW kind \in Kinds \ {"gap"}, NEW m, NEW n,
           Spool(w, kind, m, n)
    PROVE  SpoolInv'
  <1> USE DEF SpoolInv
  <1> DEFINE x == [seq |-> nextSeq, kind |-> kind, machine |-> m, minute |-> n, lost |-> {}]
  <1>1. /\ open' = [open EXCEPT ![w] = open[w] \cup {x}]
        /\ nextSeq' = nextSeq + 1
        /\ UNCHANGED <<spool, written, log, batch, acked>>
    BY DEF Spool, passVars
  <1>2. x.seq = nextSeq /\ x.kind = kind /\ x.lost = {}
    OBVIOUS
  <1>3. \A v \in Writers : open'[v] = IF v = w THEN open[v] \cup {x} ELSE open[v]
    BY <1>1 DEF SpoolTypes
  <1> HIDE DEF x
  <1>4. SpoolTypes'
    <2>1. \A v \in Writers : IsFiniteSet(open[v]) /\ IsFiniteSet(open[v] \cup {x})
      BY FS_AddElement DEF SpoolTypes
    <2>2. \A v \in Writers : IsFiniteSet(open'[v])
      BY <1>3, <2>1
    <2>3. DOMAIN open' = Writers /\ nextSeq' \in Nat
      BY <1>1 DEF SpoolTypes
    <2> QED
      BY <1>1, <2>2, <2>3 DEF SpoolTypes
  <1>5. GapsTrue' /\ GapsApart' /\ Traced' /\ AckedIsThere' /\ Numbered'
    BY <1>1, BrokerFrame DEF GapsTrue, GapsApart, Traced, AckedIsThere, Numbered, TicksOf
  <1>6. Opened' = Opened \cup {x}
    BY <1>3 DEF Opened, Writers
  <1>7. \A r \in written \cup Opened : IsOwn(r) => r.seq \in Nat /\ r.seq < nextSeq
    BY DEF SeqsUnique, OwnSeq
  <1>8. \A r \in written \cup Opened : IsOwn(r) => r.seq # x.seq
    BY <1>2, <1>7 DEF SpoolTypes
  <1>9. IsOwn(x) /\ x \notin written /\ x \notin Opened
    BY <1>2, <1>8 DEF IsOwn
  <1>10. \A r \in (written \cup Opened)' : OwnSeq(r)'
    BY <1>1, <1>2, <1>6, <1>7 DEF OwnSeq, SpoolTypes
  <1>11. \A q, r \in (written \cup Opened)' : IsOwn(q) /\ IsOwn(r) /\ q.seq = r.seq => q = r
    BY <1>1, <1>6, <1>8 DEF SeqsUnique
  <1>12. \A r \in Opened' : r.lost = {} /\ r \notin written' /\ IsOwn(r)
    BY <1>1, <1>2, <1>6, <1>9 DEF SeqsUnique
  <1>13. open'["tick"] \cap open'["request"] = {}
    BY <1>3, <1>9 DEF SeqsUnique, Opened, Writers
  <1> QED
    BY <1>4, <1>5, <1>10, <1>11, <1>12, <1>13 DEF SeqsUnique

\* A transaction commits: its records are written and spooled.
LEMMA SpoolCommit ==
    ASSUME SpoolInv, NEW w \in Writers, Commit(w) PROVE SpoolInv'
  <1> USE DEF SpoolInv
  <1>1. /\ spool' = spool \cup open[w] /\ written' = written \cup open[w]
        /\ open' = [open EXCEPT ![w] = {}]
        /\ UNCHANGED <<nextSeq, log, batch, acked>>
    BY DEF Commit, passVars
  <1>2. \A v \in Writers : open'[v] = IF v = w THEN {} ELSE open[v]
    BY <1>1 DEF SpoolTypes
  <1>3. open[w] \subseteq Opened /\ Opened' \subseteq Opened /\ Opened' \cap open[w] = {}
    BY <1>2 DEF Opened, Writers, SeqsUnique
  <1>4. written' \cup Opened' \subseteq written \cup Opened
    BY <1>1, <1>3
  <1>5. SeqsUnique'
    <2>1. \A r \in written' \cup Opened' : OwnSeq(r)'
      BY <1>1, <1>4 DEF SeqsUnique, OwnSeq
    <2>2. \A q, r \in written' \cup Opened' : IsOwn(q) /\ IsOwn(r) /\ q.seq = r.seq => q = r
      BY <1>4 DEF SeqsUnique
    <2>3. \A r \in Opened' : r.lost = {} /\ r \notin written' /\ IsOwn(r)
      BY <1>1, <1>3 DEF SeqsUnique
    <2>4. open'["tick"] \cap open'["request"] = {}
      BY <1>2 DEF SeqsUnique, Writers
    <2> QED
      BY <2>1, <2>2, <2>3, <2>4 DEF SeqsUnique
  <1>6. SpoolTypes'
    <2>1. IsFiniteSet(spool \cup open[w]) /\ \A v \in Writers : IsFiniteSet(open'[v])
      BY <1>2, FS_EmptySet, FS_Union DEF SpoolTypes
    <2>2. \A t \in Topics : log[t] \in Seq(written \cup open[w])
      BY DEF SpoolTypes
    <2> QED
      BY <1>1, <2>1, <2>2 DEF SpoolTypes
  <1>7. \A r \in open[w] : r \notin written /\ r.lost = {}
    BY <1>3 DEF SeqsUnique
  <1>8. GapsTrue'
    BY <1>1, <1>7 DEF GapsTrue, TicksOf
  <1>9. GapsApart'
    BY <1>1, <1>7 DEF GapsApart
  <1>10. Traced' /\ AckedIsThere'
    BY <1>1, BrokerFrame DEF Traced, AckedIsThere
  <1>11. Numbered'
    BY <1>1, <1>3 DEF Numbered, SeqsUnique, OwnSeq
  <1> QED
    BY <1>5, <1>6, <1>8, <1>9, <1>10, <1>11

\* A transaction is rolled back, or all of them are.
LEMMA SpoolRollback ==
    ASSUME SpoolInv, DOMAIN open' = Writers,
           \A v \in Writers : open'[v] = open[v] \/ open'[v] = {},
           UNCHANGED <<nextSeq, spool, written, log>>,
           batch' = batch \/ batch' = {}, acked' = acked \/ acked' = {}
    PROVE  SpoolInv'
  <1> USE DEF SpoolInv
  <1>1. Opened' \subseteq Opened
    BY DEF Opened, Writers
  <1>2. SpoolTypes'
    BY FS_EmptySet DEF SpoolTypes
  <1>3. SeqsUnique'
    <2>1. \A r \in written' \cup Opened' : OwnSeq(r)'
      BY <1>1 DEF SeqsUnique, OwnSeq
    <2>2. open'["tick"] \cap open'["request"] = {}
      BY DEF SeqsUnique, Writers
    <2> QED
      BY <1>1, <2>1, <2>2 DEF SeqsUnique
  <1>4. GapsTrue' /\ GapsApart' /\ Traced' /\ AckedIsThere' /\ Numbered'
    BY BrokerFrame DEF GapsTrue, GapsApart, Traced, AckedIsThere, Numbered, TicksOf
  <1> QED
    BY <1>2, <1>3, <1>4

-----------------------------------------------------------------------------
\* What a pass drops is named by the gap records it writes, and by no other.

LEMMA GapIs ==
    \A m : Gap(m).kind = "gap" /\ Gap(m).machine = m
           /\ Gap(m).lost = {r.seq : r \in {q \in Dropped : q.machine = m}}
  BY DEF Gap

LEMMA DroppedIs == Dropped \subseteq TicksOf(spool)
  BY DEF Dropped

LEMMA GapsFinite == IsFiniteSet(spool) => IsFiniteSet(Gaps) /\ Cardinality(Gaps) \in Nat
  <1> SUFFICES ASSUME IsFiniteSet(spool) PROVE IsFiniteSet(Gaps)
    BY FS_CardinalityType
  <1> DEFINE named == [r \in Dropped |-> Gap(r.machine)]
  <1>1. IsFiniteSet(Dropped)
    BY DroppedIs, FS_Subset DEF TicksOf
  <1>2. named \in Surjection(Dropped, Gaps)
    <2>1. \A r \in Dropped : Gap(r.machine) \in Gaps
      BY DEF Gaps
    <2>2. \A g \in Gaps : \E r \in Dropped : Gap(r.machine) = g
      BY DEF Gaps
    <2> QED
      BY <2>1, <2>2 DEF Surjection
  <1> QED
    BY <1>1, <1>2, FS_Surjection

LEMMA GapsNumbered == IsFiniteSet(spool) /\ nextSeq \in Nat => \A g \in Gaps : g.seq \in Nat
  <1> SUFFICES ASSUME IsFiniteSet(spool), nextSeq \in Nat, NEW m PROVE Gap(m).seq \in Nat
    BY DEF Gaps
  <1> DEFINE all == {r.machine : r \in Dropped}
  <1> DEFINE machineOf == [r \in Dropped |-> r.machine]
  <1> DEFINE before == {o \in all : FirstDropped(o).seq < FirstDropped(m).seq}
  <1>1. IsFiniteSet(Dropped)
    BY DroppedIs, FS_Subset DEF TicksOf
  <1>2. machineOf \in Surjection(Dropped, all)
    BY DEF Surjection
  <1>3. IsFiniteSet(all)
    <2> HIDE DEF machineOf, all
    <2> QED
      BY <1>1, <1>2, FS_Surjection
  <1>4. before \subseteq all
    OBVIOUS
  <1> HIDE DEF before
  <1>5. Cardinality(before) \in Nat
    <2> HIDE DEF all
    <2> QED
      BY <1>3, <1>4, FS_Subset, FS_CardinalityType
  <1>6. Gap(m).seq = nextSeq + Cardinality(before)
    BY DEF Gap, GapSeq, before
  <1> QED
    BY <1>5, <1>6

LEMMA LimitKeeps ==
    ASSUME SpoolInv, EnforceLimit, UNCHANGED <<open, log>>,
           batch' = batch, acked' = acked
    PROVE  SpoolInv'
  <1> USE DEF SpoolInv
  <1>1. /\ spool' = (spool \ Dropped) \cup Gaps
        /\ written' = written \cup Gaps
        /\ nextSeq' = nextSeq + Cardinality(Gaps)
    BY DEF EnforceLimit
  <1>2. Dropped \subseteq spool /\ \A r \in Dropped : IsTick(r) /\ r \in written
    BY DroppedIs DEF TicksOf, IsTick, SpoolTypes
  <1>3. \A g \in Gaps : g.kind = "gap"
    BY GapIs DEF Gaps
  <1>4. \A g \in Gaps : \A s \in g.lost : \E r \in Dropped : r.seq = s /\ r.machine = g.machine
    <2> SUFFICES ASSUME NEW m, NEW s \in Gap(m).lost
                 PROVE  \E r \in Dropped : r.seq = s /\ r.machine = Gap(m).machine
      BY DEF Gaps
    <2> QED
      BY GapIs
  <1>5. \A r \in Dropped : Gap(r.machine) \in Gaps /\ r.seq \in Gap(r.machine).lost
    BY GapIs DEF Gaps
  <1>6. Opened' = Opened
    BY DEF Opened
  <1>7. SpoolTypes'
    <2>1. IsFiniteSet(Gaps) /\ Cardinality(Gaps) \in Nat
      BY GapsFinite DEF SpoolTypes
    <2>2. IsFiniteSet(spool')
      BY <1>1, <2>1, FS_Difference, FS_Union DEF SpoolTypes
    <2>3. nextSeq' \in Nat
      BY <1>1, <2>1 DEF SpoolTypes
    <2>4. \A t \in Topics : log[t] \in Seq(written \cup Gaps)
      BY DEF SpoolTypes
    <2> QED
      BY <1>1, <2>2, <2>3, <2>4 DEF SpoolTypes
  <1>8. SeqsUnique'
    <2>1. \A r \in (written \cup Opened)' : IsOwn(r) => r \in written \cup Opened
      BY <1>1, <1>3, <1>6 DEF IsOwn
    <2>2. nextSeq \in Nat /\ \A q \in Nat : q < nextSeq => q < nextSeq'
      BY <1>1, GapsFinite DEF SpoolTypes
    <2>3. \A r \in (written \cup Opened)' : OwnSeq(r)'
      BY <2>1, <2>2 DEF SeqsUnique, OwnSeq
    <2>4. \A q, r \in (written \cup Opened)' : IsOwn(q) /\ IsOwn(r) /\ q.seq = r.seq => q = r
      BY <2>1 DEF SeqsUnique
    <2>5. \A r \in Opened' : r.lost = {} /\ r \notin written' /\ IsOwn(r)
      BY <1>1, <1>3, <1>6 DEF SeqsUnique, IsOwn
    <2>6. open'["tick"] \cap open'["request"] = {}
      BY DEF SeqsUnique
    <2> QED
      BY <2>3, <2>4, <2>5, <2>6 DEF SeqsUnique
  <1>9. \A r \in TicksOf(written \ spool) : r \in TicksOf(written' \ spool')
    BY <1>1, <1>3 DEF TicksOf
  <1>10. \A r \in Dropped : r \in TicksOf(written' \ spool')
    BY <1>1, <1>2, <1>3 DEF TicksOf, IsTick
  <1>11. GapsTrue'
    <2> SUFFICES ASSUME NEW g \in written', NEW s \in g.lost
                 PROVE  \E r \in TicksOf(written' \ spool') : r.seq = s /\ r.machine = g.machine
      BY DEF GapsTrue
    <2>1. CASE g \in written
      BY <1>9, <2>1 DEF GapsTrue
    <2>2. CASE g \in Gaps
      BY <1>4, <1>10, <2>2
    <2> QED
      BY <1>1, <2>1, <2>2
  <1>12. ASSUME NEW q \in written, NEW r \in written, IsTick(q), IsTick(r), q.seq = r.seq
         PROVE  q = r
    BY <1>12 DEF SeqsUnique, IsTick, IsOwn
  <1>13. ASSUME NEW g \in written, NEW h \in Gaps, NEW s \in g.lost PROVE s \notin h.lost
    <2>1. PICK r \in TicksOf(written \ spool) : r.seq = s
      BY DEF GapsTrue
    <2> SUFFICES ASSUME s \in h.lost PROVE FALSE
      OBVIOUS
    <2>2. PICK q \in Dropped : q.seq = s
      BY <1>4
    <2>3. q = r
      BY <1>2, <1>12, <2>1, <2>2 DEF TicksOf, IsTick
    <2> QED
      BY <1>2, <2>1, <2>3 DEF TicksOf
  <1>14. ASSUME NEW g \in Gaps, NEW h \in Gaps, NEW s \in g.lost, s \in h.lost PROVE g = h
    <2>1. PICK q \in Dropped : q.seq = s /\ q.machine = g.machine
      BY <1>4
    <2>2. PICK r \in Dropped : r.seq = s /\ r.machine = h.machine
      BY <1>4, <1>14
    <2>3. g.machine = h.machine
      BY <1>2, <1>12, <2>1, <2>2
    <2> QED
      BY <2>3, GapIs DEF Gaps
  <1>15. GapsApart'
    BY <1>1, <1>13, <1>14 DEF GapsApart
  <1>16. Traced'
    <2> SUFFICES ASSUME NEW r \in written'
                 PROVE  r \in spool' \cup OnBroker \/ (IsTick(r) /\ \E g \in written' : r.seq \in g.lost)
      BY BrokerFrame DEF Traced
    <2>1. CASE r \in Dropped
      BY <1>1, <1>2, <1>5, <2>1
    <2>2. CASE r \notin Dropped
      BY <1>1, <2>2 DEF Traced
    <2> QED
      BY <2>1, <2>2
  <1>17. AckedIsThere' /\ Numbered'
    BY <1>1, BrokerFrame, GapsNumbered DEF AckedIsThere, Numbered, SpoolTypes
  <1> QED
    BY <1>7, <1>8, <1>11, <1>15, <1>16, <1>17

-----------------------------------------------------------------------------
\* The forwarder's other steps.

\* What leaves the spool after a batch is on the broker.
LEMMA ForwardKeeps ==
    ASSUME SpoolInv, UNCHANGED <<nextSeq, open, written>>,
           DOMAIN log' = Topics, \A t \in Topics : log'[t] \in Seq(written),
           OnBroker \subseteq OnBroker',
           spool' \subseteq spool, spool \ spool' \subseteq OnBroker,
           batch' \subseteq written, acked' \subseteq OnBroker'
    PROVE  SpoolInv'
  <1> USE DEF SpoolInv
  <1>1. IsFiniteSet(spool')
    BY FS_Subset DEF SpoolTypes
  <1>2. SpoolTypes'
    BY <1>1 DEF SpoolTypes
  <1>3. SeqsUnique'
    BY DEF SeqsUnique, OwnSeq, Opened
  <1>4. GapsTrue' /\ GapsApart'
    BY DEF GapsTrue, GapsApart, TicksOf
  <1>5. Traced' /\ AckedIsThere' /\ Numbered'
    BY DEF Traced, AckedIsThere, Numbered
  <1> QED
    BY <1>2, <1>3, <1>4, <1>5

LEMMA AppendedTo ==
    ASSUME NEW S, NEW a \in Seq(S), NEW b \in Seq(S), NEW c, c = a \o b
    PROVE  /\ c \in Seq(S) /\ Len(c) >= Len(a) /\ Range(a) \cup Range(b) \subseteq Range(c)
           /\ \A i \in 1 .. Len(a) : c[i] = a[i]
  <1>1. /\ Len(a) \in Nat /\ Len(b) \in Nat /\ Len(c) = Len(a) + Len(b)
        /\ c \in Seq(S)
        /\ \A i \in 1 .. Len(a) + Len(b) : c[i] = IF i <= Len(a) THEN a[i] ELSE b[i - Len(a)]
    BY ConcatProperties
  <1>2. DOMAIN a = 1 .. Len(a) /\ DOMAIN b = 1 .. Len(b) /\ DOMAIN c = 1 .. Len(a) + Len(b)
    BY <1>1
  <1>3. \A i \in 1 .. Len(a) : i \in DOMAIN c /\ c[i] = a[i]
    BY <1>1, <1>2
  <1>4. \A i \in 1 .. Len(b) : Len(a) + i \in DOMAIN c /\ c[Len(a) + i] = b[i]
    BY <1>1, <1>2
  <1>5. Range(a) \subseteq Range(c)
    BY <1>2, <1>3 DEF Range
  <1>6. Range(b) \subseteq Range(c)
    BY <1>2, <1>4 DEF Range
  <1> QED
    BY <1>1, <1>3, <1>5, <1>6

\* The broker appends the records it takes.
LEMMA SendAppends ==
    ASSUME SpoolInv, NEW telemetry \in Parts("telemetry"), NEW events \in Parts("events"),
           log' = [t \in Topics |-> log[t] \o (IF t = "telemetry" THEN telemetry ELSE events)]
    PROVE  /\ DOMAIN log' = Topics
           /\ \A t \in Topics : log'[t] \in Seq(written) /\ Len(log'[t]) >= Len(log[t])
                                /\ \A i \in 1 .. Len(log[t]) : log'[t][i] = log[t][i]
           /\ Range(telemetry) \cup Range(events) \cup OnBroker \subseteq OnBroker'
  <1> DEFINE landed(t) == IF t = "telemetry" THEN telemetry ELSE events
  <1>1. \A t \in Topics : landed(t) \in Seq(written)
    <2>1. telemetry \in Seq(written) /\ events \in Seq(written)
      BY FS_CardinalityType DEF SpoolInv, AckedIsThere, Parts
    <2> QED
      BY <2>1
  <1>2. ASSUME NEW t \in Topics
        PROVE  /\ log'[t] \in Seq(written) /\ Len(log'[t]) >= Len(log[t])
               /\ Range(log[t]) \cup Range(landed(t)) \subseteq Range(log'[t])
               /\ \A i \in 1 .. Len(log[t]) : log'[t][i] = log[t][i]
    <2>1. log[t] \in Seq(written) /\ landed(t) \in Seq(written) /\ log'[t] = log[t] \o landed(t)
      BY <1>1 DEF SpoolInv, SpoolTypes
    <2>2. PICK a : a = log[t]
      OBVIOUS
    <2>3. PICK b : b = landed(t)
      OBVIOUS
    <2>4. PICK c : c = log'[t]
      OBVIOUS
    <2>5. a \in Seq(written) /\ b \in Seq(written) /\ c = a \o b
      BY <2>1, <2>2, <2>3, <2>4
    <2>6. c \in Seq(written) /\ Len(c) >= Len(a)
      BY <2>5, AppendedTo
    <2>7. Range(a) \cup Range(b) \subseteq Range(c)
      BY <2>5, AppendedTo, Zenon
    <2>8. \A i \in 1 .. Len(a) : c[i] = a[i]
      BY <2>5, AppendedTo, SMT
    <2> QED
      BY <2>2, <2>3, <2>4, <2>6, <2>7, <2>8
  <1>3. landed("telemetry") = telemetry /\ landed("events") = events
    OBVIOUS
  <1> HIDE DEF landed
  <1>4. OnBroker' = UNION {Range(log'[t]) : t \in Topics}
    BY DEF OnBroker
  <1>5. OnBroker \subseteq OnBroker'
    BY <1>2, <1>4 DEF OnBroker
  <1>6. \A t \in Topics : Range(landed(t)) \subseteq OnBroker'
    BY <1>2, <1>4
  <1> QED
    BY <1>2, <1>3, <1>5, <1>6 DEF Topics

LEMMA SendKeeps ==
    ASSUME SpoolInv, NEW telemetry \in Parts("telemetry"), NEW events \in Parts("events"),
           NEW results \in SUBSET (Range(telemetry) \cup Range(events)),
           Send([t \in Topics |-> IF t = "telemetry" THEN telemetry ELSE events], results)
    PROVE  SpoolInv'
  <1>1. /\ log' = [t \in Topics |-> log[t] \o (IF t = "telemetry" THEN telemetry ELSE events)]
        /\ UNCHANGED <<nextSeq, open, spool, written, batch>> /\ acked' = results
    BY DEF Send, edgeVars
  <1>2. /\ DOMAIN log' = Topics /\ \A t \in Topics : log'[t] \in Seq(written)
        /\ Range(telemetry) \cup Range(events) \cup OnBroker \subseteq OnBroker'
    BY <1>1, SendAppends
  <1>3. batch' \subseteq written /\ acked' \subseteq OnBroker' /\ OnBroker \subseteq OnBroker'
    BY <1>1, <1>2 DEF SpoolInv, AckedIsThere
  <1> QED
    BY <1>1, <1>2, <1>3, ForwardKeeps

LEMMA FinishKeeps == ASSUME SpoolInv, FinishPass PROVE SpoolInv'
  <1>1. AcknowledgedPrefix \subseteq acked
    <2> SUFFICES ASSUME NEW r \in AcknowledgedPrefix PROVE ~Before(r, r)
      BY DEF AcknowledgedPrefix
    <2>1. r.seq \in Nat
      BY DEF AcknowledgedPrefix, SpoolInv, AckedIsThere, Numbered
    <2> QED
      BY <2>1 DEF Before, Priority
  <1>2. /\ UNCHANGED <<nextSeq, open, written, log>> /\ spool' = spool \ AcknowledgedPrefix
        /\ batch' = {} /\ acked' = {}
    BY DEF FinishPass
  <1>3. spool' \subseteq spool /\ spool \ spool' \subseteq OnBroker
    BY <1>1, <1>2 DEF SpoolInv, AckedIsThere
  <1>4. DOMAIN log' = Topics /\ \A t \in Topics : log'[t] \in Seq(written)
    BY <1>2 DEF SpoolInv, SpoolTypes
  <1> QED
    BY <1>2, <1>3, <1>4, BrokerFrame, ForwardKeeps

LEMMA ReadKeeps == ASSUME SpoolInv, ReadBatch PROVE SpoolInv'
  <1>1. UNCHANGED <<nextSeq, open, spool, written, acked, log>> /\ batch' \subseteq spool
    BY DEF ReadBatch, edgeVars
  <1>2. DOMAIN log' = Topics /\ \A t \in Topics : log'[t] \in Seq(written)
    BY <1>1 DEF SpoolInv, SpoolTypes
  <1>3. batch' \subseteq written /\ acked' \subseteq OnBroker'
    BY <1>1, BrokerFrame DEF SpoolInv, SpoolTypes, AckedIsThere
  <1> QED
    BY <1>1, <1>2, <1>3, BrokerFrame, ForwardKeeps

-----------------------------------------------------------------------------
LEMMA SpoolStep == SpoolInv /\ [Next]_vars => SpoolInv'
  <1> SUFFICES ASSUME SpoolInv, [Next]_vars PROVE SpoolInv'
    OBVIOUS
  <1> DEFINE Idle == /\ UNCHANGED <<nextSeq, open, spool, written, log>>
                     /\ (batch' = batch \/ batch' = {}) /\ (acked' = acked \/ acked' = {})
  <1>1. ASSUME Idle PROVE SpoolInv'
    BY <1>1, SpoolRollback DEF SpoolInv, SpoolTypes
  <1>2. UNCHANGED vars => Idle
    BY DEF vars, edgeVars, passVars
  <1>3. BackoffEnds \/ PassFails \/ ConnectFails => Idle
    BY DEF BackoffEnds, PassFails, ConnectFails, edgeVars
  <1>4. ConsumerFails \/ Consume => Idle
    <2>1. Fetch => Idle
      BY DEF Fetch, edgeVars, passVars
    <2>2. Store \/ CommitOffsets \/ ConsumerFails => Idle
      BY DEF Store, CommitOffsets, ConsumerFails, edgeVars, passVars
    <2> QED
      BY <2>1, <2>2 DEF Consume
  <1>5. ASSUME NEW w \in Writers, Rollback(w) PROVE SpoolInv'
    <2>1. /\ UNCHANGED <<nextSeq, spool, written, log, batch, acked>>
          /\ open' = [open EXCEPT ![w] = {}]
      BY <1>5 DEF Rollback, passVars
    <2> QED
      BY <2>1, SpoolRollback DEF SpoolInv, SpoolTypes
  <1>6. ASSUME Crash PROVE SpoolInv'
    <2>1. /\ UNCHANGED <<nextSeq, spool, written, log>>
          /\ batch' = {} /\ acked' = {} /\ open' = [w \in Writers |-> {}]
      BY <1>6 DEF Crash
    <2> QED
      BY <2>1, SpoolRollback
  <1>7. ASSUME NEW w \in Writers, Commit(w) PROVE SpoolInv'
    BY <1>7, SpoolCommit
  <1>8. ASSUME NEW w \in Writers, NEW kind \in Kinds \ {"gap"}, NEW m, NEW n, Spool(w, kind, m, n)
        PROVE  SpoolInv'
    BY <1>8, SpoolRecord
  <1>9. ASSUME NEW reachable \in BOOLEAN, BeginPass(reachable) PROVE SpoolInv'
    BY <1>9, LimitKeeps DEF BeginPass
  <1>10. ASSUME Forward PROVE SpoolInv'
    BY <1>1, <1>10, <1>3, ReadKeeps, FinishKeeps, SendKeeps DEF Forward
  <1> HIDE DEF Idle
  <1> QED
    BY <1>1, <1>6, <1>7, <1>8, <1>9, <1>10, <1>2, <1>3, <1>4, <1>5 DEF Next

\* The invariant of the spool.
THEOREM SpoolSafe == Spec => []SpoolInv
  BY SpoolInit, SpoolStep, PTL DEF Spec

\* A tick is named by one gap record, of its machine.
LEMMA TracedIsAccounted == SpoolInv => Accounted
  <1> SUFFICES ASSUME SpoolInv PROVE Accounted
    OBVIOUS
  <1> USE DEF SpoolInv
  <1>1. \A r \in written \ TicksOf(written) : r \in spool \cup OnBroker
    BY DEF Traced, TicksOf, IsTick
  <1>2. ASSUME NEW r \in TicksOf(written), NEW gaps, gaps = {g \in written : r.seq \in g.lost}
        PROVE  /\ Cardinality(gaps) <= 1 /\ \A g \in gaps : g.machine = r.machine
               /\ gaps = {} => r \in spool \cup OnBroker
    <2>1. \A g, h \in gaps : g = h
      BY <1>2 DEF GapsApart
    <2>2. gaps = {} \/ \E g : gaps = {g}
      BY <2>1
    <2>3. Cardinality(gaps) <= 1
      <3>1. Cardinality({}) = 0 /\ \A g : Cardinality({g}) = 1
        BY FS_EmptySet, FS_Singleton
      <3>2. CASE gaps = {}
        <4>1. Cardinality(gaps) = 0
          BY <3>1, <3>2
        <4> QED
          BY <4>1
      <3>3. CASE \E g : gaps = {g}
        <4>1. Cardinality(gaps) = 1
          BY <3>1, <3>3
        <4> QED
          BY <4>1
      <3> QED
        BY <2>2, <3>2, <3>3
    <2>4. \A g \in gaps : \E q \in TicksOf(written) : q.seq = r.seq /\ q.machine = g.machine
      BY <1>2 DEF GapsTrue, TicksOf
    <2>5. \A q \in TicksOf(written) : q.seq = r.seq => q = r
      BY DEF SeqsUnique, TicksOf, IsOwn
    <2>6. gaps = {} => r \in spool \cup OnBroker
      BY <1>2 DEF Traced, TicksOf
    <2> QED
      BY <2>3, <2>4, <2>5, <2>6
  <1> QED
    BY <1>1, <1>2 DEF Accounted

\* Every record that was spooled is in the spool, at the broker or, a tick,
\* counted in exactly one gap record of its machine, whatever the limits, the
\* order of the passes and the faults.
THEOREM NothingLostUncounted == Spec => []Accounted
  BY SpoolSafe, TracedIsAccounted, PTL

-----------------------------------------------------------------------------
\* The consumer.  What lies below the committed offset is stored, and the
\* offsets are committed to where the position stood when all of it was stored.

ReadInv ==
    /\ \A t \in Topics : /\ committed[t] \in Nat /\ position[t] \in Nat
                         /\ committed[t] <= position[t] /\ position[t] <= Len(log[t])
    /\ CommittedIsStored
    /\ cpc = "stored" => \A t \in Topics : \A i \in committed[t] + 1 .. position[t] : log[t][i] \in stored
    /\ RollupExact

LEMMA ReadInit == Init => ReadInv
  <1> SUFFICES ASSUME Init PROVE ReadInv
    OBVIOUS
  <1>1. /\ \A t \in Topics : committed[t] = 0 /\ position[t] = 0 /\ log[t] = <<>>
        /\ cpc = "poll" /\ stored = {} /\ rollup = [cell \in Cells |-> 0]
    BY DEF Init
  <1>2. RollupExact
    <2> SUFFICES ASSUME NEW cell \in Cells
                 PROVE  rollup[cell] = Cardinality({r \in TicksOf(stored) : CellOf(r) = cell})
      BY DEF RollupExact
    <2>1. {r \in TicksOf(stored) : CellOf(r) = cell} = {}
      BY <1>1 DEF TicksOf
    <2>2. rollup[cell] = 0
      BY <1>1
    <2> QED
      BY <2>1, <2>2, FS_EmptySet
  <1> QED
    BY <1>1, <1>2 DEF ReadInv, CommittedIsStored

\* The log only grows.
LEMMA LogGrows ==
    SpoolInv /\ [Next]_vars =>
        \A t \in Topics : Len(log'[t]) >= Len(log[t])
                         /\ \A i \in 1 .. Len(log[t]) : log'[t][i] = log[t][i]
  <1> SUFFICES ASSUME SpoolInv, [Next]_vars
               PROVE  \A t \in Topics : Len(log'[t]) >= Len(log[t])
                         /\ \A i \in 1 .. Len(log[t]) : log'[t][i] = log[t][i]
    OBVIOUS
  <1>1. ASSUME log' = log
        PROVE  \A t \in Topics : Len(log'[t]) >= Len(log[t])
                         /\ \A i \in 1 .. Len(log[t]) : log'[t][i] = log[t][i]
    BY <1>1 DEF SpoolInv, SpoolTypes
  <1>2. ASSUME NEW telemetry \in Parts("telemetry"), NEW events \in Parts("events"),
               NEW results,
               Send([t \in Topics |-> IF t = "telemetry" THEN telemetry ELSE events], results)
        PROVE  \A t \in Topics : Len(log'[t]) >= Len(log[t])
                         /\ \A i \in 1 .. Len(log[t]) : log'[t][i] = log[t][i]
    <2>1. log' = [t \in Topics |-> log[t] \o (IF t = "telemetry" THEN telemetry ELSE events)]
      BY <1>2 DEF Send
    <2> QED
      BY <2>1, SendAppends
  <1>3. UNCHANGED vars \/ BackoffEnds \/ PassFails \/ ConsumerFails \/ Crash => log' = log
    BY DEF vars, BackoffEnds, PassFails, ConsumerFails, Crash
  <1>4. \A w \in Writers : Commit(w) \/ Rollback(w) => log' = log
    BY DEF Commit, Rollback
  <1>5. \A w, kind, m, n : Spool(w, kind, m, n) => log' = log
    BY DEF Spool
  <1>6. \A reachable : BeginPass(reachable) => log' = log
    BY DEF BeginPass
  <1>7. ConnectFails \/ ReadBatch \/ FinishPass \/ Consume => log' = log
    <2>1. Fetch => log' = log
      BY DEF Fetch
    <2>2. ConnectFails \/ ReadBatch \/ FinishPass \/ Store \/ CommitOffsets => log' = log
      BY DEF ConnectFails, ReadBatch, FinishPass, Store, CommitOffsets
    <2> QED
      BY <2>1, <2>2 DEF Consume
  <1> QED
    BY <1>1, <1>2, <1>3, <1>4, <1>5, <1>6, <1>7 DEF Next, Forward

LEMMA ReadStep == SpoolInv /\ ReadInv /\ [Next]_vars => ReadInv'
  <1> SUFFICES ASSUME SpoolInv, ReadInv, [Next]_vars PROVE ReadInv'
    OBVIOUS
  <1>1. \A t \in Topics : /\ Len(log[t]) \in Nat /\ Len(log'[t]) >= Len(log[t])
                          /\ \A i \in 1 .. Len(log[t]) : log'[t][i] = log[t][i]
    BY LogGrows DEF SpoolInv, SpoolTypes
  <1>2. \A t \in Topics : /\ committed[t] \in Nat /\ position[t] \in Nat
                          /\ committed[t] <= position[t] /\ position[t] <= Len(log[t])
    BY DEF ReadInv
  <1>3. \A t \in Topics : \A i \in 1 .. committed[t] : log[t][i] \in stored /\ log'[t][i] = log[t][i]
    BY <1>1, <1>2 DEF ReadInv, CommittedIsStored
  <1>4. ASSUME UNCHANGED cloudVars PROVE ReadInv'
    <2>1. UNCHANGED <<cpc, position, committed, stored, rollup>>
      BY <1>4 DEF cloudVars
    <2>2. \A t \in Topics : \A i \in committed[t] + 1 .. position[t] : log'[t][i] = log[t][i]
      BY <1>1, <1>2
    <2>3. CommittedIsStored'
      BY <1>3, <2>1 DEF CommittedIsStored
    <2>4. RollupExact'
      BY <2>1 DEF ReadInv, RollupExact
    <2>5. \A t \in Topics : position[t] <= Len(log'[t])
      <3> SUFFICES ASSUME NEW t \in Topics, NEW n, n = Len(log'[t])
                   PROVE  position[t] <= n
        OBVIOUS
      <3>1. n >= Len(log[t]) /\ Len(log[t]) \in Nat
        BY <1>1
      <3> QED
        BY <1>2, <3>1
    <2> QED
      BY <1>2, <2>1, <2>2, <2>3, <2>4, <2>5 DEF ReadInv
  <1>5. ASSUME Fetch PROVE ReadInv'
    <2>1. PICK end \in [Topics -> 0 .. Len(log["telemetry"]) + Len(log["events"])] :
             /\ \A t \in Topics : position[t] <= end[t] /\ end[t] <= Len(log[t])
             /\ position' = end
      BY <1>5 DEF Fetch
    <2>2. \A t \in Topics : end[t] \in Nat
      BY <1>1, <2>1 DEF Topics
    <2>3. UNCHANGED <<log, committed, stored, rollup>> /\ cpc' = "fetched"
      BY <1>5 DEF Fetch
    <2> QED
      BY <1>1, <1>2, <2>1, <2>2, <2>3 DEF ReadInv, CommittedIsStored, RollupExact
  <1>6. ASSUME Store PROVE ReadInv'
    <2>1. /\ UNCHANGED <<log, position, committed>> /\ stored' = stored \cup Fetched
          /\ rollup' = [cell \in Cells |-> IF \E r \in NewTicks : CellOf(r) = cell
                                     THEN Recomputed(stored \cup Fetched, cell) ELSE rollup[cell]]
      BY <1>6 DEF Store
    <2>2. RollupExact'
      <3> SUFFICES ASSUME NEW cell \in Cells
                   PROVE  rollup'[cell] = Cardinality({r \in TicksOf(stored \cup Fetched) : CellOf(r) = cell})
        BY <2>1 DEF RollupExact, TicksOf, CellOf
      <3>1. CASE \E r \in NewTicks : CellOf(r) = cell
        BY <2>1, <3>1 DEF Recomputed
      <3>2. CASE ~ \E r \in NewTicks : CellOf(r) = cell
        <4>1. {r \in TicksOf(stored \cup Fetched) : CellOf(r) = cell}
                = {r \in TicksOf(stored) : CellOf(r) = cell}
          BY <3>2 DEF NewTicks, TicksOf
        <4> QED
          BY <2>1, <3>2, <4>1 DEF ReadInv, RollupExact
      <3> QED
        BY <3>1, <3>2
    <2>3. \A t \in Topics : \A i \in committed[t] + 1 .. position[t] : log[t][i] \in Fetched
      BY DEF Fetched
    <2> QED
      BY <1>2, <1>3, <2>1, <2>2, <2>3 DEF ReadInv, CommittedIsStored
  <1>7. ASSUME CommitOffsets PROVE ReadInv'
    <2>1. /\ cpc = "stored" /\ cpc' = "poll" /\ committed' = position
          /\ UNCHANGED <<log, position, stored, rollup>>
      BY <1>7 DEF CommitOffsets
    <2>2. \A t \in Topics : \A i \in 1 .. position[t] : log[t][i] \in stored
      BY <1>2, <1>3, <2>1 DEF ReadInv
    <2> QED
      BY <1>2, <2>1, <2>2 DEF ReadInv, CommittedIsStored, RollupExact
  <1>8. ASSUME ConsumerFails \/ Crash PROVE ReadInv'
    <2>1. /\ cpc' = "poll" /\ position' = committed
          /\ UNCHANGED <<log, committed, stored, rollup>>
      BY <1>8 DEF ConsumerFails, Crash
    <2> QED
      BY <1>1, <1>2, <2>1 DEF ReadInv, CommittedIsStored, RollupExact
  <1>9. UNCHANGED vars \/ BackoffEnds \/ PassFails \/ Forward => UNCHANGED cloudVars
    BY DEF vars, BackoffEnds, PassFails, Forward, ConnectFails, ReadBatch, FinishPass, Send
  <1>10. \A w \in Writers : Commit(w) \/ Rollback(w) => UNCHANGED cloudVars
    BY DEF Commit, Rollback
  <1>11. \A w, kind, m, n : Spool(w, kind, m, n) => UNCHANGED cloudVars
    BY DEF Spool
  <1>12. \A reachable : BeginPass(reachable) => UNCHANGED cloudVars
    BY DEF BeginPass
  <1> QED
    BY <1>4, <1>5, <1>6, <1>7, <1>8, <1>9, <1>10, <1>11, <1>12 DEF Next, Consume

\* What the consumer has committed is stored, and every stored tick counts once
\* in its machine's minute, whatever is sent twice, read twice or cut short.
THEOREM TablesKept == Spec => [](CommittedIsStored /\ RollupExact)
  <1>1. ReadInv => CommittedIsStored /\ RollupExact
    BY DEF ReadInv
  <1> QED
    BY <1>1, SpoolInit, SpoolStep, ReadInit, ReadStep, PTL DEF Spec

-----------------------------------------------------------------------------
(***************************************************************************)
(* The order of a machine's ticks.  They are committed in the order of     *)
(* their seqs, a batch is the front of the spool and what leaves the spool *)
(* is the front of a machine's ticks; so a tick that has left is older     *)
(* than every one of its machine that has not, and of those that left by   *)
(* way of the broker each was sent once more after all those before it.    *)
(***************************************************************************)
Copies(topic, r) == {i \in DOMAIN topic : topic[i] = r}
Follows(topic, q, r) == \E j \in Copies(topic, r) : \A i \in Copies(topic, q) : i < j
HasLast(topic, r) ==
    Copies(topic, r) # {} => \E j \in Copies(topic, r) : \A i \in Copies(topic, r) : i <= j

BatchInv ==
    /\ batch \subseteq spool /\ acked \subseteq batch
    /\ fpc \in {"idle", "connect"} => batch = {}

\* A transaction holds one tick, newer than every tick that is committed.
TicksInTurn ==
    /\ TicksOf(open["request"]) = {}
    /\ \A q, r \in TicksOf(open["tick"]) : q = r
    /\ \A q \in TicksOf(Opened), r \in TicksOf(written) : r.seq < q.seq

LeftInOrder ==
    \A q \in TicksOf(spool), r \in TicksOf(written \ spool) :
        q.machine = r.machine => r.seq < q.seq

BatchIsFront ==
    fpc \in {"send", "delete"} =>
        \A r \in TicksOf(batch), q \in TicksOf(spool) : q.seq < r.seq => q \in batch

SentInOrder ==
    fpc = "delete" =>
        \A r \in TicksOf(acked) :
            /\ \A q \in TicksOf(written \ spool) : Follows(log["telemetry"], q, r)
            /\ \A q \in TicksOf(acked) : q.seq < r.seq => Follows(log["telemetry"], q, r)

DeliveredInOrder ==
    \A q, r \in Delivered :
        q.machine = r.machine /\ q.seq < r.seq => Follows(log["telemetry"], q, r)

LastCopies == \A r \in written : HasLast(log["telemetry"], r)

EventsApart == \A i \in DOMAIN log["events"] : log["events"][i].kind = "event"

DeliveryInv ==
    /\ BatchInv /\ TicksInTurn /\ LeftInOrder /\ BatchIsFront
    /\ SentInOrder /\ DeliveredInOrder /\ LastCopies /\ EventsApart

LEMMA DeliveryInit == Init => DeliveryInv
  <1> SUFFICES ASSUME Init PROVE DeliveryInv
    OBVIOUS
  <1>1. /\ batch = {} /\ acked = {} /\ fpc = "idle" /\ spool = {} /\ written = {}
        /\ open["tick"] = {} /\ open["request"] = {}
    BY DEF Init, Writers
  <1>2. OnBroker = {}
    BY OnBrokerIs DEF Init, Topics
  <1>3. Delivered = {}
    BY <1>2 DEF Delivered, TicksOf
  <1>4. EventsApart
    BY DEF Init, EventsApart, Topics
  <1> QED
    BY <1>1, <1>3, <1>4 DEF DeliveryInv, BatchInv, TicksInTurn, LeftInOrder, BatchIsFront, SentInOrder,
                      DeliveredInOrder, LastCopies, TicksOf, Opened

LEMMA TickSeqs ==
    SpoolInv => /\ \A r \in TicksOf(written \cup Opened) : r.seq \in Nat /\ r.seq < nextSeq
                /\ \A q, r \in TicksOf(written \cup Opened) : q.seq = r.seq => q = r
                /\ spool \subseteq written /\ nextSeq \in Nat /\ IsFiniteSet(spool)
  BY DEF SpoolInv, SeqsUnique, OwnSeq, IsOwn, TicksOf, SpoolTypes

LEMMA TicksBefore ==
    ASSUME NEW q, NEW r, q.kind = "tick", r.kind = "tick" PROVE Before(q, r) <=> q.seq < r.seq
  BY DEF Before, Priority

LEMMA BeforeOrders ==
    ASSUME NEW p, NEW q, NEW r, p.seq \in Nat, q.seq \in Nat, r.seq \in Nat
    PROVE  ~Before(r, r) /\ (Before(p, q) /\ Before(q, r) => Before(p, r))
           /\ (~Before(q, p) /\ ~Before(r, q) => ~Before(r, p))
  BY DEF Before, Priority

\* Only the oldest ticks are dropped.
LEMMA DropsOldest ==
    ASSUME SpoolInv, NEW r \in Dropped, NEW q \in TicksOf(spool), q.seq <= r.seq
    PROVE  q \in Dropped
  <1> DEFINE ticks == TicksOf(spool)
  <1>1. IsFiniteSet(ticks) /\ \A p \in ticks : p.seq \in Nat
    BY TickSeqs, FS_Subset DEF TicksOf
  <1>2. Cardinality(ticks) \in Nat
    BY <1>1, FS_CardinalityType
  <1>3. Excess \in Int
    BY <1>2, StreamAssumption DEF Excess
  <1>4. r \in ticks /\ Cardinality(Older(ticks, r)) < Excess
    BY DEF Dropped
  <1>5. Older(ticks, q) \subseteq Older(ticks, r) /\ Older(ticks, r) \subseteq ticks
    BY <1>1, <1>4 DEF Older
  <1>6. /\ IsFiniteSet(Older(ticks, r)) /\ Cardinality(Older(ticks, r)) \in Nat
        /\ Cardinality(Older(ticks, q)) \in Nat
        /\ Cardinality(Older(ticks, q)) <= Cardinality(Older(ticks, r))
    BY <1>1, <1>5, FS_Subset, FS_CardinalityType
  <1>7. Cardinality(Older(ticks, q)) < Excess
    BY <1>3, <1>4, <1>6
  <1> QED
    BY <1>7 DEF Dropped

\* A batch is the front of the spool.
LEMMA ReadsFront ==
    ASSUME SpoolInv, NEW r \in spool, NEW q \in spool, Before(q, r),
           Cardinality({p \in spool : Before(p, r)}) < BatchSize
    PROVE  Cardinality({p \in spool : Before(p, q)}) < BatchSize
  <1>1. IsFiniteSet(spool) /\ \A p \in spool : p.seq \in Nat
    BY DEF SpoolInv, SpoolTypes, Numbered
  <1> DEFINE ahead(p) == {o \in spool : Before(o, p)}
  <1>2. ahead(q) \subseteq ahead(r) /\ ahead(r) \subseteq spool
    BY <1>1, BeforeOrders
  <1> HIDE DEF ahead
  <1>3. IsFiniteSet(ahead(r))
    BY <1>1, <1>2, FS_Subset
  <1>4. /\ Cardinality(ahead(r)) \in Nat /\ Cardinality(ahead(q)) \in Nat
        /\ Cardinality(ahead(q)) <= Cardinality(ahead(r))
    BY <1>2, <1>3, FS_Subset, FS_CardinalityType
  <1> QED
    BY <1>4, StreamAssumption DEF ahead

\* Records are appended, each once and in order.
LEMMA Resent ==
    ASSUME NEW W, NEW before \in Seq(W), NEW sent \in Seq(W), NEW after, after = before \o sent,
           \A i, j \in DOMAIN sent : i < j => sent[i] # sent[j]
    PROVE  /\ \A q, r : q \notin Range(sent) /\ Follows(before, q, r) => Follows(after, q, r)
           /\ \A q, r : q \notin Range(sent) /\ r \in Range(sent) => Follows(after, q, r)
           /\ \A i, j \in DOMAIN sent : i < j => Follows(after, sent[i], sent[j])
           /\ \A r : HasLast(before, r) => HasLast(after, r)
  <1> DEFINE n == Len(before)
  <1>1. /\ n \in Nat /\ DOMAIN before = 1 .. n
        /\ Len(sent) \in Nat /\ DOMAIN sent = 1 .. Len(sent)
        /\ DOMAIN after = 1 .. n + Len(sent)
        /\ \A i \in 1 .. n + Len(sent) : after[i] = IF i <= n THEN before[i] ELSE sent[i - n]
    BY ConcatProperties
  <1> HIDE DEF n
  <1>2. \A r : \A i \in Copies(before, r) : i \in Copies(after, r) /\ i \in Nat /\ i <= n
    BY <1>1 DEF Copies
  <1>3. \A k \in DOMAIN sent : n + k \in Copies(after, sent[k]) /\ k \in Nat /\ k >= 1
    BY <1>1 DEF Copies
  <1>4. ASSUME NEW r, NEW i \in Copies(after, r)
        PROVE  /\ i \in Nat
               /\ i \in Copies(before, r) \/ (\E k \in DOMAIN sent : i = n + k /\ sent[k] = r)
    <2>1. i \in 1 .. n + Len(sent) /\ after[i] = r
      BY <1>1, <1>4 DEF Copies
    <2>2. CASE i <= n
      BY <1>1, <2>1, <2>2 DEF Copies
    <2>3. CASE i > n
      <3>1. i - n \in DOMAIN sent /\ i = n + (i - n) /\ sent[i - n] = r
        BY <1>1, <2>1, <2>3
      <3> QED
        BY <2>1, <3>1
    <2> QED
      BY <1>1, <2>1, <2>2, <2>3
  <1>5. ASSUME NEW q, q \notin Range(sent) PROVE Copies(after, q) = Copies(before, q)
    <2>1. \A k \in DOMAIN sent : sent[k] # q
      BY <1>5 DEF Range
    <2>2. \A i \in Copies(after, q) : i \in Copies(before, q)
      BY <1>4, <2>1
    <2> QED
      BY <1>2, <2>2
  <1>6. ASSUME NEW k \in DOMAIN sent, NEW i \in Copies(after, sent[k]) PROVE i <= n + k
    <2>1. CASE i \in Copies(before, sent[k])
      BY <1>1, <1>2, <1>3, <2>1
    <2>2. CASE \E l \in DOMAIN sent : i = n + l /\ sent[l] = sent[k]
      <3>1. PICK l \in DOMAIN sent : i = n + l /\ sent[l] = sent[k]
        BY <2>2
      <3>2. l = k
        BY <1>1, <3>1
      <3> QED
        BY <1>1, <3>1, <3>2
    <2> QED
      BY <1>4, <1>6, <2>1, <2>2
  <1>7. \A q, r : q \notin Range(sent) /\ Follows(before, q, r) => Follows(after, q, r)
    BY <1>2, <1>5 DEF Follows
  <1>8. ASSUME NEW q, NEW r, q \notin Range(sent), r \in Range(sent) PROVE Follows(after, q, r)
    <2>1. PICK k \in DOMAIN sent : sent[k] = r
      BY <1>8 DEF Range
    <2>2. \A i \in Copies(after, q) : i < n + k
      BY <1>1, <1>2, <1>3, <1>5, <1>8
    <2> QED
      BY <1>3, <2>1, <2>2 DEF Follows
  <1>9. ASSUME NEW i \in DOMAIN sent, NEW j \in DOMAIN sent, i < j
        PROVE  Follows(after, sent[i], sent[j])
    <2>1. \A l \in Copies(after, sent[i]) : l < n + j
      BY <1>1, <1>3, <1>4, <1>6, <1>9
    <2> QED
      BY <1>3, <2>1 DEF Follows
  <1>10. ASSUME NEW r, HasLast(before, r) PROVE HasLast(after, r)
    <2>1. CASE r \in Range(sent)
      <3>1. PICK k \in DOMAIN sent : sent[k] = r
        BY <2>1 DEF Range
      <3> QED
        BY <1>3, <1>6, <3>1 DEF HasLast
    <2>2. CASE r \notin Range(sent)
      BY <1>5, <1>10, <2>2 DEF HasLast
    <2> QED
      BY <2>1, <2>2
  <1> QED
    BY <1>7, <1>8, <1>9, <1>10

\* Who has been delivered depends on the broker, the spool and the gap records.
LEMMA DeliveredFrame ==
    UNCHANGED <<spool, written, log>> => Delivered' = Delivered
  BY BrokerFrame DEF Delivered, TicksOf

LEMMA DeliveredIs ==
    SpoolInv => /\ OnBroker \subseteq written
                /\ Delivered \subseteq TicksOf(written \ spool)
  <1> SUFFICES ASSUME SpoolInv PROVE OnBroker \subseteq written
    BY DEF Delivered, TicksOf
  <1>1. \A t \in Topics : \A i \in DOMAIN log[t] : log[t][i] \in written
    BY DEF SpoolInv, SpoolTypes
  <1> QED
    BY <1>1, OnBrokerIs

\* Nothing is written, sent or taken from the spool; a transaction may be
\* rolled back, a pass may end.
LEMMA QuietOrders ==
    ASSUME DeliveryInv, UNCHANGED <<spool, written, log>>,
           \A w \in Writers : open'[w] \subseteq open[w],
           UNCHANGED <<fpc, batch, acked>> \/ (fpc' = "idle" /\ batch' = {} /\ acked' = {})
    PROVE  DeliveryInv'
  <1> USE DEF DeliveryInv
  <1>1. BatchInv' /\ BatchIsFront' /\ SentInOrder'
    <2>1. CASE UNCHANGED <<fpc, batch, acked>>
      BY <2>1 DEF BatchInv, BatchIsFront, SentInOrder, TicksOf
    <2>2. CASE fpc' = "idle" /\ batch' = {} /\ acked' = {}
      BY <2>2 DEF BatchInv, BatchIsFront, SentInOrder
    <2> QED
      BY <2>1, <2>2
  <1>2. TicksInTurn'
    BY DEF TicksInTurn, TicksOf, Opened, Writers
  <1>3. LeftInOrder' /\ DeliveredInOrder' /\ LastCopies' /\ EventsApart'
    BY DeliveredFrame DEF LeftInOrder, DeliveredInOrder, LastCopies, EventsApart, TicksOf
  <1> QED
    BY <1>1, <1>2, <1>3

\* A tick takes the next seq in a transaction that holds no other.
LEMMA SpoolOrders ==
    ASSUME SpoolInv, DeliveryInv, NEW w \in Writers, NEW kind \in Kinds \ {"gap"}, NEW m, NEW n,
           Spool(w, kind, m, n)
    PROVE  DeliveryInv'
  <1> USE DEF DeliveryInv
  <1> DEFINE x == [seq |-> nextSeq, kind |-> kind, machine |-> m, minute |-> n, lost |-> {}]
  <1>1. /\ open' = [open EXCEPT ![w] = open[w] \cup {x}]
        /\ kind = "tick" => w = "tick" /\ TicksOf(open[w]) = {}
        /\ UNCHANGED <<spool, written, log, fpc, batch, acked>>
    BY DEF Spool, passVars
  <1>2. x.seq = nextSeq /\ x.kind = kind
    OBVIOUS
  <1>3. \A v \in Writers : open'[v] = IF v = w THEN open[v] \cup {x} ELSE open[v]
    BY <1>1 DEF SpoolInv, SpoolTypes
  <1> HIDE DEF x
  <1>4. \A v \in Writers : TicksOf(open'[v]) =
            IF v = w /\ kind = "tick" THEN TicksOf(open[v]) \cup {x} ELSE TicksOf(open[v])
    BY <1>2, <1>3 DEF TicksOf
  <1>5. TicksOf(open'["request"]) = {} /\ \A q, r \in TicksOf(open'["tick"]) : q = r
    <2>1. TicksOf(open["request"]) = {} /\ \A q, r \in TicksOf(open["tick"]) : q = r
      BY DEF TicksInTurn
    <2>2. CASE kind = "tick"
      BY <1>1, <1>4, <2>1, <2>2 DEF Writers
    <2>3. CASE kind # "tick"
      BY <1>4, <2>1, <2>3 DEF Writers
    <2> QED
      BY <2>2, <2>3
  <1>6. \A q \in TicksOf(Opened') : q \in TicksOf(Opened) \/ q = x
    BY <1>3 DEF TicksOf, Opened, Writers
  <1>7. \A r \in TicksOf(written) : r.seq < x.seq
    BY <1>2, TickSeqs DEF TicksOf
  <1>8. \A q \in TicksOf(Opened'), r \in TicksOf(written) : r.seq < q.seq
    BY <1>6, <1>7 DEF TicksInTurn
  <1>9. TicksInTurn'
    <2>1. TicksOf(written') = TicksOf(written) /\ TicksOf(Opened)' = TicksOf(Opened')
      BY <1>1 DEF TicksOf
    <2> QED
      BY <1>1, <1>5, <1>8, <2>1 DEF TicksInTurn, TicksOf
  <1>10. LeftInOrder' /\ DeliveredInOrder' /\ LastCopies' /\ BatchInv' /\ BatchIsFront' /\ SentInOrder'
    BY <1>1, DeliveredFrame
       DEF LeftInOrder, DeliveredInOrder, LastCopies, BatchInv, BatchIsFront, SentInOrder, TicksOf
  <1>11. EventsApart'
    BY <1>1 DEF EventsApart
  <1> QED
    BY <1>9, <1>10, <1>11

\* What a transaction commits is newer than every tick before.
LEMMA CommitOrders ==
    ASSUME SpoolInv, DeliveryInv, NEW w \in Writers, Commit(w) PROVE DeliveryInv'
  <1> USE DEF DeliveryInv
  <1>1. /\ spool' = spool \cup open[w] /\ written' = written \cup open[w]
        /\ open' = [open EXCEPT ![w] = {}]
        /\ UNCHANGED <<log, fpc, batch, acked>>
    BY DEF Commit, passVars
  <1>2. \A v \in Writers : open'[v] = IF v = w THEN {} ELSE open[v]
    BY <1>1 DEF SpoolInv, SpoolTypes
  <1>3. open[w] \subseteq Opened /\ \A r \in open[w] : r \notin written /\ r.lost = {}
    BY DEF SpoolInv, SeqsUnique, Opened, Writers
  <1>4. \A r \in TicksOf(open[w]) : w = "tick" /\ r \in TicksOf(Opened)
    BY <1>3 DEF TicksInTurn, TicksOf, Writers
  <1>5. \A q \in TicksOf(Opened') : q \in TicksOf(Opened) /\ w # "tick"
    <2>1. \A q \in TicksOf(open'["tick"]) : q \in TicksOf(Opened) /\ w # "tick"
      BY <1>2 DEF TicksOf, Opened, Writers
    <2>2. \A q \in TicksOf(open'["request"]) : q \in TicksOf(open["request"])
      BY <1>2 DEF TicksOf, Writers
    <2> QED
      BY <2>1, <2>2 DEF TicksOf, Opened, TicksInTurn
  <1>6. TicksInTurn'
    <2>1. TicksOf(open'["request"]) = {} /\ \A q, r \in TicksOf(open'["tick"]) : q = r
      BY <1>2 DEF TicksInTurn, TicksOf, Writers
    <2>2. \A q \in TicksOf(Opened'), r \in TicksOf(written') : r.seq < q.seq
      <3> SUFFICES ASSUME NEW q \in TicksOf(Opened'), NEW r \in TicksOf(written') PROVE r.seq < q.seq
        OBVIOUS
      <3>1. r \in TicksOf(written)
        BY <1>1, <1>4, <1>5 DEF TicksOf
      <3> QED
        BY <1>5, <3>1 DEF TicksInTurn
    <2> QED
      BY <2>1, <2>2 DEF TicksInTurn, TicksOf
  <1>7. written' \ spool' \subseteq written \ spool
    BY <1>1
  <1>8. LeftInOrder'
    <2> SUFFICES ASSUME NEW q \in TicksOf(spool'), NEW r \in TicksOf(written' \ spool'),
                        q.machine = r.machine
                 PROVE  r.seq < q.seq
      BY DEF LeftInOrder, TicksOf
    <2>1. r \in TicksOf(written \ spool) /\ r \in TicksOf(written)
      BY <1>7 DEF TicksOf
    <2>2. CASE q \in spool
      BY <2>1, <2>2 DEF LeftInOrder, TicksOf
    <2>3. CASE q \in open[w]
      BY <1>4, <2>1, <2>3 DEF TicksInTurn, TicksOf
    <2> QED
      BY <1>1, <2>2, <2>3 DEF TicksOf
  <1>9. BatchIsFront'
    <2> SUFFICES ASSUME fpc \in {"send", "delete"}, NEW r \in TicksOf(batch), NEW q \in TicksOf(spool'),
                        q.seq < r.seq
                 PROVE  q \in batch
      BY <1>1 DEF BatchIsFront, TicksOf
    <2>1. r \in TicksOf(written) /\ r.seq \in Nat
      BY TickSeqs DEF BatchInv, TicksOf
    <2>2. CASE q \in spool
      BY <2>2 DEF BatchIsFront, TicksOf
    <2>3. CASE q \in open[w]
      <3>1. r.seq < q.seq /\ q.seq \in Nat
        BY <1>3, <1>4, <2>1, <2>3, TickSeqs DEF TicksInTurn, TicksOf
      <3> QED
        BY <2>1, <3>1
    <2> QED
      BY <1>1, <2>2, <2>3 DEF TicksOf
  <1>10. SentInOrder'
    BY <1>1, <1>7 DEF SentInOrder, TicksOf
  <1>11. DeliveredInOrder'
    <2>1. OnBroker' = OnBroker
      BY <1>1, BrokerFrame
    <2>2. \A g \in open[w] : \A s : s \notin g.lost
      BY <1>3
    <2>3. Delivered' \subseteq Delivered
      BY <1>1, <2>1, <2>2 DEF Delivered, TicksOf
    <2> QED
      BY <1>1, <2>3 DEF DeliveredInOrder
  <1>12. LastCopies'
    <2>1. \A r \in open[w] : Copies(log["telemetry"], r) = {}
      <3>1. \A i \in DOMAIN log["telemetry"] : log["telemetry"][i] \in written
        BY DEF SpoolInv, SpoolTypes, Topics
      <3> QED
        BY <1>3, <3>1 DEF Copies
    <2> QED
      BY <1>1, <2>1 DEF LastCopies, HasLast
  <1>13. BatchInv' /\ EventsApart'
    BY <1>1 DEF BatchInv, EventsApart
  <1> QED
    BY <1>6, <1>8, <1>9, <1>10, <1>11, <1>12, <1>13

\* A pass that drops ticks drops the oldest, and its gap records name them.
LEMMA LimitOrders ==
    ASSUME SpoolInv, DeliveryInv, NEW reachable \in BOOLEAN, BeginPass(reachable)
    PROVE  DeliveryInv'
  <1> USE DEF DeliveryInv
  <1>1. /\ spool' = (spool \ Dropped) \cup Gaps /\ written' = written \cup Gaps
        /\ UNCHANGED <<open, batch, acked, log>>
        /\ batch = {} /\ acked = {} /\ fpc' \in {"idle", "connect"}
    BY DEF BeginPass, EnforceLimit, BatchInv
  <1>2. Dropped \subseteq TicksOf(spool) /\ Dropped \subseteq spool /\ \A g \in Gaps : g.kind = "gap"
    BY DroppedIs, GapIs DEF TicksOf, Gaps
  <1>3. /\ TicksOf(spool') = TicksOf(spool) \ Dropped
        /\ TicksOf(written') = TicksOf(written)
        /\ TicksOf(written' \ spool') = TicksOf(written \ spool) \cup Dropped
    BY <1>1, <1>2, TickSeqs DEF TicksOf
  <1>4. LeftInOrder'
    <2> SUFFICES ASSUME NEW q \in TicksOf(spool'), NEW r \in TicksOf(written' \ spool'),
                        q.machine = r.machine
                 PROVE  r.seq < q.seq
      BY DEF LeftInOrder, TicksOf
    <2>1. CASE r \in Dropped
      <3>1. q \in TicksOf(spool) /\ q \notin Dropped /\ q.seq \in Nat /\ r.seq \in Nat
        BY <1>2, <1>3, <2>1, TickSeqs DEF TicksOf
      <3>2. ~(q.seq <= r.seq)
        BY <2>1, <3>1, DropsOldest
      <3> QED
        BY <3>1, <3>2
    <2>2. CASE r \in TicksOf(written \ spool)
      BY <1>3, <2>2 DEF LeftInOrder
    <2> QED
      BY <1>3, <2>1, <2>2
  <1>5. TicksInTurn'
    <2>1. Opened' = Opened
      BY <1>1 DEF Opened
    <2> QED
      BY <1>1, <1>3, <2>1 DEF TicksInTurn, TicksOf
  <1>6. DeliveredInOrder'
    <2>1. \A r \in Dropped : \E g \in written' : r.seq \in g.lost
      BY <1>1, GapIs DEF Gaps
    <2>2. OnBroker' = OnBroker
      BY <1>1, BrokerFrame
    <2>3. Delivered' \subseteq Delivered
      <3> SUFFICES ASSUME NEW r \in Delivered' PROVE r \in Delivered
        OBVIOUS
      <3>1. /\ r \in OnBroker /\ r \notin spool' /\ r.kind = "tick"
            /\ \A g \in written' : r.seq \notin g.lost
        BY <2>2 DEF Delivered, TicksOf
      <3>2. r \notin Dropped
        BY <2>1, <3>1
      <3> QED
        BY <1>1, <3>1, <3>2 DEF Delivered, TicksOf
    <2> QED
      BY <1>1, <2>3 DEF DeliveredInOrder
  <1>7. LastCopies'
    <2> SUFFICES ASSUME NEW r \in Gaps, r \notin written PROVE Copies(log["telemetry"], r) = {}
      BY <1>1 DEF LastCopies, HasLast
    <2>1. \A i \in DOMAIN log["telemetry"] : log["telemetry"][i] \in written
      BY DEF SpoolInv, SpoolTypes, Topics
    <2> QED
      BY <2>1 DEF Copies
  <1>8. BatchInv' /\ BatchIsFront' /\ SentInOrder' /\ EventsApart'
    BY <1>1 DEF BatchInv, BatchIsFront, SentInOrder, EventsApart
  <1> QED
    BY <1>4, <1>5, <1>6, <1>7, <1>8

\* The ticks of a batch are the spool's oldest.
LEMMA ReadOrders == ASSUME SpoolInv, DeliveryInv, ReadBatch PROVE DeliveryInv'
  <1> USE DEF DeliveryInv
  <1>1. /\ UNCHANGED <<open, spool, written, log, acked>> /\ fpc = "connect"
        /\ batch' = {r \in spool : Cardinality({q \in spool : Before(q, r)}) < BatchSize}
        /\ fpc' = IF spool = {} THEN "idle" ELSE "send"
    BY DEF ReadBatch, edgeVars
  <1>2. BatchInv'
    BY <1>1 DEF BatchInv
  <1>3. BatchIsFront'
    <2> SUFFICES ASSUME NEW r \in batch', NEW q \in spool, r.kind = "tick", q.kind = "tick",
                        q.seq < r.seq
                 PROVE  q \in batch'
      BY <1>1 DEF BatchIsFront, TicksOf
    <2>1. r \in spool /\ Cardinality({p \in spool : Before(p, r)}) < BatchSize
      BY <1>1
    <2>2. Before(q, r)
      BY TicksBefore
    <2>3. Cardinality({p \in spool : Before(p, q)}) < BatchSize
      BY <2>1, <2>2, ReadsFront
    <2> QED
      BY <1>1, <2>3
  <1>4. SentInOrder'
    BY <1>1 DEF SentInOrder
  <1>5. LeftInOrder' /\ DeliveredInOrder' /\ LastCopies' /\ TicksInTurn'
    BY <1>1, DeliveredFrame
       DEF LeftInOrder, DeliveredInOrder, LastCopies, TicksInTurn, Opened, TicksOf
  <1>6. EventsApart'
    BY <1>1 DEF EventsApart
  <1> QED
    BY <1>2, <1>3, <1>4, <1>5, <1>6

\* The broker's copies of what is sent follow all it had of the rest.
LEMMA SendOrders ==
    ASSUME SpoolInv, DeliveryInv,
           NEW telemetry \in Parts("telemetry"), NEW events \in Parts("events"),
           NEW results \in SUBSET (Range(telemetry) \cup Range(events)),
           Send([t \in Topics |-> IF t = "telemetry" THEN telemetry ELSE events], results)
    PROVE  DeliveryInv'
  <1> USE DEF DeliveryInv
  <1>1. /\ log' = [t \in Topics |-> log[t] \o (IF t = "telemetry" THEN telemetry ELSE events)]
        /\ UNCHANGED <<open, spool, written, batch>> /\ acked' = results
        /\ fpc = "send" /\ fpc' = "delete"
    BY DEF Send, edgeVars
  <1> DEFINE before == log["telemetry"]
             after == log'["telemetry"]
  <1>2. before \in Seq(written) /\ after = before \o telemetry
    BY <1>1 DEF SpoolInv, SpoolTypes, Topics
  <1>3. batch \subseteq written /\ batch \subseteq spool /\ \A r \in batch : r.seq \in Nat
    BY DEF SpoolInv, AckedIsThere, Numbered, BatchInv
  <1>4. /\ telemetry \in Seq(batch) /\ telemetry \in Seq(written) /\ events \in Seq(batch)
        /\ \A i, j \in DOMAIN telemetry : i < j => Before(telemetry[i], telemetry[j])
        /\ \A i \in DOMAIN events : events[i].kind = "event"
    <2>1. ASSUME NEW t \in Topics, NEW part \in Parts(t)
          PROVE  /\ part \in Seq(batch) /\ \A i \in DOMAIN part : TopicOf(part[i]) = t
                 /\ \A i, j \in DOMAIN part : i < j => Before(part[i], part[j])
      <3>1. PICK n \in 0 .. Cardinality(batch) : part \in [1 .. n -> {r \in batch : TopicOf(r) = t}]
        BY <2>1 DEF Parts
      <3>2. \A i, j \in DOMAIN part : i < j => Before(part[i], part[j])
        BY <2>1 DEF Parts
      <3>3. n \in Nat /\ DOMAIN part = 1 .. n /\ \A i \in 1 .. n : part[i] \in batch /\ TopicOf(part[i]) = t
        BY <3>1
      <3>4. part \in [1 .. n -> batch]
        BY <3>1, <3>3
      <3> QED
        BY <3>2, <3>3, <3>4
    <2>2. Seq(batch) \subseteq Seq(written)
      BY <1>3
    <2>3. "events" \in Topics /\ "telemetry" \in Topics
      BY DEF Topics
    <2>4. \A r : TopicOf(r) = "events" => r.kind = "event"
      BY DEF TopicOf
    <2> QED
      BY <2>1, <2>2, <2>3, <2>4
  <1>5. /\ Range(telemetry) \subseteq batch /\ Range(events) \subseteq batch
        /\ \A r \in Range(events) : r.kind = "event"
    BY <1>4 DEF Range
  <1>6. \A i, j \in DOMAIN telemetry : i < j => telemetry[i] # telemetry[j]
    <2>1. \A i \in DOMAIN telemetry : ~Before(telemetry[i], telemetry[i])
      BY <1>3, <1>4, BeforeOrders
    <2> QED
      BY <1>4, <2>1
  <1>7. /\ \A q, r : q \notin Range(telemetry) /\ Follows(before, q, r) => Follows(after, q, r)
        /\ \A q, r : q \notin Range(telemetry) /\ r \in Range(telemetry) => Follows(after, q, r)
        /\ \A i, j \in DOMAIN telemetry : i < j => Follows(after, telemetry[i], telemetry[j])
        /\ \A r : HasLast(before, r) => HasLast(after, r)
    <2> HIDE DEF before, after
    <2> QED
      BY <1>2, <1>4, <1>6, Resent
  <1> HIDE DEF before
  <1>8. \A r \in TicksOf(results) : r \in Range(telemetry)
    BY <1>5 DEF TicksOf
  <1>9. SentInOrder'
    <2>1. ASSUME NEW r \in TicksOf(results), NEW q \in TicksOf(written \ spool)
          PROVE  Follows(after, q, r)
      BY <1>3, <1>5, <1>7, <1>8, <2>1 DEF TicksOf
    <2>2. ASSUME NEW r \in TicksOf(results), NEW q \in TicksOf(results), q.seq < r.seq
          PROVE  Follows(after, q, r)
      <3>1. PICK i \in DOMAIN telemetry : telemetry[i] = q
        BY <1>8, <2>2 DEF Range
      <3>2. PICK j \in DOMAIN telemetry : telemetry[j] = r
        BY <1>8, <2>2 DEF Range
      <3>3. q.seq \in Nat /\ r.seq \in Nat /\ q.kind = "tick" /\ r.kind = "tick"
        BY <1>3, <1>5, <1>8, <2>2 DEF TicksOf
      <3>4. i \in Nat /\ j \in Nat /\ i # j
        BY <1>4, <2>2, <3>1, <3>2, <3>3
      <3>5. ~(j < i)
        BY <1>4, <2>2, <3>1, <3>2, <3>3, TicksBefore
      <3>6. i < j
        BY <3>4, <3>5
      <3> QED
        BY <1>7, <3>1, <3>2, <3>6
    <2> QED
      BY <1>1, <2>1, <2>2 DEF SentInOrder, TicksOf
  <1>10. OnBroker' \subseteq OnBroker \cup batch
    <2>1. \A t \in Topics : Range(log'[t]) \subseteq Range(log[t]) \cup batch
      <3> SUFFICES ASSUME NEW t \in Topics PROVE Range(log'[t]) \subseteq Range(log[t]) \cup batch
        OBVIOUS
      <3>1. PICK landed \in Seq(batch) : log'[t] = log[t] \o landed
        BY <1>1, <1>4
      <3>2. log[t] \in Seq(written)
        BY DEF SpoolInv, SpoolTypes
      <3>3. PICK a \in Seq(written) : a = log[t]
        BY <3>2
      <3>4. /\ Len(a) \in Nat /\ Len(landed) \in Nat /\ DOMAIN a = 1 .. Len(a)
            /\ DOMAIN landed = 1 .. Len(landed)
            /\ DOMAIN (a \o landed) = 1 .. Len(a) + Len(landed)
            /\ \A i \in 1 .. Len(a) + Len(landed) :
                  (a \o landed)[i] = IF i <= Len(a) THEN a[i] ELSE landed[i - Len(a)]
        BY ConcatProperties
      <3>5. ASSUME NEW i \in DOMAIN (a \o landed) PROVE (a \o landed)[i] \in Range(a) \cup batch
        <4>1. CASE i <= Len(a)
          BY <3>4, <4>1 DEF Range
        <4>2. CASE i > Len(a)
          <5>1. i - Len(a) \in DOMAIN landed
            BY <3>4, <4>2
          <5> QED
            BY <3>4, <4>2, <5>1
        <4> QED
          BY <3>4, <4>1, <4>2
      <3> QED
        BY <3>1, <3>3, <3>5 DEF Range
    <2> QED
      BY <2>1 DEF OnBroker
  <1>11. DeliveredInOrder'
    <2>1. Delivered' \subseteq Delivered
      BY <1>1, <1>3, <1>10 DEF Delivered, TicksOf
    <2>2. \A q \in Delivered : q \notin Range(telemetry)
      BY <1>3, <1>5 DEF Delivered, TicksOf
    <2> SUFFICES ASSUME NEW q \in Delivered', NEW r \in Delivered',
                        q.machine = r.machine, q.seq < r.seq
                 PROVE  Follows(after, q, r)
      BY DEF DeliveredInOrder
    <2>3. Follows(before, q, r)
      BY <2>1 DEF DeliveredInOrder, before
    <2> QED
      BY <1>7, <2>1, <2>2, <2>3
  <1>12. LastCopies'
    BY <1>1, <1>7 DEF LastCopies, before
  <1>13. BatchInv' /\ BatchIsFront'
    BY <1>1, <1>5 DEF BatchInv, BatchIsFront, TicksOf
  <1>14. EventsApart'
    <2>1. log'["events"] = log["events"] \o events /\ log["events"] \in Seq(written)
      BY <1>1 DEF SpoolInv, SpoolTypes, Topics
    <2>2. events \in Seq(written)
      BY <1>3, <1>4
    <2>3. \A i \in DOMAIN log["events"] : log["events"][i].kind = "event"
      BY DEF EventsApart
    <2>4. ASSUME NEW a \in Seq(written), NEW b \in Seq(written), NEW i \in DOMAIN (a \o b),
                 \A k \in DOMAIN a : a[k].kind = "event", \A k \in DOMAIN b : b[k].kind = "event"
          PROVE  (a \o b)[i].kind = "event"
      <3>1. /\ Len(a) \in Nat /\ Len(b) \in Nat /\ DOMAIN a = 1 .. Len(a) /\ DOMAIN b = 1 .. Len(b)
            /\ DOMAIN (a \o b) = 1 .. Len(a) + Len(b)
            /\ \A k \in 1 .. Len(a) + Len(b) : (a \o b)[k] = IF k <= Len(a) THEN a[k] ELSE b[k - Len(a)]
        BY ConcatProperties
      <3>2. CASE i <= Len(a)
        BY <2>4, <3>1, <3>2
      <3>3. CASE i > Len(a)
        <4>1. i - Len(a) \in DOMAIN b
          BY <3>1, <3>3
        <4> QED
          BY <2>4, <3>1, <3>3, <4>1
      <3> QED
        BY <3>1, <3>2, <3>3
    <2> QED
      BY <1>4, <2>1, <2>2, <2>3, <2>4 DEF EventsApart
  <1>15. TicksInTurn' /\ LeftInOrder'
    BY <1>1 DEF TicksInTurn, LeftInOrder, TicksOf, Opened
  <1> QED
    BY <1>9, <1>11, <1>12, <1>13, <1>15, <1>14

\* What leaves the spool is the front of its machine's ticks, just sent in order.
LEMMA FinishOrders == ASSUME SpoolInv, DeliveryInv, FinishPass PROVE DeliveryInv'
  <1> USE DEF DeliveryInv
  <1>1. /\ fpc = "delete" /\ fpc' = "idle" /\ batch' = {} /\ acked' = {}
        /\ spool' = spool \ AcknowledgedPrefix /\ UNCHANGED <<open, written, log>>
    BY DEF FinishPass
  <1>2. batch \subseteq spool /\ spool \subseteq written /\ \A r \in batch : r.seq \in Nat
    BY DEF SpoolInv, SpoolTypes, Numbered, BatchInv
  <1>3. \A r \in AcknowledgedPrefix : r \in batch /\ r \in acked
    BY <1>2, BeforeOrders DEF AcknowledgedPrefix
  <1>4. ASSUME NEW r \in AcknowledgedPrefix, NEW q \in batch, q.machine = r.machine, Before(q, r)
        PROVE  q \in AcknowledgedPrefix
    <2> SUFFICES ASSUME NEW p \in batch, p.machine = q.machine, ~Before(q, p) PROVE p \in acked
      BY DEF AcknowledgedPrefix
    <2>1. ~Before(r, q)
      BY <1>2, <1>3, <1>4, BeforeOrders
    <2>2. ~Before(r, p)
      BY <1>2, <1>3, <2>1, BeforeOrders
    <2> QED
      BY <1>4, <2>2 DEF AcknowledgedPrefix
  <1>5. LeftInOrder'
    <2> SUFFICES ASSUME NEW q \in TicksOf(spool'), NEW r \in TicksOf(written \ spool'),
                        q.machine = r.machine
                 PROVE  r.seq < q.seq
      BY <1>1 DEF LeftInOrder, TicksOf
    <2>1. CASE r \in spool
      <3>1. r \in AcknowledgedPrefix /\ r \in TicksOf(batch) /\ q \notin AcknowledgedPrefix
        BY <1>1, <1>3, <2>1 DEF TicksOf
      <3>2. /\ q \in TicksOf(spool) /\ q.seq \in Nat /\ r.seq \in Nat /\ q.seq # r.seq
            /\ q.kind = "tick" /\ r.kind = "tick"
        BY <1>1, <1>2, <2>1, <3>1, TickSeqs DEF TicksOf
      <3>3. ~(q.seq < r.seq)
        <4> SUFFICES ASSUME q.seq < r.seq PROVE FALSE
          OBVIOUS
        <4>1. q \in batch
          BY <1>1, <3>1, <3>2 DEF BatchIsFront
        <4> QED
          BY <1>4, <3>1, <3>2, <4>1, TicksBefore
      <3> QED
        BY <3>2, <3>3
    <2>2. CASE r \notin spool
      BY <1>1, <2>2 DEF LeftInOrder, TicksOf
    <2> QED
      BY <2>1, <2>2
  <1>6. DeliveredInOrder'
    <2> SUFFICES ASSUME NEW q \in Delivered', NEW r \in Delivered',
                        q.machine = r.machine, q.seq < r.seq
                 PROVE  Follows(log["telemetry"], q, r)
      BY <1>1 DEF DeliveredInOrder
    <2>1. OnBroker' = OnBroker
      BY <1>1, BrokerFrame
    <2>2. \A p \in Delivered' : p \in TicksOf(written) /\ (p \in Delivered \/ p \in spool)
      BY <1>1, <2>1, DeliveredIs DEF Delivered, TicksOf
    <2>3. \A p \in Delivered' : p \in spool => p \in AcknowledgedPrefix /\ p \in TicksOf(acked)
      BY <1>1, <1>3 DEF Delivered, TicksOf
    <2>4. CASE r \in spool
      <3>1. CASE q \in spool
        BY <1>1, <2>3, <2>4, <3>1 DEF SentInOrder
      <3>2. CASE q \notin spool
        BY <1>1, <2>2, <2>3, <2>4, <3>2 DEF SentInOrder, TicksOf
      <3> QED
        BY <3>1, <3>2
    <2>5. CASE r \notin spool
      <3>1. CASE q \in spool
        <4>1. q \in TicksOf(spool) /\ r \in TicksOf(written \ spool)
          BY <2>2, <2>5, <3>1 DEF TicksOf
        <4>2. r.seq < q.seq /\ q.seq \in Nat /\ r.seq \in Nat
          BY <2>2, <4>1, TickSeqs DEF LeftInOrder, TicksOf
        <4> QED
          BY <4>2
      <3>2. CASE q \notin spool
        BY <2>2, <2>5, <3>2 DEF DeliveredInOrder
      <3> QED
        BY <3>1, <3>2
    <2> QED
      BY <2>4, <2>5
  <1>7. BatchInv' /\ BatchIsFront' /\ SentInOrder' /\ TicksInTurn' /\ LastCopies'
    BY <1>1 DEF BatchInv, BatchIsFront, SentInOrder, TicksInTurn, LastCopies, Opened, TicksOf
  <1>8. EventsApart'
    BY <1>1 DEF EventsApart
  <1> QED
    BY <1>5, <1>6, <1>7, <1>8

LEMMA DeliveryStep == SpoolInv /\ DeliveryInv /\ [Next]_vars => DeliveryInv'
  <1> SUFFICES ASSUME SpoolInv, DeliveryInv, [Next]_vars PROVE DeliveryInv'
    OBVIOUS
  <1> DEFINE Quiet == /\ UNCHANGED <<spool, written, log>>
                      /\ \A w \in Writers : open'[w] \subseteq open[w]
                      /\ \/ UNCHANGED <<fpc, batch, acked>>
                         \/ fpc' = "idle" /\ batch' = {} /\ acked' = {}
  <1>1. ASSUME Quiet PROVE DeliveryInv'
    BY <1>1, QuietOrders
  <1>2. UNCHANGED vars \/ BackoffEnds \/ PassFails \/ ConsumerFails => Quiet
    BY DEF vars, BackoffEnds, PassFails, ConsumerFails, edgeVars, passVars
  <1>3. Crash => Quiet
    BY DEF Crash
  <1>4. \A w \in Writers : Rollback(w) => Quiet
    BY DEF Rollback, passVars, SpoolInv, SpoolTypes
  <1>5. Consume => Quiet
    <2>1. Fetch => Quiet
      BY DEF Fetch, edgeVars, passVars
    <2>2. Store \/ CommitOffsets => Quiet
      BY DEF Store, CommitOffsets, edgeVars, passVars
    <2> QED
      BY <2>1, <2>2 DEF Consume
  <1>6. ConnectFails => Quiet
    BY DEF ConnectFails, edgeVars, DeliveryInv, BatchInv
  <1>7. ASSUME Forward PROVE DeliveryInv'
    BY <1>1, <1>6, <1>7, ReadOrders, FinishOrders, SendOrders DEF Forward
  <1> HIDE DEF Quiet
  <1>8. ASSUME NEW w \in Writers, NEW kind \in Kinds \ {"gap"}, NEW m, NEW n, Spool(w, kind, m, n)
        PROVE  DeliveryInv'
    BY <1>8, SpoolOrders
  <1> QED
    BY <1>1, <1>2, <1>3, <1>4, <1>5, <1>7, <1>8, CommitOrders, LimitOrders DEF Next

\* The last of the broker's copies of a record.
LEMMA LastCopyIs ==
    ASSUME DeliveryInv, NEW r \in written, Copies(log["telemetry"], r) # {}
    PROVE  /\ LastCopy(r) \in Copies(log["telemetry"], r)
           /\ \A i \in Copies(log["telemetry"], r) : i <= LastCopy(r)
  <1>1. \E i \in DOMAIN log["telemetry"] :
            /\ log["telemetry"][i] = r
            /\ \A j \in DOMAIN log["telemetry"] : log["telemetry"][j] = r => j <= i
    BY DEF DeliveryInv, LastCopies, HasLast, Copies
  <1>2. /\ LastCopy(r) \in DOMAIN log["telemetry"]
        /\ log["telemetry"][LastCopy(r)] = r
        /\ \A j \in DOMAIN log["telemetry"] : log["telemetry"][j] = r => j <= LastCopy(r)
    BY <1>1, Zenon DEF LastCopy
  <1> QED
    BY <1>2 DEF Copies

LEMMA DeliveryIsInOrder == SpoolInv /\ DeliveryInv => LastCopiesInOrder
  <1> SUFFICES ASSUME SpoolInv, DeliveryInv, NEW q \in Delivered, NEW r \in Delivered,
                      q.machine = r.machine, q.seq < r.seq
               PROVE  LastCopy(q) < LastCopy(r)
    BY DEF LastCopiesInOrder
  <1> DEFINE topic == log["telemetry"]
  <1>1. topic \in Seq(written)
    BY DEF SpoolInv, SpoolTypes, Topics
  <1>2. ASSUME NEW p \in Delivered PROVE p \in written /\ Copies(topic, p) # {}
    <2>1. p \in written /\ p \in OnBroker /\ p.kind = "tick"
      BY <1>2, DeliveredIs DEF Delivered, TicksOf
    <2>2. PICK t \in Topics : \E i \in DOMAIN log[t] : log[t][i] = p
      BY <2>1, OnBrokerIs
    <2>3. t = "telemetry"
      BY <2>1, <2>2 DEF Topics, DeliveryInv, EventsApart
    <2> QED
      BY <2>1, <2>2, <2>3 DEF Copies
  <1>3. q \in written /\ r \in written /\ Follows(topic, q, r)
    BY <1>2 DEF DeliveryInv, DeliveredInOrder
  <1>4. PICK j \in Copies(topic, r) : \A i \in Copies(topic, q) : i < j
    BY <1>3 DEF Follows
  <1>5. LastCopy(q) < j
    BY <1>2, <1>3, <1>4, LastCopyIs
  <1>6. j <= LastCopy(r) /\ LastCopy(r) \in Copies(topic, r) /\ LastCopy(q) \in Copies(topic, q)
    BY <1>2, <1>3, LastCopyIs
  <1>7. \A p : \A i \in Copies(topic, p) : i \in Nat
    BY <1>1 DEF Copies
  <1>8. LastCopy(q) \in Nat /\ LastCopy(r) \in Nat /\ j \in Nat
    BY <1>6, <1>7
  <1> QED
    BY <1>5, <1>6, <1>8

\* What the consumer puts away is complete and counted once, and the last copies
\* of a machine's ticks lie in the order they were spooled, whatever failed and
\* was sent again: a later value never makes way for an earlier one.
THEOREM TablesAreExact == Spec => []TablesExact
  <1>1. ReadInv => CommittedIsStored /\ RollupExact
    BY DEF ReadInv
  <1>2. SpoolInv /\ ReadInv /\ DeliveryInv => TablesExact
    BY <1>1, DeliveryIsInOrder DEF TablesExact
  <1> QED
    BY <1>2, SpoolInit, SpoolStep, ReadInit, ReadStep, DeliveryInit, DeliveryStep, PTL DEF Spec
=============================================================================

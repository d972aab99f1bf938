-------------------------- MODULE SafetyEngineProofs --------------------------
(***************************************************************************)
(* The engine's memory and the incident rows agree, for any number of      *)
(* rules, incidents, engines, rollbacks and degraded rules, when requests  *)
(* do not overlap a tick.                                                  *)
(*                                                                         *)
(* The invariant follows a tick through its transaction: the engine that   *)
(* evaluates believes the rows as the transaction has them, the checkpoint *)
(* believes the committed rows, and an effect waiting to be sent is about  *)
(* a row that is committed or part of the transaction.  A second invariant *)
(* follows the clock's count of unresolved incidents: it is right between  *)
(* ticks, and within one the queued effects will make it right.            *)
(***************************************************************************)
EXTENDS SafetyEngine, SequenceTheorems, FiniteSetTheorems, WellFoundedInduction, TLAPS

Severities == {"none", "warning", "critical"}
Effects == [kind : {"slow", "announce", "normal"}, id : Incidents]
EngineRecords ==
    [hazard : [Rules -> Severities], openId : [Rules -> Incidents \cup {NoIncident}],
     degraded : SUBSET Rules, unresolved : SUBSET Incidents, effects : Seq(Effects)]

\* A row whose status is what its hazard and acknowledgement make it.
Settled(row) ==
    /\ row \in Rows
    /\ row.status = "resolved" <=> row.ended /\ (row.acked \/ (row.severity = "warning" /\ ~row.manual))
    /\ row.status = "acknowledged" => row.acked
    /\ row.status = "open" => ~row.acked
    /\ row.status = "none" => row = NoRow
    /\ row.manual => row.ended

\* Every open incident of an engine is a row of its own whose hazard goes on.
Believed(e, rows) ==
    /\ \A r \in Rules : e.hazard[r] = "none" <=> e.openId[r] = NoIncident
    /\ \A r \in Rules : e.openId[r] # NoIncident =>
          /\ rows[e.openId[r]].status # "none" /\ ~rows[e.openId[r]].ended
          /\ rows[e.openId[r]].severity = e.hazard[r]
    /\ \A q, r \in Rules : e.openId[q] = e.openId[r] /\ e.openId[q] # NoIncident => q = r

\* What an engine waits to announce is known.
AnnouncesOf(e, known) == \A n \in DOMAIN e.effects : e.effects[n].kind = "announce" => e.effects[n].id \in known

-----------------------------------------------------------------------------
\* What an engine does to its memory, for any engine and rows.

LEMMA RowFacts == NoRow \in Rows /\ Settled(NoRow) /\ 0 \notin Incidents
  BY DEF NoRow, Rows, Settled, Incidents

LEMMA MergeIsNew == \A old, new \in Rows : Merge(old, old, new) = new
  <1> SUFFICES ASSUME NEW old \in Rows, NEW new \in Rows PROVE Merge(old, old, new) = new
    OBVIOUS
  <1>1. Merge(old, old, new) = [f \in DOMAIN old |-> new[f]]
    BY DEF Merge
  <1>2. DOMAIN old = DOMAIN new
    BY DEF Rows
  <1>3. new = [f \in DOMAIN new |-> new[f]]
    BY DEF Rows
  <1> QED
    BY <1>1, <1>2, <1>3

LEMMA OpensBelieved ==
    ASSUME NEW e \in EngineRecords, NEW rows \in [Incidents -> Rows], Believed(e, rows),
           NEW r \in Rules, NEW i \in Incidents, rows[i].status = "none",
           NEW severity \in {"warning", "critical"},
           NEW row \in Rows, row.status # "none", ~row.ended, row.severity = severity
    PROVE  /\ Believes(e, r, severity, i) \in EngineRecords
           /\ Believed(Believes(e, r, severity, i), [rows EXCEPT ![i] = row])
  <1> DEFINE f == Believes(e, r, severity, i)
  <1>1. /\ f.hazard = [e.hazard EXCEPT ![r] = severity] /\ f.openId = [e.openId EXCEPT ![r] = i]
        /\ f.degraded = e.degraded /\ f.unresolved = e.unresolved /\ f.effects = e.effects
        /\ f \in EngineRecords
    BY DEF Believes, EngineRecords, Severities
  <1>2. i # NoIncident
    BY RowFacts DEF NoIncident
  <1>3. \A q \in Rules : e.openId[q] # i
    BY <1>2 DEF Believed
  <1>4. /\ \A q \in Rules : f.openId[q] = IF q = r THEN i ELSE e.openId[q]
        /\ \A q \in Rules : f.hazard[q] = IF q = r THEN severity ELSE e.hazard[q]
    BY <1>1 DEF EngineRecords
  <1>5. \A q \in Rules : e.openId[q] \in Incidents \cup {NoIncident}
    BY DEF EngineRecords
  <1> HIDE DEF f
  <1>6. \A j \in Incidents : [rows EXCEPT ![i] = row][j] = IF j = i THEN row ELSE rows[j]
    OBVIOUS
  <1>7. Believed(f, [rows EXCEPT ![i] = row])
    BY <1>2, <1>3, <1>4, <1>5, <1>6 DEF Believed
  <1> QED
    BY <1>1, <1>7 DEF f

LEMMA EscalatesBelieved ==
    ASSUME NEW e \in EngineRecords, NEW rows \in [Incidents -> Rows], Believed(e, rows),
           NEW r \in Rules, e.hazard[r] = "warning",
           NEW row \in Rows, row.status # "none", ~row.ended, row.severity = "critical"
    PROVE  /\ e.openId[r] \in Incidents
           /\ Believes(e, r, "critical", e.openId[r]) \in EngineRecords
           /\ Believed(Believes(e, r, "critical", e.openId[r]), [rows EXCEPT ![e.openId[r]] = row])
  <1> DEFINE f == Believes(e, r, "critical", e.openId[r])
  <1>1. e.openId[r] \in Incidents /\ e.openId[r] # NoIncident
    BY DEF Believed, EngineRecords
  <1>2. PICK i \in Incidents : i = e.openId[r]
    BY <1>1
  <1>3. /\ f.hazard = [e.hazard EXCEPT ![r] = "critical"] /\ f.openId = [e.openId EXCEPT ![r] = i]
        /\ f \in EngineRecords
    BY <1>2 DEF Believes, EngineRecords, Severities
  <1>4. \A q \in Rules : e.openId[q] = i => q = r
    BY <1>1, <1>2 DEF Believed
  <1>5. /\ \A q \in Rules : f.openId[q] = e.openId[q]
        /\ \A q \in Rules : f.hazard[q] = IF q = r THEN "critical" ELSE e.hazard[q]
    BY <1>2, <1>3 DEF EngineRecords
  <1>6. \A q \in Rules : e.openId[q] \in Incidents \cup {NoIncident}
    BY DEF EngineRecords
  <1> HIDE DEF f
  <1>7. \A j \in Incidents : [rows EXCEPT ![i] = row][j] = IF j = i THEN row ELSE rows[j]
    OBVIOUS
  <1>8. Believed(f, [rows EXCEPT ![i] = row])
    BY <1>1, <1>2, <1>4, <1>5, <1>6, <1>7 DEF Believed
  <1> QED
    BY <1>1, <1>2, <1>3, <1>8 DEF f

LEMMA ClosesBelieved ==
    ASSUME NEW e \in EngineRecords, NEW rows \in [Incidents -> Rows], Believed(e, rows),
           NEW r \in Rules, e.hazard[r] # "none", NEW row \in Rows
    PROVE  /\ e.openId[r] \in Incidents
           /\ Believes(e, r, "none", NoIncident) \in EngineRecords
           /\ Believed(Believes(e, r, "none", NoIncident), [rows EXCEPT ![e.openId[r]] = row])
  <1> DEFINE f == Believes(e, r, "none", NoIncident)
  <1>1. e.openId[r] \in Incidents /\ e.openId[r] # NoIncident
    BY DEF Believed, EngineRecords
  <1>2. PICK i \in Incidents : i = e.openId[r]
    BY <1>1
  <1>3. /\ f.hazard = [e.hazard EXCEPT ![r] = "none"] /\ f.openId = [e.openId EXCEPT ![r] = NoIncident]
        /\ f \in EngineRecords
    BY <1>2 DEF Believes, EngineRecords, Severities
  <1>4. \A q \in Rules : e.openId[q] = i => q = r
    BY <1>1, <1>2 DEF Believed
  <1>5. /\ \A q \in Rules : f.openId[q] = IF q = r THEN NoIncident ELSE e.openId[q]
        /\ \A q \in Rules : f.hazard[q] = IF q = r THEN "none" ELSE e.hazard[q]
    BY <1>2, <1>3 DEF EngineRecords
  <1>6. \A q \in Rules : e.openId[q] \in Incidents \cup {NoIncident}
    BY DEF EngineRecords
  <1> HIDE DEF f
  <1>7. \A j \in Incidents : [rows EXCEPT ![i] = row][j] = IF j = i THEN row ELSE rows[j]
    OBVIOUS
  <1>8. Believed(f, [rows EXCEPT ![i] = row])
    BY <1>1, <1>2, <1>4, <1>5, <1>6, <1>7 DEF Believed
  <1> QED
    BY <1>1, <1>2, <1>3, <1>8 DEF f

\* The elements of a concatenation.
LEMMA ConcatElements ==
    ASSUME NEW S, NEW a \in Seq(S), NEW b \in Seq(S), NEW c, c = a \o b
    PROVE  /\ c \in Seq(S)
           /\ \A n \in DOMAIN c : \/ n \in DOMAIN a /\ c[n] = a[n]
                                  \/ \E k \in DOMAIN b : c[n] = b[k]
  <1>1. /\ Len(a) \in Nat /\ Len(b) \in Nat /\ Len(c) = Len(a) + Len(b)
        /\ c \in Seq(S)
        /\ \A i \in 1 .. Len(a) + Len(b) : c[i] = IF i <= Len(a) THEN a[i] ELSE b[i - Len(a)]
    BY ConcatProperties
  <1>2. DOMAIN a = 1 .. Len(a) /\ DOMAIN b = 1 .. Len(b) /\ DOMAIN c = 1 .. Len(a) + Len(b)
    BY <1>1
  <1>3. ASSUME NEW n \in DOMAIN c
        PROVE  (n \in DOMAIN a /\ c[n] = a[n]) \/ \E k \in DOMAIN b : c[n] = b[k]
    <2>1. CASE n <= Len(a)
      BY <1>1, <1>2, <2>1
    <2>2. CASE ~(n <= Len(a))
      <3>1. n - Len(a) \in DOMAIN b /\ c[n] = b[n - Len(a)]
        BY <1>1, <1>2, <2>2
      <3> QED
        BY <3>1
    <2> QED
      BY <2>1, <2>2
  <1> QED
    BY <1>1, <1>3

\* Queueing effects changes no belief.
LEMMA MarksUnresolved ==
    ASSUME NEW e \in EngineRecords, NEW i \in Incidents, NEW f, f = MarkUnresolved(e, i)
    PROVE  /\ f \in EngineRecords /\ f.hazard = e.hazard /\ f.openId = e.openId
           /\ \A known : AnnouncesOf(e, known) => AnnouncesOf(f, known \cup {i})
  <1>1. e.effects \in Seq(Effects)
    BY DEF EngineRecords
  <1> DEFINE more == <<[kind |-> "slow", id |-> i], [kind |-> "announce", id |-> i]>>
  <1>2. more \in Seq(Effects) /\ Len(more) = 2 /\ more[1].id = i /\ more[2].id = i
    BY DEF Effects
  <1>3. f = [e EXCEPT !.unresolved = e.unresolved \cup {i}, !.effects = e.effects \o more]
    BY DEF MarkUnresolved
  <1> HIDE DEF more
  <1>4. e.effects \o more \in Seq(Effects)
    BY <1>1, <1>2
  <1>5. /\ f.hazard = e.hazard /\ f.openId = e.openId
        /\ f.effects = e.effects \o more /\ f \in EngineRecords
    BY <1>4, <1>3 DEF EngineRecords
  <1>6. \A n \in DOMAIN f.effects : \/ n \in DOMAIN e.effects /\ f.effects[n] = e.effects[n]
                                   \/ f.effects[n].id = i
    <2>1. \A k \in DOMAIN more : more[k].id = i
      BY <1>2
    <2>2. PICK a \in Seq(Effects) : a = e.effects
      BY <1>1
    <2>3. PICK b \in Seq(Effects) : b = more
      BY <1>2
    <2>4. PICK c : c = f.effects
      OBVIOUS
    <2>5. c = a \o b
      BY <1>5, <2>2, <2>3, <2>4
    <2>6. \A n \in DOMAIN c : \/ n \in DOMAIN a /\ c[n] = a[n]
                             \/ \E k \in DOMAIN b : c[n] = b[k]
      <3>1. ASSUME NEW n \in DOMAIN c
            PROVE  (n \in DOMAIN a /\ c[n] = a[n]) \/ \E k \in DOMAIN b : c[n] = b[k]
        BY <2>5, ConcatElements
      <3> QED
        BY <3>1
    <2> QED
      BY <2>1, <2>2, <2>3, <2>4, <2>6, Zenon
  <1> QED
    BY <1>5, <1>6 DEF AnnouncesOf

LEMMA MarksResolved ==
    ASSUME NEW e \in EngineRecords, NEW i \in Incidents, NEW f, f = MarkResolved(e, i)
    PROVE  /\ f \in EngineRecords /\ f.hazard = e.hazard /\ f.openId = e.openId
           /\ \A known : AnnouncesOf(e, known) => AnnouncesOf(f, known)
  <1>1. e.effects \in Seq(Effects)
    BY DEF EngineRecords
  <1> DEFINE more == [kind |-> "normal", id |-> i]
  <1>2. more \in Effects /\ more.kind = "normal"
    BY DEF Effects
  <1>3. CASE i \notin e.unresolved
    BY <1>3 DEF MarkResolved
  <1>4. CASE i \in e.unresolved
    <2>1. f = [e EXCEPT !.unresolved = e.unresolved \ {i}, !.effects = Append(e.effects, more)]
      BY <1>4 DEF MarkResolved
    <2> HIDE DEF more
    <2>2. Append(e.effects, more) \in Seq(Effects)
      BY <1>1, <1>2
    <2>3. /\ f.hazard = e.hazard /\ f.openId = e.openId
          /\ f.effects = Append(e.effects, more) /\ f \in EngineRecords
      BY <2>1, <2>2 DEF EngineRecords
    <2>4. /\ DOMAIN f.effects = 1 .. Len(e.effects) + 1 /\ DOMAIN e.effects = 1 .. Len(e.effects)
          /\ Len(e.effects) \in Nat
          /\ \A n \in 1 .. Len(e.effects) + 1 :
                f.effects[n] = IF n <= Len(e.effects) THEN e.effects[n] ELSE more
      BY <1>1, <2>3
    <2>5. \A n \in DOMAIN f.effects : \/ n \in DOMAIN e.effects /\ f.effects[n] = e.effects[n]
                                     \/ f.effects[n].kind = "normal"
      BY <1>2, <2>4
    <2> QED
      BY <2>3, <2>5 DEF AnnouncesOf
  <1> QED
    BY <1>3, <1>4

-----------------------------------------------------------------------------
\* The rows as the tick's transaction has them.
NowRow == [i \in Incidents |-> IF tick.pc = "rules" THEN Loaded(i).new ELSE db[i]]
Known == {i \in Incidents : db[i].status # "none"}
InTick == IF tick.pc = "rules" THEN DOMAIN tick.rows ELSE {}

RowsInv ==
    /\ db \in [Incidents -> Rows] /\ cloud = db
    /\ \A i \in Incidents : Settled(db[i])
    /\ announced \subseteq Known

EnginesInv ==
    /\ engines \in [1 .. MaxContexts -> EngineRecords]
    /\ built \in 0 .. MaxContexts /\ (installed = 0 \/ installed = built)

AckInv ==
    /\ ack.pc \in {"idle", "commit", "notify"}
    /\ ack.pc = "commit" =>
          /\ ack.id \in Incidents /\ db[ack.id].status # "none"
          /\ ack.old = db[ack.id] /\ ack.new = Acknowledged(db[ack.id])
    /\ ack.pc = "notify" => ack.id \in Incidents
    /\ tick.pc # "idle" => ack.pc = "idle"

TickInv ==
    /\ tick.pc \in {"idle", "rules", "committed"}
    /\ tick.pc # "idle" => /\ tick.ctx \in 1 .. MaxContexts
                           /\ tick.ctx = installed \/ tick.ctx = built + 1
    /\ tick.pc = "rules" =>
          /\ tick.saved \in [1 .. MaxContexts -> EngineRecords]
          /\ DOMAIN tick.rows \subseteq Incidents
          /\ \A i \in DOMAIN tick.rows :
                /\ tick.rows[i].old = db[i]
                /\ Settled(tick.rows[i].new) /\ tick.rows[i].new.status # "none"

BeliefInv ==
    /\ tick.pc # "idle" => Believed(engines[tick.ctx], NowRow)
    /\ tick.pc = "rules" /\ installed # 0 => Believed(tick.saved[installed], db)
    /\ tick.pc = "idle" /\ installed # 0 => Believed(engines[installed], db)

EffectInv ==
    /\ tick.pc # "idle" => AnnouncesOf(engines[tick.ctx], Known \cup InTick)
    /\ installed # 0 /\ (tick.pc = "idle" \/ tick.ctx # installed) =>
          AnnouncesOf(engines[installed], Known)

EngineInv == RowsInv /\ EnginesInv /\ AckInv /\ TickInv /\ BeliefInv /\ EffectInv

LEMMA NowFacts ==
    ASSUME EngineInv
    PROVE  /\ NowRow \in [Incidents -> Rows] /\ \A i \in Incidents : Settled(NowRow[i])
           /\ tick.pc # "rules" => NowRow = db
           /\ tick.pc = "rules" =>
                 \A i \in Incidents : NowRow[i] = IF i \in DOMAIN tick.rows THEN tick.rows[i].new ELSE db[i]
  BY DEF EngineInv, RowsInv, TickInv, NowRow, Loaded, Settled

\* A rule's step that leaves the rows alone.
LEMMA RuleWithoutRow ==
    ASSUME EngineInv, tick.pc = "rules", NEW f \in EngineRecords,
           engines' = [engines EXCEPT ![tick.ctx] = f], Proceed(tick.rows), Unaffected,
           f.hazard = engines[tick.ctx].hazard, f.openId = engines[tick.ctx].openId,
           f.effects = engines[tick.ctx].effects
    PROVE  EngineInv'
  <1> USE DEF EngineInv
  <1>1. /\ UNCHANGED <<db, cloud, installed, built, ack, announced>>
        /\ tick' = [pc |-> "rules", ctx |-> tick.ctx, next |-> tick.next + 1, saved |-> tick.saved,
                    rows |-> tick.rows]
    BY DEF Unaffected, Proceed
  <1>2. /\ tick'.pc = "rules" /\ tick'.ctx = tick.ctx /\ tick'.saved = tick.saved
        /\ tick'.rows = tick.rows
    BY <1>1
  <1>3. NowRow' = NowRow /\ Known' = Known /\ InTick' = InTick
    BY <1>1, <1>2 DEF NowRow, Known, InTick, Loaded
  <1>4. engines'[tick.ctx] = f /\ engines' \in [1 .. MaxContexts -> EngineRecords]
        /\ \A c \in 1 .. MaxContexts : c # tick.ctx => engines'[c] = engines[c]
    BY DEF EnginesInv, TickInv
  <1>5. Believed(f, NowRow) /\ AnnouncesOf(f, Known \cup InTick)
    BY DEF BeliefInv, EffectInv, Believed, AnnouncesOf
  <1>6. RowsInv' /\ EnginesInv' /\ AckInv' /\ TickInv'
    BY <1>1, <1>2, <1>3, <1>4 DEF RowsInv, EnginesInv, AckInv, TickInv
  <1>7. BeliefInv'
    BY <1>1, <1>2, <1>3, <1>4, <1>5 DEF BeliefInv
  <1>8. EffectInv'
    BY <1>1, <1>2, <1>3, <1>4, <1>5 DEF EffectInv, EnginesInv
  <1> QED
    BY <1>6, <1>7, <1>8

\* A row written in the transaction is what the transaction has from then on.
LEMMA RowWritten ==
    ASSUME EngineInv, tick.pc = "rules", NEW i \in Incidents, NEW row,
           Proceed(WithRow(i, row)), Unaffected
    PROVE  /\ tick'.pc = "rules" /\ tick'.ctx = tick.ctx /\ tick'.saved = tick.saved
           /\ DOMAIN tick'.rows = DOMAIN tick.rows \cup {i}
           /\ \A j \in DOMAIN tick.rows \cup {i} :
                 /\ tick'.rows[j].new = IF j = i THEN row ELSE tick.rows[j].new
                 /\ tick'.rows[j].old = db[j]
           /\ NowRow' = [NowRow EXCEPT ![i] = row]
           /\ Known' = Known /\ InTick' = InTick \cup {i}
  <1> USE DEF EngineInv
  <1>1. /\ UNCHANGED <<db, cloud, installed, built, ack, announced>>
        /\ tick' = [pc |-> "rules", ctx |-> tick.ctx, next |-> tick.next + 1, saved |-> tick.saved,
                    rows |-> WithRow(i, row)]
    BY DEF Unaffected, Proceed
  <1>2. /\ tick'.pc = "rules" /\ tick'.ctx = tick.ctx /\ tick'.saved = tick.saved
        /\ tick'.rows = WithRow(i, row)
    BY <1>1
  <1>3. /\ DOMAIN tick'.rows = DOMAIN tick.rows \cup {i}
        /\ \A j \in DOMAIN tick.rows \cup {i} :
              /\ tick'.rows[j].new = IF j = i THEN row ELSE tick.rows[j].new
              /\ tick'.rows[j].old = db[j]
    BY <1>2 DEF WithRow, Loaded, TickInv
  <1>4. NowRow' = [NowRow EXCEPT ![i] = row]
    BY <1>1, <1>2, <1>3 DEF NowRow, Loaded
  <1>5. Known' = Known /\ InTick' = InTick \cup {i}
    BY <1>1, <1>2, <1>3 DEF Known, InTick
  <1> QED
    BY <1>2, <1>3, <1>4, <1>5

\* A rule's step that changes a row, and what the engine believes of it.
LEMMA RuleWithRow ==
    ASSUME EngineInv, tick.pc = "rules", NEW f \in EngineRecords, NEW i \in Incidents, NEW row,
           engines' = [engines EXCEPT ![tick.ctx] = f], Proceed(WithRow(i, row)), Unaffected,
           Settled(row), row.status # "none",
           Believed(f, [NowRow EXCEPT ![i] = row]),
           AnnouncesOf(f, Known \cup (DOMAIN tick.rows \cup {i}))
    PROVE  EngineInv'
  <1> USE DEF EngineInv
  <1>1. UNCHANGED <<db, cloud, installed, built, ack, announced>>
    BY DEF Unaffected
  <1>2. tick'.pc = "rules" /\ tick'.ctx = tick.ctx /\ tick'.saved = tick.saved
    BY RowWritten
  <1>3. /\ DOMAIN tick'.rows = DOMAIN tick.rows \cup {i}
        /\ \A j \in DOMAIN tick.rows \cup {i} :
              /\ tick'.rows[j].new = IF j = i THEN row ELSE tick.rows[j].new
              /\ tick'.rows[j].old = db[j]
    BY RowWritten
  <1>4. NowRow' = [NowRow EXCEPT ![i] = row]
    BY RowWritten
  <1>5. Known' = Known /\ InTick' = DOMAIN tick.rows \cup {i}
    BY RowWritten DEF InTick
  <1>6. engines'[tick.ctx] = f /\ engines' \in [1 .. MaxContexts -> EngineRecords]
        /\ \A c \in 1 .. MaxContexts : c # tick.ctx => engines'[c] = engines[c]
    BY DEF EnginesInv, TickInv
  <1>7. RowsInv' /\ EnginesInv' /\ AckInv'
    BY <1>1, <1>2, <1>5, <1>6 DEF RowsInv, EnginesInv, AckInv
  <1>8. TickInv'
    BY <1>1, <1>2, <1>3 DEF TickInv
  <1>9. BeliefInv'
    BY <1>1, <1>2, <1>4, <1>6 DEF BeliefInv
  <1>10. EffectInv'
    BY <1>1, <1>2, <1>5, <1>6 DEF EffectInv, EnginesInv
  <1> QED
    BY <1>7, <1>8, <1>9, <1>10

-----------------------------------------------------------------------------
\* The rules' steps.

LEMMA LeaveKeeps == ASSUME EngineInv, NEW r \in Rules, LeaveRule(r) PROVE EngineInv'
  <1>1. engines[tick.ctx] \in EngineRecords /\ engines' = [engines EXCEPT ![tick.ctx] = engines[tick.ctx]]
    BY DEF LeaveRule, Evaluates, EngineInv, EnginesInv, TickInv
  <1>2. tick.pc = "rules" /\ Proceed(tick.rows) /\ Unaffected
    BY DEF LeaveRule, Evaluates
  <1> QED
    BY <1>1, <1>2, RuleWithoutRow

LEMMA DegradeKeeps == ASSUME EngineInv, NEW r \in Rules, DegradeRule(r) PROVE EngineInv'
  <1>1. engines[tick.ctx] \in EngineRecords
    BY DEF DegradeRule, Evaluates, EngineInv, EnginesInv, TickInv
  <1> DEFINE f == [engines[tick.ctx] EXCEPT !.degraded = engines[tick.ctx].degraded \cup {r}]
  <1>2. /\ f \in EngineRecords /\ f.hazard = engines[tick.ctx].hazard
        /\ f.openId = engines[tick.ctx].openId /\ f.effects = engines[tick.ctx].effects
    BY <1>1 DEF EngineRecords
  <1>3. tick.pc = "rules" /\ Proceed(tick.rows) /\ Unaffected /\ engines' = [engines EXCEPT ![tick.ctx] = f]
    BY DEF DegradeRule, Evaluates, SetEngine, Engine
  <1> HIDE DEF f
  <1> QED
    BY <1>2, <1>3, RuleWithoutRow

LEMMA OpenKeeps ==
    ASSUME EngineInv, NEW r \in Rules, NEW severity \in {"warning", "critical"},
           OpenIncident(r, severity)
    PROVE  EngineInv'
  <1> USE DEF EngineInv
  <1>1. /\ tick.pc = "rules" /\ Engine \in EngineRecords /\ Believed(Engine, NowRow)
        /\ AnnouncesOf(Engine, Known \cup DOMAIN tick.rows)
    BY DEF OpenIncident, Evaluates, EnginesInv, TickInv, Engine, BeliefInv, EffectInv, InTick
  <1> DEFINE row == [NoRow EXCEPT !.status = "open", !.severity = severity]
  <1>2. PICK i \in Incidents :
           /\ IsNextId(i)
           /\ SetEngine(MarkUnresolved(Believes(Engine, r, severity, i), i))
           /\ Proceed(WithRow(i, row))
    BY DEF OpenIncident
  <1>3. NowRow \in [Incidents -> Rows] /\ NowRow[i].status = "none"
    BY <1>1, <1>2, NowFacts DEF IsNextId, Used
  <1>4. Settled(row) /\ row \in Rows /\ row.status # "none" /\ ~row.ended /\ row.severity = severity
    BY DEF Settled, Rows, NoRow
  <1> HIDE DEF row
  <1> DEFINE e == Believes(Engine, r, severity, i)
  <1>5. e \in EngineRecords /\ Believed(e, [NowRow EXCEPT ![i] = row])
    BY <1>1, <1>3, <1>4, OpensBelieved
  <1>6. AnnouncesOf(e, Known \cup DOMAIN tick.rows)
    BY <1>1 DEF AnnouncesOf, Believes, EngineRecords
  <1> HIDE DEF e
  <1>7. PICK f : f = MarkUnresolved(e, i)
    OBVIOUS
  <1>8. /\ f \in EngineRecords /\ f.hazard = e.hazard /\ f.openId = e.openId
        /\ AnnouncesOf(f, (Known \cup DOMAIN tick.rows) \cup {i})
    BY <1>5, <1>6, <1>7, MarksUnresolved
  <1>9. Believed(f, [NowRow EXCEPT ![i] = row])
    BY <1>5, <1>8 DEF Believed
  <1>10. engines' = [engines EXCEPT ![tick.ctx] = f] /\ Unaffected
    BY <1>2, <1>7 DEF SetEngine, OpenIncident, e
  <1>11. (Known \cup DOMAIN tick.rows) \cup {i} = Known \cup (DOMAIN tick.rows \cup {i})
    OBVIOUS
  <1> QED
    BY <1>1, <1>2, <1>4, <1>8, <1>9, <1>10, <1>11, RuleWithRow

LEMMA EscalateKeeps ==
    ASSUME EngineInv, NEW r \in Rules, EscalateIncident(r) PROVE EngineInv'
  <1> USE DEF EngineInv
  <1>1. /\ tick.pc = "rules" /\ Engine \in EngineRecords /\ Believed(Engine, NowRow)
        /\ AnnouncesOf(Engine, Known \cup DOMAIN tick.rows)
    BY DEF EscalateIncident, Evaluates, EnginesInv, TickInv, Engine, BeliefInv, EffectInv, InTick
  <1> DEFINE row == [NowRow[Engine.openId[r]] EXCEPT !.severity = "critical"]
  <1> DEFINE f == Believes(Engine, r, "critical", Engine.openId[r])
  <1>2. Engine.hazard[r] = "warning" /\ Engine.openId[r] \in Incidents /\ Engine.openId[r] # NoIncident
    BY <1>1 DEF EscalateIncident, Believed, EngineRecords
  <1>3. /\ NowRow \in [Incidents -> Rows] /\ Settled(NowRow[Engine.openId[r]])
        /\ NowRow[Engine.openId[r]].status # "none" /\ ~NowRow[Engine.openId[r]].ended
    BY <1>1, <1>2, NowFacts DEF Believed
  <1>4. Settled(row) /\ row \in Rows /\ row.status # "none" /\ ~row.ended /\ row.severity = "critical"
    BY <1>3 DEF Settled, Rows
  <1>5. Proceed(WithRow(Engine.openId[r], row))
    BY <1>1, <1>2 DEF EscalateIncident, NowRow
  <1> HIDE DEF row
  <1>6. f \in EngineRecords /\ Believed(f, [NowRow EXCEPT ![Engine.openId[r]] = row])
    BY <1>1, <1>2, <1>3, <1>4, EscalatesBelieved
  <1>7. AnnouncesOf(f, Known \cup (DOMAIN tick.rows \cup {Engine.openId[r]}))
    BY <1>1 DEF AnnouncesOf, Believes, EngineRecords
  <1>8. engines' = [engines EXCEPT ![tick.ctx] = f] /\ Unaffected
    BY DEF EscalateIncident, SetEngine
  <1> HIDE DEF f
  <1>9. PICK i \in Incidents : i = Engine.openId[r]
    BY <1>2
  <1> QED
    BY <1>1, <1>4, <1>5, <1>6, <1>7, <1>8, <1>9, RuleWithRow

LEMMA CloseKeeps ==
    ASSUME EngineInv, NEW r \in Rules, CloseIncident(r) PROVE EngineInv'
  <1> USE DEF EngineInv
  <1>1. /\ tick.pc = "rules" /\ Engine \in EngineRecords /\ Believed(Engine, NowRow)
        /\ AnnouncesOf(Engine, Known \cup DOMAIN tick.rows) /\ Engine.hazard[r] # "none"
    BY DEF CloseIncident, Evaluates, EnginesInv, TickInv, Engine, BeliefInv, EffectInv, InTick
  <1>2. PICK i \in Incidents : i = Engine.openId[r]
    BY <1>1 DEF Believed, EngineRecords
  <1>3. PICK old : old = NowRow[i]
    OBVIOUS
  <1>4. old = Loaded(i).new
    BY <1>1, <1>3 DEF NowRow
  <1> DEFINE status == StatusAfterClear(old.severity, old.status)
  <1> DEFINE row == [old EXCEPT !.ended = TRUE, !.status = status]
  <1> DEFINE closed == Believes(Engine, r, "none", NoIncident)
  <1> DEFINE f == IF status = "resolved" THEN MarkResolved(closed, i) ELSE closed
  <1>5. /\ NowRow \in [Incidents -> Rows] /\ Settled(old)
        /\ old.status # "none" /\ ~old.ended /\ old.severity \in {"warning", "critical"}
    BY <1>1, <1>2, <1>3, NowFacts DEF Believed, EngineRecords, Severities
  <1>6. Settled(row) /\ row \in Rows /\ row.status # "none"
    BY <1>5 DEF Settled, Rows, StatusAfterClear
  <1>7. Proceed(WithRow(i, row)) /\ engines' = [engines EXCEPT ![tick.ctx] = f] /\ Unaffected
    BY <1>2, <1>4 DEF CloseIncident, SetEngine
  <1> HIDE DEF row
  <1>8. closed \in EngineRecords /\ Believed(closed, [NowRow EXCEPT ![i] = row])
    BY <1>1, <1>2, <1>5, <1>6, ClosesBelieved
  <1>9. AnnouncesOf(closed, Known \cup (DOMAIN tick.rows \cup {i}))
    BY <1>1 DEF AnnouncesOf, Believes, EngineRecords
  <1> HIDE DEF closed, status
  <1>10. PICK g : g = MarkResolved(closed, i)
    OBVIOUS
  <1>11. /\ g \in EngineRecords /\ g.hazard = closed.hazard /\ g.openId = closed.openId
         /\ AnnouncesOf(g, Known \cup (DOMAIN tick.rows \cup {i}))
    BY <1>8, <1>9, <1>10, MarksResolved
  <1>12. Believed(g, [NowRow EXCEPT ![i] = row])
    BY <1>8, <1>11 DEF Believed
  <1>13. /\ f \in EngineRecords /\ Believed(f, [NowRow EXCEPT ![i] = row])
         /\ AnnouncesOf(f, Known \cup (DOMAIN tick.rows \cup {i}))
    BY <1>8, <1>9, <1>10, <1>11, <1>12
  <1> HIDE DEF f
  <1> QED
    BY <1>1, <1>6, <1>7, <1>13, RuleWithRow

-----------------------------------------------------------------------------
\* The tick's other steps.

LEMMA FreshFacts ==
    /\ Fresh \in EngineRecords /\ \A rows : Believed(Fresh, rows)
    /\ \A known : AnnouncesOf(Fresh, known)
  <1>1. Fresh \in EngineRecords /\ Fresh.effects = <<>>
    BY DEF Fresh, EngineRecords, Severities
  <1>2. \A r \in Rules : Fresh.hazard[r] = "none" /\ Fresh.openId[r] = NoIncident
    BY DEF Fresh
  <1> QED
    BY <1>1, <1>2 DEF Believed, AnnouncesOf

LEMMA BeginTickKeeps ==
    ASSUME EngineInv, Serial, NEW ctx \in 1 .. MaxContexts, BeginTick(ctx) PROVE EngineInv'
  <1> USE DEF EngineInv
  <1>1. /\ tick.pc = "idle" /\ ack.pc = "idle" /\ UNCHANGED <<db, cloud, installed, built, ack, announced>>
        /\ tick'.pc = "rules" /\ tick'.ctx = ctx /\ tick'.saved = engines' /\ tick'.rows = <<>>
    BY DEF BeginTick
  <1>2. \/ ctx = installed /\ engines' = engines
        \/ ctx = built + 1 /\ engines' = [engines EXCEPT ![ctx] = Fresh]
    BY DEF BeginTick
  <1>3. /\ engines' \in [1 .. MaxContexts -> EngineRecords]
        /\ \A c \in 1 .. MaxContexts : c = installed => engines'[c] = engines[c]
        /\ ctx = installed \/ ctx = built + 1
        /\ \/ ctx = installed /\ engines'[ctx] = engines[ctx]
           \/ ctx # installed /\ engines'[ctx] = Fresh
    <2>1. CASE ctx = installed /\ engines' = engines
      BY <2>1 DEF EnginesInv
    <2>2. CASE ctx = built + 1 /\ engines' = [engines EXCEPT ![ctx] = Fresh]
      <3>1. PICK fresh \in EngineRecords : fresh = Fresh
        BY FreshFacts
      <3>2. engines' = [engines EXCEPT ![ctx] = fresh]
        BY <2>2, <3>1
      <3>3. ctx # installed
        BY <2>2 DEF EnginesInv
      <3> QED
        BY <2>2, <3>1, <3>2, <3>3 DEF EnginesInv
    <2> QED
      BY <1>2, <2>1, <2>2
  <1>4. DOMAIN tick'.rows = {}
    BY <1>1
  <1>5. NowRow' = db /\ Known' = Known /\ InTick' = {}
    BY <1>1, <1>4 DEF NowRow, Known, InTick, Loaded, RowsInv
  <1>6. RowsInv' /\ EnginesInv' /\ AckInv' /\ TickInv'
    BY <1>1, <1>3, <1>4, <1>5 DEF RowsInv, EnginesInv, AckInv, TickInv
  <1>7. installed # 0 => Believed(engines[installed], db) /\ AnnouncesOf(engines[installed], Known)
                         /\ installed \in 1 .. MaxContexts
    BY <1>1 DEF BeliefInv, EffectInv, EnginesInv
  <1>8. BeliefInv'
    BY <1>1, <1>3, <1>5, <1>7, FreshFacts DEF BeliefInv
  <1>9. AnnouncesOf(engines'[ctx], Known)
    BY <1>3, <1>7, FreshFacts
  <1>10. EffectInv'
    BY <1>1, <1>3, <1>5, <1>7, <1>9 DEF EffectInv
  <1> QED
    BY <1>6, <1>8, <1>10

\* A commit writes the rows as the transaction has them.
LEMMA RowsCommitted ==
    ASSUME EngineInv, CommitTick
    PROVE  /\ tick.pc = "rules" /\ db' = NowRow /\ cloud' = NowRow /\ NowRow' = NowRow
           /\ Known' = Known \cup InTick /\ InTick' = {}
  <1> USE DEF EngineInv
  <1>1. /\ tick.pc = "rules" /\ tick'.pc = "committed"
        /\ db' = [i \in Incidents |-> IF i \in DOMAIN tick.rows
                     THEN Merge(db[i], tick.rows[i].old, tick.rows[i].new) ELSE db[i]]
        /\ cloud' = [i \in Incidents |-> IF i \in DOMAIN tick.rows THEN tick.rows[i].new ELSE cloud[i]]
    BY DEF CommitTick, Copied
  <1>2. \A i \in DOMAIN tick.rows : Merge(db[i], tick.rows[i].old, tick.rows[i].new) = tick.rows[i].new
    BY <1>1, MergeIsNew DEF TickInv, RowsInv, Settled
  <1>3. db' = NowRow /\ cloud' = NowRow
    BY <1>1, <1>2, NowFacts DEF NowRow, RowsInv, Loaded
  <1>4. NowRow' = NowRow /\ InTick' = {}
    BY <1>1, <1>3 DEF NowRow, InTick
  <1>5. Known' = Known \cup InTick
    BY <1>1, <1>3, NowFacts DEF Known, InTick, TickInv
  <1> QED
    BY <1>1, <1>3, <1>4, <1>5

LEMMA CommitTickKeeps == ASSUME EngineInv, CommitTick PROVE EngineInv'
  <1> USE DEF EngineInv
  <1>1. /\ tick.pc = "rules" /\ tick'.pc = "committed" /\ tick'.ctx = tick.ctx
        /\ UNCHANGED <<engines, installed, built, ack, announced>>
    BY DEF CommitTick
  <1>2. db' = NowRow /\ cloud' = NowRow
    BY RowsCommitted
  <1>3. NowRow' = NowRow /\ Known' = Known \cup InTick /\ InTick' = {}
    BY RowsCommitted
  <1>4. RowsInv'
    BY <1>1, <1>2, <1>3, NowFacts DEF RowsInv
  <1>5. EnginesInv' /\ AckInv' /\ TickInv'
    BY <1>1 DEF EnginesInv, AckInv, TickInv
  <1>6. BeliefInv'
    BY <1>1, <1>3 DEF BeliefInv
  <1>7. EffectInv'
    BY <1>1, <1>3 DEF EffectInv, AnnouncesOf
  <1> QED
    BY <1>4, <1>5, <1>6, <1>7

\* Taking its effects leaves an engine what it is.
LEMMA FlushedFacts ==
    ASSUME NEW e \in EngineRecords, NEW unresolved \in SUBSET Incidents, NEW f,
           f = [e EXCEPT !.unresolved = unresolved, !.effects = <<>>]
    PROVE  f \in EngineRecords /\ f.hazard = e.hazard /\ f.openId = e.openId /\ f.effects = <<>>
  <1>1. <<>> \in Seq(Effects)
    OBVIOUS
  <1>2. PICK none \in Seq(Effects) : none = <<>>
    BY <1>1
  <1>3. f = [e EXCEPT !.unresolved = unresolved, !.effects = none]
    BY <1>2
  <1>4. f \in EngineRecords /\ f.hazard = e.hazard /\ f.openId = e.openId /\ f.effects = none
    BY <1>3 DEF EngineRecords
  <1> QED
    BY <1>2, <1>4

LEMMA FlushIsFlushed ==
    ASSUME NEW e \in EngineRecords, NEW f, f = [e EXCEPT !.effects = <<>>]
    PROVE  /\ f \in EngineRecords /\ f.hazard = e.hazard /\ f.openId = e.openId /\ f.effects = <<>>
           /\ f.unresolved = e.unresolved
  <1>1. <<>> \in Seq(Effects)
    OBVIOUS
  <1>2. PICK none \in Seq(Effects) : none = <<>>
    BY <1>1
  <1>3. f = [e EXCEPT !.effects = none]
    BY <1>2
  <1> QED
    BY <1>2, <1>3 DEF EngineRecords

\* What a rollback leaves of an engine is its checkpoint, with no effects.
LEMMA RollbackKeeps == ASSUME EngineInv, RollbackTick PROVE EngineInv'
  <1> USE DEF EngineInv
  <1>1. /\ tick.pc = "rules" /\ tick'.pc = "idle" /\ engines' = Restored(tick.saved)
        /\ UNCHANGED <<db, cloud, installed, built, ack, announced>>
    BY DEF RollbackTick, NoTick
  <1>2. \A e \in EngineRecords : \A f : f = [e EXCEPT !.effects = <<>>] =>
           f \in EngineRecords /\ f.hazard = e.hazard /\ f.openId = e.openId /\ f.effects = <<>>
    BY FlushIsFlushed
  <1>3. /\ DOMAIN engines' = 1 .. MaxContexts
        /\ \A c \in 1 .. MaxContexts :
              /\ engines'[c] \in EngineRecords /\ engines'[c].hazard = tick.saved[c].hazard
              /\ engines'[c].openId = tick.saved[c].openId /\ engines'[c].effects = <<>>
    BY <1>1, <1>2 DEF Restored, TickInv
  <1>4. engines' \in [1 .. MaxContexts -> EngineRecords]
    <2>1. engines' = [c \in 1 .. MaxContexts |-> engines'[c]]
      BY <1>1, <1>3 DEF Restored
    <2> QED
      BY <1>3, <2>1
  <1>5. Known' = Known
    BY <1>1 DEF Known
  <1>6. RowsInv' /\ EnginesInv' /\ AckInv' /\ TickInv'
    BY <1>1, <1>4, <1>5 DEF RowsInv, EnginesInv, AckInv, TickInv
  <1>7. installed # 0 => Believed(engines'[installed], db) /\ AnnouncesOf(engines'[installed], Known)
    BY <1>1, <1>3 DEF BeliefInv, EnginesInv, Believed, AnnouncesOf
  <1>8. BeliefInv' /\ EffectInv'
    BY <1>1, <1>5, <1>7 DEF BeliefInv, EffectInv
  <1> QED
    BY <1>6, <1>8

\* Effects are sent when what they announce is known.
LEMMA SentIsKnown ==
    ASSUME NEW effects \in Seq(Effects), NEW known \in SUBSET Incidents, announced \subseteq known,
           \A n \in DOMAIN effects : effects[n].kind = "announce" => effects[n].id \in known,
           Sent(effects)
    PROVE  announced' \subseteq known
  BY DEF Sent, ToSet

LEMMA FinishKeeps == ASSUME EngineInv, FinishTick PROVE EngineInv'
  <1> USE DEF EngineInv
  <1>1. /\ tick.pc = "committed" /\ tick'.pc = "idle" /\ UNCHANGED <<db, cloud, ack>>
        /\ tick.ctx \in 1 .. MaxContexts
    BY DEF FinishTick, NoTick, TickInv
  <1>2. PICK e \in 1 .. MaxContexts : e = tick.ctx
    BY <1>1
  <1>3. /\ Known' = Known /\ InTick = {} /\ NowRow = db
    BY <1>1, NowFacts DEF Known, InTick
  <1>4. /\ engines[e] \in EngineRecords /\ Believed(engines[e], db) /\ AnnouncesOf(engines[e], Known)
        /\ Known \subseteq Incidents /\ engines[e].effects \in Seq(Effects)
    BY <1>1, <1>2, <1>3 DEF EnginesInv, BeliefInv, EffectInv, EngineRecords, Known
  <1>5. /\ installed' = e /\ built' \in 0 .. MaxContexts /\ built' = e
        /\ engines' \in [1 .. MaxContexts -> EngineRecords]
        /\ engines'[e].hazard = engines[e].hazard /\ engines'[e].openId = engines[e].openId
        /\ engines'[e].effects = <<>>
    <2>1. CASE e = installed \/ installed = 0
      <3>1. PICK f : f = [engines[e] EXCEPT !.effects = <<>>]
        OBVIOUS
      <3>2. /\ engines' = [engines EXCEPT ![e] = f] /\ installed' = e
            /\ built' = e \/ (e = installed /\ built' = built)
        BY <1>1, <1>2, <2>1, <3>1 DEF FinishTick, Flushed
      <3>3. f \in EngineRecords /\ f.hazard = engines[e].hazard /\ f.openId = engines[e].openId /\ f.effects = <<>>
        BY <1>4, <3>1, FlushIsFlushed
      <3> QED
        BY <3>2, <3>3 DEF EnginesInv
    <2>2. CASE e # installed /\ installed # 0
      <3>1. installed \in 1 .. MaxContexts /\ engines[installed] \in EngineRecords
        BY <2>2 DEF EnginesInv
      <3>2. PICK all \in SUBSET Incidents : all = engines[e].unresolved \cup engines[installed].unresolved
        BY <1>4, <3>1 DEF EngineRecords
      <3>3. PICK f : f = [engines[e] EXCEPT !.unresolved = all, !.effects = <<>>]
        OBVIOUS
      <3>4. PICK g : g = [engines[installed] EXCEPT !.unresolved = {}, !.effects = <<>>]
        OBVIOUS
      <3>5. /\ f \in EngineRecords /\ f.hazard = engines[e].hazard /\ f.openId = engines[e].openId /\ f.effects = <<>>
            /\ g \in EngineRecords
        BY <1>4, <3>1, <3>3, <3>4, FlushedFacts
      <3>6. engines' = [engines EXCEPT ![e] = f, ![installed] = g] /\ installed' = e /\ built' = e
        <4>1. /\ engines' = [engines EXCEPT
                       ![e] = Flushed(Holding(engines[e], engines[e].unresolved \cup engines[installed].unresolved)),
                       ![installed] = Flushed(Holding(engines[installed], {}))]
              /\ installed' = e /\ built' = e
          BY <1>1, <1>2, <2>2 DEF FinishTick
        <4>2. Flushed(Holding(engines[e], all)) = f /\ Flushed(Holding(engines[installed], {})) = g
          BY <3>3, <3>4 DEF Flushed, Holding
        <4> QED
          BY <3>2, <4>1, <4>2
      <3> QED
        BY <2>2, <3>1, <3>5, <3>6 DEF EnginesInv
    <2> QED
      BY <2>1, <2>2
  <1>6. announced' \subseteq Known
    <2>1. CASE e = installed \/ installed = 0
      BY <1>1, <1>2, <1>4, <2>1, SentIsKnown DEF FinishTick, RowsInv, AnnouncesOf
    <2>2. CASE e # installed /\ installed # 0
      <3>1. /\ engines[installed].effects \in Seq(Effects) /\ AnnouncesOf(engines[installed], Known)
            /\ Sent(engines[installed].effects \o engines[e].effects)
        BY <1>1, <1>2, <2>2 DEF EnginesInv, EffectInv, EngineRecords, FinishTick
      <3>2. PICK a \in Seq(Effects) : a = engines[installed].effects
        BY <3>1
      <3>3. PICK b \in Seq(Effects) : b = engines[e].effects
        BY <1>4
      <3>4. PICK c : c = a \o b
        OBVIOUS
      <3>5. c \in Seq(Effects)
        BY <3>4
      <3>6. ASSUME NEW n \in DOMAIN c
            PROVE  (n \in DOMAIN a /\ c[n] = a[n]) \/ \E k \in DOMAIN b : c[n] = b[k]
        BY <3>4, ConcatElements
      <3>7. \A n \in DOMAIN c : c[n].kind = "announce" => c[n].id \in Known
        BY <1>4, <3>1, <3>2, <3>3, <3>6 DEF AnnouncesOf
      <3>8. Sent(c)
        BY <3>1, <3>2, <3>3, <3>4
      <3> QED
        BY <1>4, <3>5, <3>7, <3>8, SentIsKnown DEF RowsInv
    <2> QED
      BY <2>1, <2>2
  <1>7. RowsInv' /\ EnginesInv' /\ AckInv' /\ TickInv'
    BY <1>1, <1>3, <1>5, <1>6 DEF RowsInv, EnginesInv, AckInv, TickInv
  <1>8. Believed(engines'[e], db) /\ AnnouncesOf(engines'[e], Known)
    BY <1>4, <1>5 DEF Believed, AnnouncesOf
  <1>9. BeliefInv' /\ EffectInv'
    BY <1>1, <1>3, <1>5, <1>8 DEF BeliefInv, EffectInv
  <1> QED
    BY <1>7, <1>9

-----------------------------------------------------------------------------
\* The requests.

LEMMA BeginAckKeeps ==
    ASSUME EngineInv, Serial, NEW i \in Incidents, BeginAck(i) PROVE EngineInv'
  <1> USE DEF EngineInv
  <1>1. /\ tick.pc = "idle" /\ db[i].status # "none"
        /\ UNCHANGED <<db, cloud, engines, installed, built, tick, announced>>
        /\ ack'.pc = "commit" /\ ack'.id = i /\ ack'.old = db[i] /\ ack'.new = Acknowledged(db[i])
    BY DEF BeginAck
  <1>2. NowRow' = NowRow /\ Known' = Known /\ InTick' = InTick
    BY <1>1 DEF NowRow, Known, InTick, Loaded
  <1>3. RowsInv' /\ EnginesInv' /\ AckInv' /\ TickInv'
    BY <1>1, <1>2 DEF RowsInv, EnginesInv, AckInv, TickInv
  <1>4. BeliefInv' /\ EffectInv'
    BY <1>1, <1>2 DEF BeliefInv, EffectInv
  <1> QED
    BY <1>3, <1>4

\* An acknowledgement settles the row and leaves its hazard as it is.
LEMMA AckSettles ==
    ASSUME NEW row, Settled(row), row.status # "none", NEW new, new = Acknowledged(row)
    PROVE  Settled(new) /\ new.status # "none" /\ new.ended = row.ended /\ new.severity = row.severity
  BY DEF Settled, Rows, Acknowledged

\* The acknowledgement is written as it was prepared.
LEMMA AckWritten ==
    ASSUME EngineInv, CommitAck
    PROVE  \E i \in Incidents, new \in Rows :
              /\ i = ack.id /\ new = ack.new /\ new = Acknowledged(db[i])
              /\ Settled(new) /\ new.status # "none"
              /\ new.ended = db[i].ended /\ new.severity = db[i].severity
              /\ db[i].status # "none"
              /\ db' = [db EXCEPT ![i] = new] /\ cloud' = [cloud EXCEPT ![i] = new]
  <1> USE DEF EngineInv
  <1>1. /\ ack.pc = "commit"
        /\ db' = [db EXCEPT ![ack.id] = Merge(db[ack.id], ack.old, ack.new)]
        /\ cloud' = [cloud EXCEPT ![ack.id] = ack.new]
    BY DEF CommitAck, Copied
  <1>2. PICK i \in Incidents : i = ack.id
    BY <1>1 DEF AckInv
  <1>3. PICK new : new = ack.new
    OBVIOUS
  <1>4. /\ Settled(db[i]) /\ db[i].status # "none" /\ new = Acknowledged(db[i]) /\ ack.old = db[i]
    BY <1>1, <1>2, <1>3 DEF AckInv, RowsInv
  <1>5. /\ Settled(new) /\ new.status # "none"
        /\ new.ended = db[i].ended /\ new.severity = db[i].severity
    BY <1>4, AckSettles
  <1>6. new \in Rows /\ db[i] \in Rows
    BY <1>5 DEF Settled, RowsInv
  <1>7. Merge(db[i], db[i], new) = new
    BY <1>6, MergeIsNew
  <1>8. db' = [db EXCEPT ![i] = new] /\ cloud' = [cloud EXCEPT ![i] = new]
    BY <1>1, <1>2, <1>3, <1>4, <1>7
  <1> QED
    BY <1>2, <1>3, <1>4, <1>5, <1>6, <1>8

LEMMA CommitAckKeeps == ASSUME EngineInv, CommitAck PROVE EngineInv'
  <1> USE DEF EngineInv
  <1>1. /\ ack.pc = "commit" /\ tick.pc = "idle"
        /\ UNCHANGED <<engines, installed, built, tick, announced>>
        /\ ack' = IF ack.new.status = "resolved" THEN [pc |-> "notify", id |-> ack.id] ELSE NoAck
    BY DEF CommitAck, AckInv
  <1>2. PICK i \in Incidents, new \in Rows :
           /\ i = ack.id /\ new = ack.new
           /\ Settled(new) /\ new.status # "none"
           /\ new.ended = db[i].ended /\ new.severity = db[i].severity
           /\ db[i].status # "none"
           /\ db' = [db EXCEPT ![i] = new] /\ cloud' = [cloud EXCEPT ![i] = new]
    BY AckWritten
  <1>4. /\ Settled(new) /\ new.status # "none" /\ new \in Rows
        /\ new.ended = db[i].ended /\ new.severity = db[i].severity
        /\ db[i].status # "none"
    BY <1>2
  <1>6. db' = [db EXCEPT ![i] = new] /\ cloud' = [cloud EXCEPT ![i] = new]
    BY <1>2
  <1>7. /\ db' \in [Incidents -> Rows]
        /\ \A j \in Incidents : db'[j] = IF j = i THEN new ELSE db[j]
    BY <1>4, <1>6 DEF RowsInv
  <1>8. Known' = Known /\ InTick' = InTick
    BY <1>1, <1>4, <1>7 DEF Known, InTick
  <1>9. RowsInv'
    BY <1>1, <1>4, <1>6, <1>7, <1>8 DEF RowsInv
  <1>10. EnginesInv' /\ TickInv'
    BY <1>1 DEF EnginesInv, TickInv
  <1>11. AckInv'
    BY <1>1, <1>2 DEF AckInv, NoAck
  <1>12. installed # 0 => Believed(engines[installed], db')
    <2>1. SUFFICES ASSUME installed # 0 PROVE Believed(engines[installed], db')
      OBVIOUS
    <2>2. PICK e \in EngineRecords : e = engines[installed]
      BY <2>1 DEF EnginesInv
    <2>3. Believed(e, db) /\ \A r \in Rules : e.openId[r] \in Incidents \cup {NoIncident}
      BY <1>1, <2>1, <2>2 DEF BeliefInv, EngineRecords
    <2>4. Believed(e, db')
      BY <1>4, <1>7, <2>3 DEF Believed
    <2> QED
      BY <2>2, <2>4
  <1>13. BeliefInv' /\ EffectInv'
    BY <1>1, <1>8, <1>12 DEF BeliefInv, EffectInv
  <1> QED
    BY <1>9, <1>10, <1>11, <1>13

LEMMA NotifyKeeps == ASSUME EngineInv, NotifyResolved PROVE EngineInv'
  <1> USE DEF EngineInv
  <1>1. /\ tick.pc = "idle" /\ ack'.pc = "idle" /\ ack.id \in Incidents
        /\ UNCHANGED <<db, cloud, installed, built, tick>>
    BY DEF NotifyResolved, AckInv, NoAck
  <1>2. Known' = Known /\ InTick' = InTick
    BY <1>1 DEF Known, InTick
  <1>3. CASE installed = 0
    <2>1. UNCHANGED <<engines, announced>>
      BY <1>3 DEF NotifyResolved
    <2>2. RowsInv' /\ EnginesInv' /\ AckInv' /\ TickInv'
      BY <1>1, <1>2, <2>1 DEF RowsInv, EnginesInv, AckInv, TickInv
    <2>3. BeliefInv' /\ EffectInv'
      BY <1>1, <1>3 DEF BeliefInv, EffectInv
    <2> QED
      BY <2>2, <2>3
  <1>4. CASE installed # 0
    <2>1. PICK e \in EngineRecords : e = engines[installed]
      BY <1>4 DEF EnginesInv
    <2>2. PICK g : g = MarkResolved(e, ack.id)
      OBVIOUS
    <2>3. PICK f : f = [g EXCEPT !.effects = <<>>]
      OBVIOUS
    <2>4. Sent(g.effects) /\ engines' = [engines EXCEPT ![installed] = f]
      BY <1>4, <2>1, <2>2, <2>3 DEF NotifyResolved, Flushed
    <2>5. Believed(e, db) /\ AnnouncesOf(e, Known)
      BY <1>1, <1>4, <2>1 DEF BeliefInv, EffectInv
    <2>6. /\ g \in EngineRecords /\ g.hazard = e.hazard /\ g.openId = e.openId
          /\ AnnouncesOf(g, Known)
      BY <1>1, <2>2, <2>5, MarksResolved
    <2>7. f \in EngineRecords /\ f.hazard = e.hazard /\ f.openId = e.openId /\ f.effects = <<>>
      BY <2>3, <2>6, FlushIsFlushed
    <2>8. Believed(f, db) /\ AnnouncesOf(f, Known)
      BY <2>5, <2>7 DEF Believed, AnnouncesOf
    <2>9. g.effects \in Seq(Effects) /\ Known \in SUBSET Incidents
      BY <2>6 DEF EngineRecords, Known
    <2>10. announced' \subseteq Known
      BY <2>4, <2>6, <2>9, SentIsKnown DEF AnnouncesOf, RowsInv
    <2>11. engines'[installed] = f /\ engines' \in [1 .. MaxContexts -> EngineRecords]
      BY <1>4, <2>4, <2>7 DEF EnginesInv
    <2>12. RowsInv' /\ EnginesInv' /\ AckInv' /\ TickInv'
      BY <1>1, <1>2, <2>10, <2>11 DEF RowsInv, EnginesInv, AckInv, TickInv
    <2>13. BeliefInv' /\ EffectInv'
      BY <1>1, <1>2, <2>8, <2>11 DEF BeliefInv, EffectInv
    <2> QED
      BY <2>12, <2>13
  <1> QED
    BY <1>3, <1>4

LEMMA ReportKeeps ==
    ASSUME EngineInv, Serial, NEW i \in Incidents, ReportManual(i) PROVE EngineInv'
  <1> USE DEF EngineInv
  <1> DEFINE new == [NoRow EXCEPT !.status = "open", !.severity = "warning",
                                 !.ended = TRUE, !.manual = TRUE]
  <1>1. /\ tick.pc = "idle" /\ db[i].status = "none"
        /\ UNCHANGED <<engines, installed, built, tick, ack, announced>>
        /\ db' = [db EXCEPT ![i] = new] /\ cloud' = [cloud EXCEPT ![i] = db'[i]]
    BY DEF ReportManual, IsNextId, Used
  <1>2. Settled(new) /\ new \in Rows /\ new.status # "none"
    BY DEF Settled, Rows, NoRow
  <1> HIDE DEF new
  <1>3. /\ db' \in [Incidents -> Rows] /\ cloud' = db'
        /\ \A j \in Incidents : db'[j] = IF j = i THEN new ELSE db[j]
    BY <1>1, <1>2 DEF RowsInv
  <1>4. Known' = Known \cup {i} /\ InTick' = InTick
    BY <1>1, <1>2, <1>3 DEF Known, InTick
  <1>5. RowsInv'
    BY <1>1, <1>2, <1>3, <1>4 DEF RowsInv
  <1>6. EnginesInv' /\ TickInv'
    BY <1>1 DEF EnginesInv, TickInv
  <1>7. AckInv'
    BY <1>1, <1>3 DEF AckInv
  <1>8. installed # 0 => Believed(engines[installed], db')
    <2>1. SUFFICES ASSUME installed # 0 PROVE Believed(engines[installed], db')
      OBVIOUS
    <2>2. PICK e \in EngineRecords : e = engines[installed]
      BY <2>1 DEF EnginesInv
    <2>3. Believed(e, db) /\ \A r \in Rules : e.openId[r] \in Incidents \cup {NoIncident}
      BY <1>1, <2>1, <2>2 DEF BeliefInv, EngineRecords
    <2>4. Believed(e, db')
      BY <1>1, <1>3, <2>3 DEF Believed
    <2> QED
      BY <2>2, <2>4
  <1>9. BeliefInv' /\ EffectInv'
    BY <1>1, <1>4, <1>8 DEF BeliefInv, EffectInv, AnnouncesOf
  <1> QED
    BY <1>5, <1>6, <1>7, <1>9

-----------------------------------------------------------------------------
\* The invariant.

LEMMA StopKeeps == ASSUME EngineInv, Stop PROVE EngineInv'
  <1> USE DEF EngineInv
  <1>1. /\ tick'.pc = "idle" /\ installed' = 0
        /\ UNCHANGED <<db, cloud, engines, built, ack, announced>>
    BY DEF Stop, NoTick
  <1>2. Known' = Known
    BY <1>1 DEF Known
  <1>3. RowsInv' /\ EnginesInv' /\ AckInv' /\ TickInv'
    BY <1>1, <1>2 DEF RowsInv, EnginesInv, AckInv, TickInv
  <1>4. BeliefInv' /\ EffectInv'
    BY <1>1 DEF BeliefInv, EffectInv
  <1> QED
    BY <1>3, <1>4

LEMMA RestKeeps ==
    ASSUME EngineInv, UNCHANGED <<db, cloud, engines, installed, built, tick, ack, announced>>
    PROVE  EngineInv'
  <1> USE DEF EngineInv
  <1>1. NowRow' = NowRow /\ Known' = Known /\ InTick' = InTick
    BY DEF NowRow, Known, InTick, Loaded
  <1>2. RowsInv' /\ EnginesInv' /\ AckInv' /\ TickInv'
    BY <1>1 DEF RowsInv, EnginesInv, AckInv, TickInv
  <1>3. BeliefInv' /\ EffectInv'
    BY <1>1 DEF BeliefInv, EffectInv
  <1> QED
    BY <1>2, <1>3

LEMMA EngineInit == Init => EngineInv
  <1> SUFFICES ASSUME Init PROVE EngineInv
    OBVIOUS
  <1>1. /\ db = [i \in Incidents |-> NoRow] /\ cloud = [i \in Incidents |-> NoRow]
        /\ engines = [e \in 1 .. MaxContexts |-> Fresh]
        /\ installed = 0 /\ built = 0 /\ tick.pc = "idle" /\ ack.pc = "idle" /\ announced = {}
    BY DEF Init, NoTick, NoAck
  <1>2. RowsInv
    BY <1>1, RowFacts DEF RowsInv
  <1>3. EnginesInv
    <2>1. PICK fresh \in EngineRecords : fresh = Fresh
      BY FreshFacts
    <2>2. engines = [e \in 1 .. MaxContexts |-> fresh]
      BY <1>1, <2>1
    <2> QED
      BY <1>1, <2>2, EngineAssumption DEF EnginesInv
  <1>4. AckInv /\ TickInv /\ BeliefInv /\ EffectInv
    BY <1>1 DEF AckInv, TickInv, BeliefInv, EffectInv
  <1> QED
    BY <1>2, <1>3, <1>4 DEF EngineInv

LEMMA EngineStep == Serial /\ EngineInv /\ [Next]_vars => EngineInv'
  <1> SUFFICES ASSUME Serial, EngineInv, [Next]_vars PROVE EngineInv'
    OBVIOUS
  <1>1. ASSUME NEW ctx \in 1 .. MaxContexts, BeginTick(ctx) PROVE EngineInv'
    BY <1>1, BeginTickKeeps
  <1>2. ASSUME NEW r \in Rules, LeaveRule(r) PROVE EngineInv'
    BY <1>2, LeaveKeeps
  <1>3. ASSUME NEW r \in Rules, EscalateIncident(r) PROVE EngineInv'
    BY <1>3, EscalateKeeps
  <1>4. ASSUME NEW r \in Rules, CloseIncident(r) PROVE EngineInv'
    BY <1>4, CloseKeeps
  <1>5. ASSUME NEW r \in Rules, DegradeRule(r) PROVE EngineInv'
    BY <1>5, DegradeKeeps
  <1>6. ASSUME NEW r \in Rules, NEW severity \in {"warning", "critical"}, OpenIncident(r, severity)
        PROVE  EngineInv'
    BY <1>6, OpenKeeps
  <1>7. CASE CommitTick
    BY <1>7, CommitTickKeeps
  <1>8. CASE FinishTick
    BY <1>8, FinishKeeps
  <1>9. CASE RollbackTick
    BY <1>9, RollbackKeeps
  <1>10. ASSUME NEW i \in Incidents, BeginAck(i) PROVE EngineInv'
    BY <1>10, BeginAckKeeps
  <1>11. ASSUME NEW i \in Incidents, ReportManual(i) PROVE EngineInv'
    BY <1>11, ReportKeeps
  <1>12. CASE CommitAck
    BY <1>12, CommitAckKeeps
  <1>13. CASE NotifyResolved
    BY <1>13, NotifyKeeps
  <1>14. CASE Stop
    BY <1>14, StopKeeps
  <1>15. CASE HazardsEnd
    BY <1>15, RestKeeps DEF HazardsEnd
  <1>16. CASE UNCHANGED vars
    BY <1>16, RestKeeps DEF vars
  <1>17. CASE TickStep
    BY <1>2, <1>3, <1>4, <1>5, <1>6, <1>7, <1>8, <1>17 DEF TickStep
  <1> QED
    BY <1>1, <1>9, <1>10, <1>11, <1>12, <1>13, <1>14, <1>15, <1>16, <1>17 DEF Next

\* The rows, the checkpoint, the engine and its effects agree at every step of
\* a tick, its rollback included, when no request overlaps a tick.
THEOREM EngineCorrect == Serial => (Spec => []EngineInv)
  <1>1. CASE Serial
    <2>1. EngineInv /\ [Next]_vars => EngineInv'
      BY <1>1, EngineStep
    <2> QED
      BY <2>1, EngineInit, PTL DEF Spec
  <1>2. CASE ~Serial
    BY <1>2
  <1> QED
    BY <1>1, <1>2

\* The registered engine believes in exactly the incidents the database has
\* open, with their severity (engine.py's memory beside the transaction).
THEOREM EngineBelievesRows == Serial => (Spec => []BeliefsCommitted)
  <1>1. EngineInv => BeliefsCommitted
    BY DEF EngineInv, BeliefInv, BeliefsCommitted, Believed
  <1> QED
    BY <1>1, EngineCorrect, PTL

\* An incident has the status its hazard and acknowledgement give it, and the
\* last message to the cloud says so.
THEOREM IncidentsAreSettled == Serial => (Spec => []IncidentsSettled)
  <1>1. EngineInv => IncidentsSettled
    BY DEF EngineInv, RowsInv, Settled, IncidentsSettled, ResolvedWhenDone, MessagesCurrent
  <1> QED
    BY <1>1, EngineCorrect, PTL

\* No incident is broadcast that the database does not hold.
THEOREM OnlyCommittedAnnounced == Serial => (Spec => []AnnouncedCommitted)
  <1>1. EngineInv => AnnouncedCommitted
    BY DEF EngineInv, RowsInv, Known, AnnouncedCommitted
  <1> QED
    BY <1>1, EngineCorrect, PTL

-----------------------------------------------------------------------------
\* The count that a sequence of effects leaves.  Counted is a recursive function:
\* that it exists, and is one, is proved by induction on how far it goes.

\* Induction over the natural numbers, for a set in the place of a formula.
LEMMA Induction ==
    ASSUME NEW S \in SUBSET Nat, 0 \in S, \A n \in S : n + 1 \in S
    PROVE  S = Nat
  <1> SUFFICES ASSUME Nat \ S # {} PROVE FALSE
    OBVIOUS
  <1> DEFINE R == OpToRel(<, Nat)
  <1>1. IsWellFoundedOn(R, Nat)
    BY NatLessThanWellFounded
  <1>2. \A x, y \in Nat : x < y => <<x, y>> \in R
    BY DEF OpToRel
  <1> HIDE DEF R
  <1>3. \E x \in Nat \ S : \A y \in Nat \ S : ~ (<<y, x>> \in R)
    BY <1>1, WFMin
  <1>4. PICK x \in Nat \ S : \A y \in Nat \ S : ~ (<<y, x>> \in R)
    BY <1>3
  <1>5. x # 0 /\ x - 1 \in Nat /\ x - 1 < x /\ (x - 1) + 1 = x
    BY <1>4
  <1>6. x - 1 \in S
    BY <1>2, <1>4, <1>5
  <1> QED
    BY <1>4, <1>5, <1>6

\* What one effect makes of the count.
After(n, x) == CASE x.kind = "slow" -> n + 1
                 [] x.kind = "normal" -> CountDown(n)
                 [] x.kind = "announce" -> n
\* A function that counts along the first effects of a sequence.
CountsUpTo(f, k, start, s) ==
    \A n \in 0 .. k : f[n] = IF n = 0 THEN start ELSE After(f[n - 1], s[n])

LEMMA AfterIsNat == \A n \in Nat, x \in Effects : After(n, x) \in Nat
  BY DEF After, Effects, CountDown

LEMMA CountsExist ==
    ASSUME NEW start \in Nat, NEW s \in Seq(Effects)
    PROVE  \E f \in [0 .. Len(s) -> Nat] : CountsUpTo(f, Len(s), start, s)
  <1> DEFINE Has(k) == \E f \in [0 .. k -> Nat] : CountsUpTo(f, k, start, s)
  <1> DEFINE S == {k \in Nat : k <= Len(s) => Has(k)}
  <1> HIDE DEF Has
  <1>1. 0 \in S
    <2>1. CountsUpTo([n \in 0 .. 0 |-> start], 0, start, s)
      BY DEF CountsUpTo
    <2> QED
      BY <2>1 DEF Has
  <1>2. ASSUME NEW k \in S PROVE k + 1 \in S
    <2> SUFFICES ASSUME k + 1 <= Len(s) PROVE Has(k + 1)
      OBVIOUS
    <2>1. k \in Nat /\ Len(s) \in Nat /\ k <= Len(s) /\ s[k + 1] \in Effects
      OBVIOUS
    <2>2. PICK f \in [0 .. k -> Nat] : CountsUpTo(f, k, start, s)
      BY <2>1 DEF Has
    <2> DEFINE g == [n \in 0 .. k + 1 |-> IF n = k + 1 THEN After(f[k], s[k + 1]) ELSE f[n]]
    <2>3. f[k] \in Nat /\ After(f[k], s[k + 1]) \in Nat
      <3>1. f[k] \in Nat
        BY <2>1
      <3> QED
        BY <2>1, <3>1, AfterIsNat
    <2>4. g \in [0 .. k + 1 -> Nat]
      BY <2>1, <2>3
    <2>5. ASSUME NEW n \in 0 .. k + 1
          PROVE  g[n] = IF n = 0 THEN start ELSE After(g[n - 1], s[n])
      <3>1. CASE n = k + 1
        <4>1. n # 0 /\ n - 1 = k /\ k \in 0 .. k + 1 /\ k # k + 1
          BY <2>1, <3>1
        <4>2. g[n] = After(f[k], s[k + 1]) /\ g[k] = f[k]
          BY <3>1, <4>1
        <4> QED
          BY <3>1, <4>1, <4>2
      <3>2. CASE n # k + 1
        <4>1. n \in 0 .. k /\ (n # 0 => n - 1 \in 0 .. k + 1 /\ n - 1 # k + 1)
          BY <2>1, <3>2
        <4>2. g[n] = f[n] /\ (n # 0 => g[n - 1] = f[n - 1])
          BY <3>2, <4>1
        <4> QED
          BY <2>2, <4>1, <4>2 DEF CountsUpTo
      <3> QED
        BY <3>1, <3>2
    <2> QED
      BY <2>4, <2>5 DEF CountsUpTo, Has
  <1> HIDE DEF S
  <1>3. S \in SUBSET Nat
    BY DEF S
  <1>4. S = Nat
    BY <1>1, <1>2, <1>3, Induction
  <1> QED
    BY <1>4 DEF S, Has

LEMMA CountsAgree ==
    ASSUME NEW start, NEW s, NEW f, NEW g, NEW k \in Nat,
           CountsUpTo(f, k, start, s), CountsUpTo(g, k, start, s)
    PROVE  f[k] = g[k]
  <1> DEFINE S == {n \in Nat : n <= k => f[n] = g[n]}
  <1>1. 0 \in S
    BY DEF CountsUpTo
  <1>2. ASSUME NEW n \in S PROVE n + 1 \in S
    <2> SUFFICES ASSUME n + 1 <= k PROVE f[n + 1] = g[n + 1]
      OBVIOUS
    <2>1. n \in Nat /\ n + 1 \in 0 .. k /\ n + 1 # 0 /\ (n + 1) - 1 = n /\ f[n] = g[n]
      OBVIOUS
    <2>2. f[n + 1] = After(f[n], s[n + 1]) /\ g[n + 1] = After(g[n], s[n + 1])
      BY <2>1 DEF CountsUpTo
    <2> QED
      BY <2>1, <2>2
  <1> HIDE DEF S
  <1>3. S \in SUBSET Nat
    BY DEF S
  <1>4. S = Nat
    BY <1>1, <1>2, <1>3, Induction
  <1> QED
    BY <1>4 DEF S

\* The count of effects is that of a function that counts along all of them.
LEMMA CountedAlong ==
    ASSUME NEW start \in Nat, NEW s \in Seq(Effects)
    PROVE  \E f \in [0 .. Len(s) -> Nat] :
              CountsUpTo(f, Len(s), start, s) /\ Counted(start, s) = f[Len(s)]
  <1> DEFINE Is(f) == f = [n \in 0 .. Len(s) |-> IF n = 0 THEN start ELSE After(f[n - 1], s[n])]
  <1>1. PICK f \in [0 .. Len(s) -> Nat] : CountsUpTo(f, Len(s), start, s)
    BY CountsExist
  <1>2. Is(f)
    BY <1>1 DEF CountsUpTo
  <1>3. Is(CHOOSE g : Is(g))
    BY <1>2
  <1>4. PICK g : g = CHOOSE h : Is(h)
    OBVIOUS
  <1>5. Counted(start, s) = g[Len(s)]
    BY <1>4 DEF Counted, After
  <1>6. Is(g)
    BY <1>3, <1>4
  <1>7. CountsUpTo(g, Len(s), start, s)
    BY <1>6 DEF CountsUpTo
  <1>8. g[Len(s)] = f[Len(s)] /\ Len(s) \in Nat
    BY <1>1, <1>7, CountsAgree
  <1> QED
    BY <1>1, <1>5, <1>8

\* Without effects the count stays, and one more effect changes it last.
LEMMA CountedNone == ASSUME NEW start \in Nat PROVE Counted(start, <<>>) = start
  <1>1. <<>> \in Seq(Effects) /\ Len(<<>>) = 0
    OBVIOUS
  <1>2. PICK f \in [0 .. 0 -> Nat] : CountsUpTo(f, 0, start, <<>>) /\ Counted(start, <<>>) = f[0]
    BY <1>1, CountedAlong
  <1> QED
    BY <1>2 DEF CountsUpTo

LEMMA CountedAppend ==
    ASSUME NEW start \in Nat, NEW s \in Seq(Effects), NEW x \in Effects
    PROVE  Counted(start, s) \in Nat /\ Counted(start, Append(s, x)) = After(Counted(start, s), x)
  <1>1. PICK f \in [0 .. Len(s) -> Nat] :
           CountsUpTo(f, Len(s), start, s) /\ Counted(start, s) = f[Len(s)]
    BY CountedAlong
  <1>2. PICK t : t = Append(s, x)
    OBVIOUS
  <1>3. /\ t \in Seq(Effects) /\ Len(t) = Len(s) + 1 /\ t[Len(s) + 1] = x /\ Len(s) \in Nat
        /\ \A n \in 1 .. Len(s) : t[n] = s[n]
    BY <1>2
  <1>4. PICK g \in [0 .. Len(t) -> Nat] :
           CountsUpTo(g, Len(t), start, t) /\ Counted(start, t) = g[Len(t)]
    BY <1>3, CountedAlong
  <1>5. CountsUpTo(g, Len(s), start, s)
    BY <1>3, <1>4 DEF CountsUpTo
  <1>6. g[Len(s)] = f[Len(s)]
    BY <1>1, <1>3, <1>5, CountsAgree
  <1>7. g[Len(t)] = After(g[Len(s)], x)
    <2>1. Len(t) \in 0 .. Len(t) /\ Len(t) # 0 /\ Len(t) - 1 = Len(s)
      BY <1>3
    <2>2. g[Len(t)] = After(g[Len(t) - 1], t[Len(t)])
      BY <1>4, <2>1 DEF CountsUpTo
    <2> QED
      BY <1>3, <2>1, <2>2
  <1> QED
    BY <1>1, <1>2, <1>3, <1>4, <1>6, <1>7

\* The two effects of an incident that opens, and the one of an incident that is
\* resolved.
LEMMA CountedOpen ==
    ASSUME NEW start \in Nat, NEW s \in Seq(Effects), NEW i \in Incidents, NEW t,
           t = s \o <<[kind |-> "slow", id |-> i], [kind |-> "announce", id |-> i]>>
    PROVE  Counted(start, t) = Counted(start, s) + 1
  <1>1. PICK a \in Effects : a = [kind |-> "slow", id |-> i]
    BY DEF Effects
  <1>2. PICK b \in Effects : b = [kind |-> "announce", id |-> i]
    BY DEF Effects
  <1>3. PICK u : u = Append(s, a)
    OBVIOUS
  <1>4. u \in Seq(Effects) /\ t = Append(u, b)
    <2>1. t = s \o <<a, b>>
      BY <1>1, <1>2
    <2> QED
      BY <1>3, <2>1
  <1>5. Counted(start, s) \in Nat /\ Counted(start, u) = After(Counted(start, s), a)
    BY <1>3, CountedAppend
  <1>6. Counted(start, t) = After(Counted(start, u), b)
    <2>1. Counted(start, Append(u, b)) = After(Counted(start, u), b)
      BY <1>4, CountedAppend
    <2> QED
      BY <1>4, <2>1
  <1>7. a.kind = "slow" /\ b.kind = "announce"
    BY <1>1, <1>2
  <1> QED
    BY <1>5, <1>6, <1>7 DEF After

LEMMA CountedNormal ==
    ASSUME NEW start \in Nat, NEW s \in Seq(Effects), NEW i \in Incidents,
           Counted(start, s) > 0
    PROVE  Counted(start, Append(s, [kind |-> "normal", id |-> i])) = Counted(start, s) - 1
  <1>1. PICK a \in Effects : a = [kind |-> "normal", id |-> i]
    BY DEF Effects
  <1>2. Counted(start, s) \in Nat /\ Counted(start, Append(s, a)) = After(Counted(start, s), a)
    BY CountedAppend
  <1>3. a.kind = "normal"
    BY <1>1
  <1> QED
    BY <1>1, <1>2, <1>3 DEF After, CountDown

\* Counting incidents.
LEMMA CountedIncidents ==
    ASSUME NEW S \in SUBSET Incidents
    PROVE  /\ Cardinality(S) \in Nat
           /\ \A i \in Incidents \ S : Cardinality(S \cup {i}) = Cardinality(S) + 1
           /\ \A i \in S : Cardinality(S \ {i}) = Cardinality(S) - 1 /\ Cardinality(S) > 0
  <1>1. IsFiniteSet(Incidents)
    BY EngineAssumption, FS_Interval DEF Incidents
  <1>2. IsFiniteSet(S)
    BY <1>1, FS_Subset
  <1>3. Cardinality(S) \in Nat
    BY <1>2, FS_CardinalityType
  <1>4. ASSUME NEW i \in Incidents \ S PROVE Cardinality(S \cup {i}) = Cardinality(S) + 1
    BY <1>2, FS_AddElement
  <1>5. ASSUME NEW i \in S PROVE Cardinality(S \ {i}) = Cardinality(S) - 1 /\ Cardinality(S) > 0
    <2>1. Cardinality(S \ {i}) = Cardinality(S) - 1 /\ IsFiniteSet(S \ {i})
      BY <1>2, FS_RemoveElement
    <2>2. Cardinality(S \ {i}) \in Nat
      BY <2>1, FS_CardinalityType
    <2> QED
      BY <1>3, <2>1, <2>2
  <1> QED
    BY <1>3, <1>4, <1>5

-----------------------------------------------------------------------------
\* The clock's count.  It is right between ticks; within one, the effects the
\* engine has queued will make it right.

NewInTick == InTick \ Known

\* Unresolved incidents of the engines since the last stop: committed, as the
\* transaction has them, and those of them the evaluating engine knows.  The
\* engine of a new shift knows none but its own.
CommittedOpen == {i \in tracked : db[i].status # "resolved"}
NowOpen == {i \in tracked \cup NewInTick : NowRow[i].status # "resolved"}
Owned == (IF tick.ctx = installed THEN tracked ELSE {}) \cup NewInTick
OwnedOpen == {i \in Owned : NowRow[i].status # "resolved"}

\* An incident acknowledged a moment ago, of which the engine will hear.
Waiting == IF ack.pc = "notify" THEN {ack.id} ELSE {}

\* An engine between ticks.
Rests(e) ==
    /\ e.effects = <<>>
    /\ \A r \in Rules : e.openId[r] # NoIncident => e.openId[r] \in tracked
    /\ CommittedOpen \subseteq e.unresolved /\ e.unresolved \subseteq CommittedOpen \cup Waiting
    /\ slow = Cardinality(e.unresolved)

RestInv ==
    /\ tracked \subseteq Known /\ slow \in Nat
    /\ installed = 0 /\ tick.pc # "committed" => tracked = {} /\ slow = 0
    /\ installed # 0 /\ tick.pc = "idle" => Rests(engines[installed])
    /\ ack.pc = "notify" => db[ack.id].status = "resolved"

EvaluatingInv ==
    tick.pc = "rules" =>
        /\ installed # 0 => Rests(tick.saved[installed])
        /\ tick.ctx # installed /\ installed # 0 => Rests(engines[installed])
        /\ tick.ctx # installed => InTick \cap Known = {}
        /\ \A r \in Rules : engines[tick.ctx].openId[r] # NoIncident =>
                               engines[tick.ctx].openId[r] \in Owned
        /\ engines[tick.ctx].unresolved = OwnedOpen
        /\ Counted(slow, engines[tick.ctx].effects) = Cardinality(NowOpen)

\* The engine that was installed still holds what its successor will be handed.
CommittedInv ==
    tick.pc = "committed" =>
        /\ \A r \in Rules : engines[tick.ctx].openId[r] # NoIncident =>
                               engines[tick.ctx].openId[r] \in tracked
        /\ installed = 0 \/ installed = tick.ctx => engines[tick.ctx].unresolved = CommittedOpen
        /\ installed # 0 /\ installed # tick.ctx =>
              /\ engines[installed].effects = <<>>
              /\ engines[tick.ctx].unresolved \cup engines[installed].unresolved = CommittedOpen
        /\ Counted(slow, engines[tick.ctx].effects) = Cardinality(CommittedOpen)

SlowInv == RestInv /\ EvaluatingInv /\ CommittedInv

\* A rule's step keeps the count if the effects it queues do.
LEMMA RuleSlow ==
    ASSUME EngineInv, SlowInv, tick.pc = "rules", NEW f \in EngineRecords, NEW rows,
           engines' = [engines EXCEPT ![tick.ctx] = f], Proceed(rows), Unaffected,
           tick.ctx # installed => InTick' \cap Known = {},
           \A r \in Rules : f.openId[r] # NoIncident => f.openId[r] \in Owned',
           f.unresolved = OwnedOpen',
           Counted(slow, f.effects) = Cardinality(NowOpen')
    PROVE  SlowInv'
  <1>1. /\ UNCHANGED <<db, installed, ack, slow, tracked>>
        /\ tick'.pc = "rules" /\ tick'.ctx = tick.ctx /\ tick'.saved = tick.saved
    BY DEF Unaffected, Proceed
  <1>2. Known' = Known /\ CommittedOpen' = CommittedOpen /\ Waiting' = Waiting
    BY <1>1 DEF Known, CommittedOpen, Waiting
  <1>3. engines'[tick.ctx] = f /\ \A c \in 1 .. MaxContexts : c # tick.ctx => engines'[c] = engines[c]
    BY DEF EngineInv, EnginesInv, TickInv
  <1>4. installed # 0 => installed \in 1 .. MaxContexts
    BY DEF EngineInv, EnginesInv
  <1>5. RestInv'
    BY <1>1, <1>2 DEF SlowInv, RestInv
  <1>6. installed # 0 => Rests(tick.saved[installed])'
    BY <1>1, <1>2 DEF SlowInv, EvaluatingInv, Rests
  <1>7. tick.ctx # installed /\ installed # 0 => Rests(engines[installed])'
    BY <1>1, <1>2, <1>3, <1>4 DEF SlowInv, EvaluatingInv, Rests
  <1>8. EvaluatingInv'
    BY <1>1, <1>2, <1>3, <1>6, <1>7 DEF EvaluatingInv
  <1>9. CommittedInv'
    BY <1>1 DEF CommittedInv
  <1> QED
    BY <1>5, <1>8, <1>9 DEF SlowInv

\* A rule's step that writes no row changes no set of incidents.
LEMMA RowsAlone ==
    ASSUME EngineInv, tick.pc = "rules", Proceed(tick.rows), Unaffected
    PROVE  InTick' = InTick /\ Owned' = Owned /\ OwnedOpen' = OwnedOpen /\ NowOpen' = NowOpen
  <1>1. /\ UNCHANGED <<db, installed, tracked>>
        /\ tick'.pc = "rules" /\ tick'.ctx = tick.ctx /\ tick'.rows = tick.rows
    BY DEF Unaffected, Proceed
  <1>2. NowRow' = NowRow /\ Known' = Known /\ InTick' = InTick
    BY <1>1 DEF NowRow, Known, InTick, Loaded
  <1> QED
    BY <1>1, <1>2 DEF Owned, OwnedOpen, NowOpen, NewInTick

LEMMA LeaveSlow == ASSUME EngineInv, SlowInv, NEW r \in Rules, LeaveRule(r) PROVE SlowInv'
  <1>1. tick.pc = "rules" /\ Proceed(tick.rows) /\ Unaffected /\ engines' = engines
    BY DEF LeaveRule, Evaluates
  <1>2. /\ engines[tick.ctx] \in EngineRecords
        /\ engines' = [engines EXCEPT ![tick.ctx] = engines[tick.ctx]]
    BY <1>1 DEF EngineInv, EnginesInv, TickInv
  <1>3. PICK f \in EngineRecords : f = engines[tick.ctx]
    BY <1>2
  <1>4. InTick' = InTick /\ Owned' = Owned /\ OwnedOpen' = OwnedOpen /\ NowOpen' = NowOpen
    BY <1>1, RowsAlone
  <1> QED
    BY <1>1, <1>2, <1>3, <1>4, RuleSlow DEF SlowInv, EvaluatingInv

LEMMA DegradeSlow == ASSUME EngineInv, SlowInv, NEW r \in Rules, DegradeRule(r) PROVE SlowInv'
  <1>1. engines[tick.ctx] \in EngineRecords
    BY DEF DegradeRule, Evaluates, EngineInv, EnginesInv, TickInv
  <1>2. PICK f : f = [engines[tick.ctx] EXCEPT !.degraded = engines[tick.ctx].degraded \cup {r}]
    OBVIOUS
  <1>3. /\ f \in EngineRecords /\ f.openId = engines[tick.ctx].openId
        /\ f.unresolved = engines[tick.ctx].unresolved /\ f.effects = engines[tick.ctx].effects
    BY <1>1, <1>2 DEF EngineRecords
  <1>4. /\ tick.pc = "rules" /\ Proceed(tick.rows) /\ Unaffected
        /\ engines' = [engines EXCEPT ![tick.ctx] = f]
    BY <1>2 DEF DegradeRule, Evaluates, SetEngine, Engine
  <1>5. InTick' = InTick /\ Owned' = Owned /\ OwnedOpen' = OwnedOpen /\ NowOpen' = NowOpen
    BY <1>4, RowsAlone
  <1> QED
    BY <1>3, <1>4, <1>5, RuleSlow DEF SlowInv, EvaluatingInv

\* A rule's step that writes the row of an incident of the engine, whatever
\* becomes of it, adds no incident to those the engine has.
LEMMA OwnRowWritten ==
    ASSUME EngineInv, SlowInv, tick.pc = "rules", NEW i \in Owned, NEW row,
           Proceed(WithRow(i, row)), Unaffected
    PROVE  /\ i \in Incidents /\ Owned' = Owned
           /\ tick.ctx # installed => InTick' \cap Known = {}
           /\ row.status # "resolved" /\ i \in OwnedOpen =>
                 OwnedOpen' = OwnedOpen /\ NowOpen' = NowOpen
           /\ row.status = "resolved" => OwnedOpen' = OwnedOpen \ {i} /\ NowOpen' = NowOpen \ {i}
  <1>1. /\ UNCHANGED <<installed, tracked>>
        /\ tracked \subseteq Known /\ Known \subseteq Incidents /\ InTick \subseteq Incidents
    BY DEF Unaffected, SlowInv, RestInv, Known, InTick, EngineInv, TickInv
  <1>2. i \in Incidents
    BY <1>1 DEF Owned, NewInTick
  <1>3. /\ NowRow' = [NowRow EXCEPT ![i] = row]
        /\ Known' = Known /\ InTick' = InTick \cup {i} /\ tick'.ctx = tick.ctx
    BY <1>2, RowWritten
  <1>4. NewInTick' = NewInTick
    BY <1>1, <1>3 DEF Owned, NewInTick
  <1>5. Owned' = Owned
    BY <1>1, <1>3, <1>4 DEF Owned
  <1>6. tick.ctx # installed => InTick' \cap Known = {}
    BY <1>3 DEF Owned, NewInTick, SlowInv, EvaluatingInv
  <1>7. DOMAIN NowRow = Incidents
    BY DEF NowRow
  <1>8. \A j \in Incidents : NowRow'[j] = IF j = i THEN row ELSE NowRow[j]
    BY <1>3, <1>7
  <1>9. Owned \subseteq Incidents /\ tracked \cup NewInTick \subseteq Incidents
        /\ i \in tracked \cup NewInTick
    BY <1>1 DEF Owned, NewInTick
  <1>10. row.status # "resolved" /\ i \in OwnedOpen => OwnedOpen' = OwnedOpen /\ NowOpen' = NowOpen
    BY <1>1, <1>4, <1>5, <1>8, <1>9 DEF OwnedOpen, NowOpen
  <1>11. row.status = "resolved" => OwnedOpen' = OwnedOpen \ {i} /\ NowOpen' = NowOpen \ {i}
    BY <1>1, <1>4, <1>5, <1>8, <1>9 DEF OwnedOpen, NowOpen
  <1> QED
    BY <1>2, <1>5, <1>6, <1>10, <1>11

LEMMA OpenSlow ==
    ASSUME EngineInv, SlowInv, NEW r \in Rules, NEW severity \in {"warning", "critical"},
           OpenIncident(r, severity)
    PROVE  SlowInv'
  <1> DEFINE row == [NoRow EXCEPT !.status = "open", !.severity = severity]
  <1>1. /\ tick.pc = "rules" /\ Engine \in EngineRecords /\ Engine = engines[tick.ctx]
    BY DEF OpenIncident, Evaluates, EngineInv, EnginesInv, TickInv, Engine
  <1>2. PICK i \in Incidents :
           /\ IsNextId(i)
           /\ SetEngine(MarkUnresolved(Believes(Engine, r, severity, i), i))
           /\ Proceed(WithRow(i, row))
    BY DEF OpenIncident
  <1>3. row.status = "open" /\ Unaffected
    BY DEF OpenIncident, NoRow
  <1>4. i \notin Known /\ i \notin InTick
    BY <1>1, <1>2 DEF IsNextId, Used, Known, InTick
  <1> HIDE DEF row
  <1>5. PICK f : f = MarkUnresolved(Believes(Engine, r, severity, i), i)
    OBVIOUS
  <1>6. PICK e : e = Believes(Engine, r, severity, i)
    OBVIOUS
  <1>7. /\ e \in EngineRecords /\ e.unresolved = Engine.unresolved /\ e.effects = Engine.effects
        /\ \A q \in Rules : e.openId[q] = IF q = r THEN i ELSE Engine.openId[q]
    BY <1>1, <1>6 DEF Believes, EngineRecords, Severities
  <1>8. /\ f \in EngineRecords /\ f.openId = e.openId
    BY <1>5, <1>6, <1>7, MarksUnresolved
  <1>9. /\ f.unresolved = e.unresolved \cup {i}
        /\ f.effects = e.effects \o <<[kind |-> "slow", id |-> i], [kind |-> "announce", id |-> i]>>
    BY <1>5, <1>6, <1>7 DEF MarkUnresolved, EngineRecords
  <1>10. /\ NowRow' = [NowRow EXCEPT ![i] = row] /\ Known' = Known /\ InTick' = InTick \cup {i}
         /\ UNCHANGED <<installed, tracked>> /\ tick'.ctx = tick.ctx
    BY <1>1, <1>2, <1>3, RowWritten DEF Unaffected
  <1>11. /\ tracked \subseteq Known /\ Known \subseteq Incidents /\ InTick \subseteq Incidents
         /\ DOMAIN NowRow = Incidents
    BY DEF SlowInv, RestInv, Known, InTick, EngineInv, TickInv, NowRow
  <1>12. NewInTick' = NewInTick \cup {i}
    BY <1>4, <1>10 DEF NewInTick
  <1>13. Owned' = Owned \cup {i} /\ i \notin tracked \cup NewInTick /\ i \notin Owned
    BY <1>4, <1>10, <1>11, <1>12 DEF Owned, NewInTick
  <1>14. \A j \in Incidents : NowRow'[j] = IF j = i THEN row ELSE NowRow[j]
    BY <1>10, <1>11
  <1>15. Owned \subseteq Incidents /\ tracked \cup NewInTick \subseteq Incidents
    BY <1>11 DEF Owned, NewInTick
  <1>16. OwnedOpen' = OwnedOpen \cup {i}
    BY <1>3, <1>13, <1>14, <1>15 DEF OwnedOpen
  <1>17. NowOpen' = NowOpen \cup {i} /\ i \notin NowOpen /\ NowOpen \subseteq Incidents
    BY <1>3, <1>10, <1>12, <1>13, <1>14, <1>15 DEF NowOpen
  <1>18. Counted(slow, f.effects) = Cardinality(NowOpen')
    <2>1. /\ slow \in Nat /\ e.effects \in Seq(Effects)
          /\ Counted(slow, e.effects) = Cardinality(NowOpen)
      BY <1>1, <1>7 DEF SlowInv, RestInv, EvaluatingInv, EngineRecords
    <2>2. PICK s \in Seq(Effects) : s = e.effects
      BY <2>1
    <2>3. PICK t : t = f.effects
      OBVIOUS
    <2>4. Counted(slow, t) = Counted(slow, s) + 1
      BY <1>9, <2>1, <2>2, <2>3, CountedOpen
    <2>5. Cardinality(NowOpen \cup {i}) = Cardinality(NowOpen) + 1
      BY <1>17, CountedIncidents
    <2> QED
      BY <1>17, <2>1, <2>2, <2>3, <2>4, <2>5
  <1>19. engines' = [engines EXCEPT ![tick.ctx] = f]
    BY <1>2, <1>5 DEF SetEngine
  <1>20. f.unresolved = OwnedOpen'
    BY <1>1, <1>7, <1>9, <1>16 DEF SlowInv, EvaluatingInv
  <1>21. \A q \in Rules : f.openId[q] # NoIncident => f.openId[q] \in Owned'
    BY <1>1, <1>7, <1>8, <1>13 DEF SlowInv, EvaluatingInv
  <1>22. tick.ctx # installed => InTick' \cap Known = {}
    BY <1>1, <1>4, <1>10 DEF SlowInv, EvaluatingInv
  <1> QED
    BY <1>1, <1>2, <1>3, <1>8, <1>18, <1>19, <1>20, <1>21, <1>22, RuleSlow

\* The incident a rule is in is one of its engine, and unresolved.
LEMMA InIncidentOwned ==
    ASSUME EngineInv, SlowInv, tick.pc = "rules", NEW r \in Rules, Engine.hazard[r] # "none"
    PROVE  /\ Engine.openId[r] # NoIncident /\ Engine.openId[r] \in Owned
           /\ Engine.openId[r] \in OwnedOpen
  <1>1. Engine = engines[tick.ctx] /\ Believed(Engine, NowRow)
    BY DEF Engine, EngineInv, BeliefInv
  <1>2. PICK i : i = Engine.openId[r]
    OBVIOUS
  <1>3. i # NoIncident /\ i \in Owned /\ ~NowRow[i].ended
    BY <1>1, <1>2 DEF Believed, SlowInv, EvaluatingInv
  <1>4. i \in Incidents
    BY <1>3 DEF Owned, NewInTick, SlowInv, RestInv, Known, InTick, EngineInv, TickInv
  <1>5. NowRow[i].status # "resolved"
    BY <1>3, <1>4, NowFacts DEF Settled
  <1> QED
    BY <1>2, <1>3, <1>5 DEF OwnedOpen

LEMMA EscalateSlow ==
    ASSUME EngineInv, SlowInv, NEW r \in Rules, EscalateIncident(r) PROVE SlowInv'
  <1>1. /\ tick.pc = "rules" /\ Engine \in EngineRecords /\ Engine = engines[tick.ctx]
        /\ Engine.hazard[r] = "warning" /\ Unaffected
    BY DEF EscalateIncident, Evaluates, EngineInv, EnginesInv, TickInv, Engine
  <1>2. PICK i \in Owned : i = Engine.openId[r] /\ i \in OwnedOpen
    BY <1>1, InIncidentOwned
  <1>3. PICK row : row = [Loaded(i).new EXCEPT !.severity = "critical"]
    OBVIOUS
  <1>4. Proceed(WithRow(i, row))
    BY <1>2, <1>3 DEF EscalateIncident
  <1>5. i \in Incidents
    BY <1>1, <1>4, OwnRowWritten
  <1>6. Loaded(i).new = NowRow[i] /\ NowRow[i] \in Rows
    BY <1>1, <1>5, NowFacts DEF NowRow
  <1>7. row.status = NowRow[i].status /\ NowRow[i].status # "resolved"
    BY <1>2, <1>3, <1>6 DEF Rows, OwnedOpen
  <1>8. /\ Owned' = Owned /\ (tick.ctx # installed => InTick' \cap Known = {})
        /\ OwnedOpen' = OwnedOpen /\ NowOpen' = NowOpen
    BY <1>1, <1>2, <1>4, <1>7, OwnRowWritten
  <1>9. PICK f : f = Believes(Engine, r, "critical", i)
    OBVIOUS
  <1>10. /\ f \in EngineRecords /\ f.unresolved = Engine.unresolved /\ f.effects = Engine.effects
         /\ \A q \in Rules : f.openId[q] = IF q = r THEN i ELSE Engine.openId[q]
    BY <1>1, <1>5, <1>9 DEF Believes, EngineRecords, Severities
  <1>11. engines' = [engines EXCEPT ![tick.ctx] = f]
    BY <1>2, <1>9 DEF EscalateIncident, SetEngine
  <1>12. /\ f.unresolved = OwnedOpen' /\ Counted(slow, f.effects) = Cardinality(NowOpen')
         /\ \A q \in Rules : f.openId[q] # NoIncident => f.openId[q] \in Owned'
    BY <1>1, <1>2, <1>8, <1>10 DEF SlowInv, EvaluatingInv
  <1> QED
    BY <1>1, <1>4, <1>8, <1>10, <1>11, <1>12, RuleSlow

\* Closing an incident, and being told that it is resolved, uncount it.
LEMMA ResolvedIsCounted ==
    ASSUME NEW e \in EngineRecords, NEW i \in e.unresolved, NEW f, f = MarkResolved(e, i),
           NEW start \in Nat, Counted(start, e.effects) > 0
    PROVE  /\ f.unresolved = e.unresolved \ {i}
           /\ Counted(start, f.effects) = Counted(start, e.effects) - 1
  <1>1. i \in Incidents /\ e.effects \in Seq(Effects)
    BY DEF EngineRecords
  <1>2. /\ f.unresolved = e.unresolved \ {i}
        /\ f.effects = Append(e.effects, [kind |-> "normal", id |-> i])
    BY DEF MarkResolved, EngineRecords
  <1>3. PICK s \in Seq(Effects) : s = e.effects
    BY <1>1
  <1>4. Counted(start, Append(s, [kind |-> "normal", id |-> i])) = Counted(start, s) - 1
    BY <1>1, <1>3, CountedNormal
  <1> QED
    BY <1>2, <1>3, <1>4

LEMMA CloseSlow ==
    ASSUME EngineInv, SlowInv, NEW r \in Rules, CloseIncident(r) PROVE SlowInv'
  <1>1. /\ tick.pc = "rules" /\ Engine \in EngineRecords /\ Engine = engines[tick.ctx]
        /\ Engine.hazard[r] # "none" /\ Unaffected
    BY DEF CloseIncident, Evaluates, EngineInv, EnginesInv, TickInv, Engine
  <1>2. PICK i \in Owned : i = Engine.openId[r] /\ i \in OwnedOpen
    BY <1>1, InIncidentOwned
  <1> DEFINE old == Loaded(i).new
             status == StatusAfterClear(old.severity, old.status)
             closed == Believes(Engine, r, "none", NoIncident)
  <1>3. PICK row : row = [old EXCEPT !.ended = TRUE, !.status = status]
    OBVIOUS
  <1>4. PICK f : f = IF status = "resolved" THEN MarkResolved(closed, i) ELSE closed
    OBVIOUS
  <1>5. Proceed(WithRow(i, row)) /\ engines' = [engines EXCEPT ![tick.ctx] = f]
    BY <1>2, <1>3, <1>4 DEF CloseIncident, SetEngine
  <1>6. i \in Incidents
    BY <1>1, <1>5, OwnRowWritten
  <1>7. old = NowRow[i] /\ NowRow[i] \in Rows
    BY <1>1, <1>6, NowFacts DEF NowRow
  <1>8. row.status = status
    BY <1>3, <1>7 DEF Rows
  <1>9. /\ closed \in EngineRecords
        /\ closed.unresolved = Engine.unresolved /\ closed.effects = Engine.effects
        /\ \A q \in Rules : closed.openId[q] = IF q = r THEN NoIncident ELSE Engine.openId[q]
    BY <1>1 DEF Believes, EngineRecords, Severities
  <1>10. Owned' = Owned /\ (tick.ctx # installed => InTick' \cap Known = {})
    BY <1>1, <1>2, <1>5, OwnRowWritten
  <1>11. closed.unresolved = OwnedOpen /\ Counted(slow, closed.effects) = Cardinality(NowOpen)
    BY <1>1, <1>9 DEF SlowInv, EvaluatingInv
  <1>12. \A q \in Rules : closed.openId[q] # NoIncident => closed.openId[q] \in Owned
    BY <1>1, <1>9 DEF SlowInv, EvaluatingInv
  <1>13. i \in NowOpen /\ NowOpen \subseteq Incidents
    <2>1. Owned \subseteq tracked \cup NewInTick /\ tracked \cup NewInTick \subseteq Incidents
      BY DEF Owned, NewInTick, SlowInv, RestInv, Known, InTick, EngineInv, TickInv
    <2> QED
      BY <1>2, <2>1 DEF NowOpen, OwnedOpen
  <1> HIDE DEF closed, old, status
  <1>14. CASE status = "resolved"
    <2>1. PICK c \in EngineRecords : c = closed
      BY <1>9
    <2>2. f = MarkResolved(c, i) /\ i \in c.unresolved
      BY <1>2, <1>4, <1>11, <1>14, <2>1
    <2>3. /\ Cardinality(NowOpen) \in Nat /\ Cardinality(NowOpen) > 0
          /\ Cardinality(NowOpen \ {i}) = Cardinality(NowOpen) - 1
      BY <1>13, CountedIncidents
    <2>4. slow \in Nat /\ Counted(slow, c.effects) > 0
      BY <1>11, <2>1, <2>3 DEF SlowInv, RestInv
    <2>5. /\ f.unresolved = c.unresolved \ {i}
          /\ Counted(slow, f.effects) = Counted(slow, c.effects) - 1
      BY <2>2, <2>4, ResolvedIsCounted
    <2>6. f \in EngineRecords /\ f.openId = c.openId
      BY <1>6, <2>2, MarksResolved
    <2>7. OwnedOpen' = OwnedOpen \ {i} /\ NowOpen' = NowOpen \ {i}
      BY <1>1, <1>2, <1>5, <1>8, <1>14, OwnRowWritten
    <2>8. f.unresolved = OwnedOpen' /\ Counted(slow, f.effects) = Cardinality(NowOpen')
      BY <1>11, <2>1, <2>3, <2>5, <2>7
    <2>9. \A q \in Rules : f.openId[q] # NoIncident => f.openId[q] \in Owned'
      BY <1>10, <1>12, <2>1, <2>6
    <2> QED
      BY <1>1, <1>5, <1>10, <2>6, <2>8, <2>9, RuleSlow
  <1>15. CASE status # "resolved"
    <2>1. OwnedOpen' = OwnedOpen /\ NowOpen' = NowOpen
      BY <1>1, <1>2, <1>5, <1>8, <1>15, OwnRowWritten
    <2>2. f \in EngineRecords /\ f = closed
      BY <1>4, <1>9, <1>15
    <2>3. f.unresolved = OwnedOpen' /\ Counted(slow, f.effects) = Cardinality(NowOpen')
      BY <1>11, <2>1, <2>2
    <2>4. \A q \in Rules : f.openId[q] # NoIncident => f.openId[q] \in Owned'
      BY <1>10, <1>12, <2>2
    <2> QED
      BY <1>1, <1>5, <1>10, <2>2, <2>3, <2>4, RuleSlow
  <1> QED
    BY <1>14, <1>15

\* The tick's other steps.
LEMMA BeginTickSlow ==
    ASSUME EngineInv, SlowInv, Serial, NEW ctx \in 1 .. MaxContexts, BeginTick(ctx) PROVE SlowInv'
  <1>1. /\ tick.pc = "idle" /\ ack.pc = "idle" /\ UNCHANGED <<db, installed, ack, slow, tracked>>
        /\ tick'.pc = "rules" /\ tick'.ctx = ctx /\ tick'.saved = engines' /\ tick'.rows = <<>>
    BY DEF BeginTick
  <1>2. \/ ctx = installed /\ engines' = engines
        \/ ctx = built + 1 /\ engines' = [engines EXCEPT ![ctx] = Fresh]
    BY DEF BeginTick
  <1>3. DOMAIN tick'.rows = {}
    BY <1>1
  <1>4. /\ NowRow' = db /\ Known' = Known /\ InTick' = {} /\ NewInTick' = {}
        /\ CommittedOpen' = CommittedOpen /\ Waiting' = {} /\ Waiting = {}
    BY <1>1, <1>3 DEF NowRow, Known, InTick, NewInTick, Loaded, CommittedOpen, Waiting,
                      EngineInv, RowsInv
  <1>5. NowOpen' = CommittedOpen
    BY <1>1, <1>4 DEF NowOpen, CommittedOpen
  <1>6. /\ ctx \in 1 .. MaxContexts /\ (installed # 0 => installed \in 1 .. MaxContexts)
        /\ installed # built + 1 /\ DOMAIN engines = 1 .. MaxContexts
    BY DEF EngineInv, EnginesInv
  <1>7. installed # 0 => engines'[installed] = engines[installed]
    BY <1>2, <1>6
  <1>8. installed # 0 =>
           /\ engines[installed].effects = <<>> /\ engines[installed].unresolved = CommittedOpen
           /\ \A r \in Rules : engines[installed].openId[r] # NoIncident =>
                                  engines[installed].openId[r] \in tracked
           /\ slow = Cardinality(CommittedOpen)
    <2> SUFFICES ASSUME installed # 0
                 PROVE  /\ engines[installed].effects = <<>>
                        /\ engines[installed].unresolved = CommittedOpen
                        /\ \A r \in Rules : engines[installed].openId[r] # NoIncident =>
                                               engines[installed].openId[r] \in tracked
                        /\ slow = Cardinality(CommittedOpen)
      OBVIOUS
    <2>1. Rests(engines[installed])
      BY <1>1 DEF SlowInv, RestInv
    <2>2. engines[installed].unresolved = CommittedOpen
      BY <1>4, <2>1 DEF Rests
    <2> QED
      BY <2>1, <2>2 DEF Rests
  <1>9. installed # 0 => Rests(engines[installed])' /\ Rests(tick.saved[installed])'
    BY <1>1, <1>4, <1>7, <1>8 DEF Rests
  <1>10. slow = Cardinality(CommittedOpen) /\ slow \in Nat
    <2>1. slow \in Nat
      BY DEF SlowInv, RestInv
    <2>2. CASE installed # 0
      BY <1>8, <2>1, <2>2
    <2>3. CASE installed = 0
      <3>1. CommittedOpen = {} /\ slow = 0
        BY <1>1, <2>3 DEF SlowInv, RestInv, CommittedOpen
      <3> QED
        BY <2>1, <3>1, FS_EmptySet
    <2> QED
      BY <2>2, <2>3
  <1>11. RestInv'
    BY <1>1, <1>4 DEF SlowInv, RestInv
  <1>12. /\ engines'[ctx].effects = <<>>
         /\ \A r \in Rules : engines'[ctx].openId[r] # NoIncident => engines'[ctx].openId[r] \in Owned'
         /\ engines'[ctx].unresolved = OwnedOpen'
    <2>1. CASE ctx = installed
      <3>1. Owned' = tracked /\ OwnedOpen' = CommittedOpen
        BY <1>1, <1>4, <2>1 DEF Owned, OwnedOpen, CommittedOpen
      <3>2. ctx # 0
        BY DEF BeginTick
      <3> QED
        BY <1>7, <1>8, <2>1, <3>1, <3>2
    <2>2. CASE ctx # installed
      <3>1. engines'[ctx] = Fresh
        BY <1>2, <1>6, <2>2
      <3>2. Owned' = {} /\ OwnedOpen' = {}
        BY <1>1, <1>4, <2>2 DEF Owned, OwnedOpen
      <3> QED
        BY <3>1, <3>2 DEF Fresh
    <2> QED
      BY <2>1, <2>2
  <1>13. Counted(slow', engines'[ctx].effects) = Cardinality(NowOpen')
    BY <1>1, <1>5, <1>10, <1>12, CountedNone
  <1>14. EvaluatingInv'
    <2> SUFFICES /\ installed' # 0 => Rests(tick.saved[installed])'
                 /\ tick'.ctx # installed' /\ installed' # 0 => Rests(engines[installed])'
                 /\ tick'.ctx # installed' => InTick' \cap Known' = {}
                 /\ \A r \in Rules : engines'[tick'.ctx].openId[r] # NoIncident =>
                                        engines'[tick'.ctx].openId[r] \in Owned'
                 /\ engines'[tick'.ctx].unresolved = OwnedOpen'
                 /\ Counted(slow', engines'[tick'.ctx].effects) = Cardinality(NowOpen')
      BY DEF EvaluatingInv
    <2> QED
      BY <1>1, <1>4, <1>9, <1>12, <1>13
  <1>15. CommittedInv'
    BY <1>1 DEF CommittedInv
  <1> QED
    BY <1>11, <1>14, <1>15 DEF SlowInv

LEMMA CommitTickSlow == ASSUME EngineInv, SlowInv, CommitTick PROVE SlowInv'
  <1>1. /\ tick.pc = "rules" /\ tick'.pc = "committed" /\ tick'.ctx = tick.ctx
        /\ UNCHANGED <<engines, installed, slow>>
        /\ tracked' = tracked \cup {i \in DOMAIN tick.rows : tick.rows[i].old = NoRow}
    BY DEF CommitTick
  <1>2. db' = NowRow /\ Known' = Known \cup InTick
    BY RowsCommitted
  <1>3. InTick = DOMAIN tick.rows /\ InTick \subseteq Incidents
    BY <1>1 DEF InTick, EngineInv, TickInv
  <1>4. \A i \in InTick : tick.rows[i].old = NoRow <=> i \notin Known
    <2>1. \A i \in InTick : tick.rows[i].old = db[i] /\ Settled(db[i])
      BY <1>1, <1>3 DEF EngineInv, TickInv, RowsInv
    <2> QED
      BY <1>3, <2>1 DEF Settled, NoRow, Known
  <1>5. tracked' = tracked \cup NewInTick
    BY <1>1, <1>3, <1>4 DEF NewInTick
  <1>6. CommittedOpen' = NowOpen
    BY <1>2, <1>5 DEF CommittedOpen, NowOpen
  <1>7. RestInv'
    <2>1. ack'.pc = "idle"
      BY <1>1 DEF CommitTick, EngineInv, AckInv
    <2> QED
      BY <1>1, <1>2, <1>5, <2>1 DEF SlowInv, RestInv, NewInTick
  <1>8. \A r \in Rules : engines[tick.ctx].openId[r] # NoIncident =>
                            engines[tick.ctx].openId[r] \in tracked'
    BY <1>1, <1>5 DEF SlowInv, EvaluatingInv, Owned
  <1>9. tick.ctx = installed \/ installed = 0 => OwnedOpen = NowOpen
    BY <1>1 DEF OwnedOpen, NowOpen, Owned, SlowInv, RestInv
  <1>10. ASSUME installed # 0, installed # tick.ctx
         PROVE  /\ engines[installed].effects = <<>>
                /\ OwnedOpen \cup engines[installed].unresolved = NowOpen
    <2>1. Rests(engines[installed]) /\ InTick \cap Known = {} /\ tracked \subseteq Known
      BY <1>1, <1>10 DEF SlowInv, RestInv, EvaluatingInv
    <2>2. Waiting = {}
      BY <1>1 DEF Waiting, EngineInv, AckInv
    <2>3. engines[installed].unresolved = CommittedOpen
      BY <2>1, <2>2 DEF Rests
    <2>4. \A i \in tracked : NowRow[i] = db[i]
      BY <1>1, <1>3, <2>1, NowFacts DEF Known
    <2>5. NowOpen = CommittedOpen \cup OwnedOpen
      BY <1>10, <2>4 DEF NowOpen, CommittedOpen, OwnedOpen, Owned
    <2> QED
      BY <2>1, <2>3, <2>5 DEF Rests
  <1>11. CommittedInv'
    BY <1>1, <1>6, <1>8, <1>9, <1>10 DEF CommittedInv, SlowInv, EvaluatingInv
  <1>12. EvaluatingInv'
    BY <1>1 DEF EvaluatingInv
  <1> QED
    BY <1>7, <1>11, <1>12 DEF SlowInv

LEMMA RollbackSlow == ASSUME EngineInv, SlowInv, RollbackTick PROVE SlowInv'
  <1>1. /\ tick.pc = "rules" /\ tick'.pc = "idle" /\ engines' = Restored(tick.saved)
        /\ UNCHANGED <<db, installed, ack, slow, tracked>>
    BY DEF RollbackTick, NoTick
  <1>2. /\ Known' = Known /\ CommittedOpen' = CommittedOpen /\ Waiting' = Waiting
    BY <1>1 DEF Known, CommittedOpen, Waiting
  <1>3. ASSUME installed # 0
        PROVE  /\ engines'[installed].effects = <<>>
               /\ engines'[installed].openId = tick.saved[installed].openId
               /\ engines'[installed].unresolved = tick.saved[installed].unresolved
    <2>1. installed \in 1 .. MaxContexts /\ tick.saved \in [1 .. MaxContexts -> EngineRecords]
      BY <1>1, <1>3 DEF EngineInv, EnginesInv, TickInv
    <2>2. PICK e \in EngineRecords : e = tick.saved[installed]
      BY <2>1
    <2>3. PICK f : f = [e EXCEPT !.effects = <<>>]
      OBVIOUS
    <2>4. engines'[installed] = f
      BY <1>1, <2>1, <2>2, <2>3 DEF Restored
    <2>5. f.effects = <<>> /\ f.openId = e.openId /\ f.unresolved = e.unresolved
      BY <2>3, FlushIsFlushed
    <2> QED
      BY <2>2, <2>4, <2>5
  <1>4. installed # 0 => Rests(engines[installed])'
    <2>1. installed # 0 => Rests(tick.saved[installed])
      BY <1>1 DEF SlowInv, EvaluatingInv
    <2> QED
      BY <1>1, <1>2, <1>3, <2>1 DEF Rests
  <1>5. RestInv'
    BY <1>1, <1>2, <1>4 DEF SlowInv, RestInv
  <1> QED
    BY <1>1, <1>5 DEF SlowInv, EvaluatingInv, CommittedInv

LEMMA FinishSlow == ASSUME EngineInv, SlowInv, FinishTick PROVE SlowInv'
  <1>1. /\ tick.pc = "committed" /\ tick'.pc = "idle" /\ UNCHANGED <<db, ack, tracked>>
        /\ tick.ctx \in 1 .. MaxContexts
    BY DEF FinishTick, NoTick, EngineInv, TickInv
  <1>2. PICK e \in 1 .. MaxContexts : e = tick.ctx
    BY <1>1
  <1>3. /\ engines \in [1 .. MaxContexts -> EngineRecords] /\ engines[e] \in EngineRecords
        /\ engines[e].effects \in Seq(Effects)
    BY DEF EngineInv, EnginesInv, EngineRecords
  <1>4. /\ installed' = e /\ engines'[e].effects = <<>> /\ engines'[e].openId = engines[e].openId
        /\ engines'[e].unresolved = CommittedOpen /\ slow' = Cardinality(CommittedOpen)
    <2>1. CASE e = installed \/ installed = 0
      <3>1. PICK f : f = [engines[e] EXCEPT !.effects = <<>>]
        OBVIOUS
      <3>2. /\ engines' = [engines EXCEPT ![e] = f] /\ installed' = e
            /\ slow' = Counted(slow, engines[e].effects)
        BY <1>1, <1>2, <2>1, <3>1 DEF FinishTick, Flushed, Sent
      <3>3. f.openId = engines[e].openId /\ f.effects = <<>> /\ f.unresolved = engines[e].unresolved
        BY <1>3, <3>1, FlushIsFlushed
      <3>4. engines'[e] = f
        BY <1>3, <3>2
      <3>5. /\ engines[e].unresolved = CommittedOpen
            /\ Counted(slow, engines[e].effects) = Cardinality(CommittedOpen)
        BY <1>1, <1>2, <2>1 DEF SlowInv, CommittedInv
      <3> QED
        BY <3>2, <3>3, <3>4, <3>5
    <2>2. CASE e # installed /\ installed # 0
      <3>1. installed \in 1 .. MaxContexts /\ engines[installed] \in EngineRecords
        BY <1>3, <2>2 DEF EngineInv, EnginesInv
      <3>2. /\ engines[installed].effects = <<>>
            /\ engines[e].unresolved \cup engines[installed].unresolved = CommittedOpen
            /\ Counted(slow, engines[e].effects) = Cardinality(CommittedOpen)
        BY <1>1, <1>2, <2>2 DEF SlowInv, CommittedInv
      <3>3. CommittedOpen \in SUBSET Incidents
        BY DEF CommittedOpen, SlowInv, RestInv, Known
      <3>4. PICK f : f = [engines[e] EXCEPT !.unresolved = CommittedOpen, !.effects = <<>>]
        OBVIOUS
      <3>5. PICK g : g = Flushed(Holding(engines[installed], {}))
        OBVIOUS
      <3>6. /\ engines' = [engines EXCEPT ![e] = f, ![installed] = g] /\ installed' = e
            /\ slow' = Counted(slow, engines[installed].effects \o engines[e].effects)
        <4>1. /\ engines' = [engines EXCEPT
                       ![e] = Flushed(Holding(engines[e], engines[e].unresolved \cup engines[installed].unresolved)),
                       ![installed] = Flushed(Holding(engines[installed], {}))]
              /\ installed' = e
              /\ slow' = Counted(slow, engines[installed].effects \o engines[e].effects)
          BY <1>1, <1>2, <2>2 DEF FinishTick, Sent
        <4>2. Flushed(Holding(engines[e], CommittedOpen)) = f
          BY <3>4 DEF Flushed, Holding
        <4> QED
          BY <3>2, <3>5, <4>1, <4>2
      <3>7. f.openId = engines[e].openId /\ f.effects = <<>> /\ f.unresolved = CommittedOpen
        <4>1. PICK a \in EngineRecords : a = engines[e]
          BY <1>3
        <4>2. PICK open \in SUBSET Incidents : open = CommittedOpen
          BY <3>3
        <4>3. f = [a EXCEPT !.unresolved = open, !.effects = <<>>]
          BY <3>4, <4>1, <4>2
        <4>4. f.openId = a.openId /\ f.effects = <<>>
          BY <4>3, FlushedFacts
        <4>5. f.unresolved = open
          BY <4>3 DEF EngineRecords
        <4> QED
          BY <4>1, <4>2, <4>4, <4>5
      <3>8. engines'[e] = f
        BY <1>3, <2>2, <3>1, <3>6
      <3>9. <<>> \o engines[e].effects = engines[e].effects
        BY <1>3
      <3> QED
        BY <3>2, <3>6, <3>7, <3>8, <3>9
    <2> QED
      BY <2>1, <2>2
  <1>5. CommittedOpen \in SUBSET Incidents /\ Cardinality(CommittedOpen) \in Nat
    <2>1. CommittedOpen \in SUBSET Incidents
      BY DEF CommittedOpen, SlowInv, RestInv, Known
    <2> QED
      BY <2>1, CountedIncidents
  <1>6. Known' = Known /\ CommittedOpen' = CommittedOpen /\ Waiting' = Waiting
    BY <1>1 DEF Known, CommittedOpen, Waiting
  <1>7. \A r \in Rules : engines[e].openId[r] # NoIncident => engines[e].openId[r] \in tracked
    BY <1>1, <1>2 DEF SlowInv, CommittedInv
  <1>8. Rests(engines[installed])'
    BY <1>1, <1>4, <1>6, <1>7 DEF Rests
  <1>9. RestInv'
    BY <1>1, <1>2, <1>4, <1>5, <1>6, <1>8 DEF SlowInv, RestInv
  <1> QED
    BY <1>1, <1>9 DEF SlowInv, EvaluatingInv, CommittedInv

\* The requests.
LEMMA BeginAckSlow ==
    ASSUME EngineInv, SlowInv, Serial, NEW i \in Incidents, BeginAck(i) PROVE SlowInv'
  <1>1. /\ tick.pc = "idle" /\ ack.pc = "idle" /\ ack'.pc = "commit"
        /\ UNCHANGED <<db, engines, installed, tick, slow, tracked>>
    BY DEF BeginAck
  <1>2. Known' = Known /\ CommittedOpen' = CommittedOpen /\ Waiting' = {} /\ Waiting = {}
    BY <1>1 DEF Known, CommittedOpen, Waiting
  <1>3. RestInv'
    BY <1>1, <1>2 DEF SlowInv, RestInv, Rests
  <1> QED
    BY <1>1, <1>3 DEF SlowInv, EvaluatingInv, CommittedInv

\* A resolved incident stays so, and one that is resolved by the acknowledgement
\* is one of which the engine will hear.
LEMMA CommitAckSlow == ASSUME EngineInv, SlowInv, CommitAck PROVE SlowInv'
  <1>1. /\ ack.pc = "commit" /\ tick.pc = "idle"
        /\ UNCHANGED <<engines, installed, tick, slow, tracked>>
        /\ ack' = IF ack.new.status = "resolved" THEN [pc |-> "notify", id |-> ack.id] ELSE NoAck
    BY DEF CommitAck, EngineInv, AckInv
  <1>2. PICK i \in Incidents, new \in Rows :
           /\ i = ack.id /\ new = ack.new /\ new = Acknowledged(db[i]) /\ new.status # "none"
           /\ db[i].status # "none" /\ db' = [db EXCEPT ![i] = new]
    BY AckWritten
  <1>3. \A j \in Incidents : db'[j] = IF j = i THEN new ELSE db[j]
    BY <1>2 DEF EngineInv, RowsInv
  <1>4. db[i].status = "resolved" => new.status = "resolved"
    BY <1>2 DEF Acknowledged
  <1>5. Known' = Known
    BY <1>2, <1>3 DEF Known
  <1>6. tracked \subseteq Incidents
    BY DEF SlowInv, RestInv, Known
  <1>7. CASE new.status = "resolved"
    <2>1. ack'.pc = "notify" /\ ack'.id = i /\ Waiting' = {i} /\ Waiting = {}
      BY <1>1, <1>2, <1>7 DEF Waiting
    <2>2. CommittedOpen' = CommittedOpen \ {i}
      BY <1>1, <1>3, <1>6, <1>7 DEF CommittedOpen
    <2>3. db'[ack'.id].status = "resolved"
      BY <1>3, <1>7, <2>1
    <2>4. installed # 0 => Rests(engines[installed])'
      BY <1>1, <2>1, <2>2 DEF SlowInv, RestInv, Rests
    <2>5. RestInv'
      BY <1>1, <1>5, <2>3, <2>4 DEF SlowInv, RestInv
    <2> QED
      BY <1>1, <2>5 DEF SlowInv, EvaluatingInv, CommittedInv
  <1>8. CASE new.status # "resolved"
    <2>1. ack'.pc = "idle" /\ Waiting' = {} /\ Waiting = {}
      BY <1>1, <1>2, <1>8 DEF Waiting, NoAck
    <2>2. CommittedOpen' = CommittedOpen
      BY <1>1, <1>3, <1>4, <1>6, <1>8 DEF CommittedOpen
    <2>3. installed # 0 => Rests(engines[installed])'
      BY <1>1, <2>1, <2>2 DEF SlowInv, RestInv, Rests
    <2>4. RestInv'
      BY <1>1, <1>5, <2>1, <2>3 DEF SlowInv, RestInv
    <2> QED
      BY <1>1, <2>4 DEF SlowInv, EvaluatingInv, CommittedInv
  <1> QED
    BY <1>7, <1>8

LEMMA NotifySlow == ASSUME EngineInv, SlowInv, NotifyResolved PROVE SlowInv'
  <1>1. /\ ack.pc = "notify" /\ tick.pc = "idle" /\ ack'.pc = "idle" /\ ack.id \in Incidents
        /\ UNCHANGED <<db, installed, tick, tracked>>
    BY DEF NotifyResolved, EngineInv, AckInv, NoAck
  <1>2. Known' = Known /\ CommittedOpen' = CommittedOpen /\ Waiting' = {}
    BY <1>1 DEF Known, CommittedOpen, Waiting
  <1>3. CASE installed = 0
    <2>1. UNCHANGED <<engines, slow>>
      BY <1>3 DEF NotifyResolved
    <2>2. RestInv'
      BY <1>1, <1>2, <1>3, <2>1 DEF SlowInv, RestInv
    <2> QED
      BY <1>1, <2>2 DEF SlowInv, EvaluatingInv, CommittedInv
  <1>4. CASE installed # 0
    <2>1. PICK e \in EngineRecords : e = engines[installed]
      BY <1>4 DEF EngineInv, EnginesInv
    <2>2. PICK i \in Incidents : i = ack.id
      BY <1>1
    <2>3. PICK g : g = MarkResolved(e, i)
      OBVIOUS
    <2>4. PICK f : f = [g EXCEPT !.effects = <<>>]
      OBVIOUS
    <2>5. slow' = Counted(slow, g.effects) /\ engines' = [engines EXCEPT ![installed] = f]
      BY <1>4, <2>1, <2>2, <2>3, <2>4 DEF NotifyResolved, Flushed, Sent
    <2>6. engines'[installed] = f
      BY <1>4, <2>5 DEF EngineInv, EnginesInv
    <2>7. /\ e.effects = <<>> /\ slow = Cardinality(e.unresolved) /\ slow \in Nat
          /\ \A r \in Rules : e.openId[r] # NoIncident => e.openId[r] \in tracked
          /\ CommittedOpen \subseteq e.unresolved /\ e.unresolved \subseteq CommittedOpen \cup {i}
      BY <1>1, <1>4, <2>1, <2>2 DEF SlowInv, RestInv, Rests, Waiting
    <2>8. i \notin CommittedOpen
      BY <1>1, <2>2 DEF CommittedOpen, SlowInv, RestInv
    <2>9. g \in EngineRecords /\ g.openId = e.openId
      BY <2>3, MarksResolved
    <2>10. f.effects = <<>> /\ f.openId = e.openId /\ f.unresolved = g.unresolved
      BY <2>4, <2>9, FlushIsFlushed
    <2>11. Counted(slow, e.effects) = slow
      BY <2>7, CountedNone
    <2>12. g.unresolved = CommittedOpen /\ slow' = Cardinality(CommittedOpen) /\ slow' \in Nat
      <3>1. CASE i \in e.unresolved
        <4>1. e.unresolved \in SUBSET Incidents
          BY DEF EngineRecords
        <4>2. slow > 0 /\ Cardinality(e.unresolved \ {i}) = slow - 1
          BY <2>7, <3>1, <4>1, CountedIncidents
        <4>3. g.unresolved = e.unresolved \ {i} /\ Counted(slow, g.effects) = slow - 1
          BY <2>3, <2>7, <2>11, <3>1, <4>2, ResolvedIsCounted
        <4>4. e.unresolved \ {i} = CommittedOpen
          BY <2>7, <2>8
        <4>5. slow' = slow - 1 /\ slow - 1 \in Nat
          BY <2>5, <2>7, <4>2, <4>3
        <4> QED
          BY <4>2, <4>3, <4>4, <4>5
      <3>2. CASE i \notin e.unresolved
        <4>1. g = e /\ e.unresolved = CommittedOpen
          BY <2>3, <2>7, <3>2 DEF MarkResolved
        <4> QED
          BY <2>5, <2>7, <2>11, <4>1
      <3> QED
        BY <3>1, <3>2
    <2>13. Rests(engines[installed])'
      BY <1>1, <1>2, <2>6, <2>7, <2>10, <2>12 DEF Rests
    <2>14. RestInv'
      BY <1>1, <1>2, <1>4, <2>12, <2>13 DEF SlowInv, RestInv
    <2> QED
      BY <1>1, <2>14 DEF SlowInv, EvaluatingInv, CommittedInv
  <1> QED
    BY <1>3, <1>4

LEMMA ReportSlow ==
    ASSUME EngineInv, SlowInv, Serial, NEW i \in Incidents, ReportManual(i) PROVE SlowInv'
  <1>1. /\ tick.pc = "idle" /\ db[i].status = "none"
        /\ UNCHANGED <<engines, installed, tick, ack, slow, tracked>>
        /\ db' = [db EXCEPT ![i] = [NoRow EXCEPT !.status = "open", !.severity = "warning",
                                                 !.ended = TRUE, !.manual = TRUE]]
    BY DEF ReportManual, IsNextId, Used
  <1>2. \A j \in Incidents : j # i => db'[j] = db[j]
    BY <1>1 DEF EngineInv, RowsInv
  <1>3. i \notin tracked /\ tracked \subseteq Known /\ Known \subseteq Incidents
    BY <1>1 DEF SlowInv, RestInv, Known
  <1>4. tracked' \subseteq Known' /\ CommittedOpen' = CommittedOpen /\ Waiting' = Waiting
    BY <1>1, <1>2, <1>3 DEF Known, CommittedOpen, Waiting
  <1>5. ack.pc = "notify" => ack.id # i /\ ack.id \in Incidents
    BY <1>1 DEF SlowInv, RestInv, EngineInv, AckInv
  <1>6. ack'.pc = "notify" => db'[ack'.id].status = "resolved"
    BY <1>1, <1>2, <1>5 DEF SlowInv, RestInv
  <1>7. installed # 0 => Rests(engines[installed])'
    BY <1>1, <1>4 DEF SlowInv, RestInv, Rests
  <1>8. RestInv'
    BY <1>1, <1>4, <1>6, <1>7 DEF SlowInv, RestInv
  <1> QED
    BY <1>1, <1>8 DEF SlowInv, EvaluatingInv, CommittedInv

LEMMA StopSlow == ASSUME EngineInv, SlowInv, Serial, Stop PROVE SlowInv'
  <1>1. /\ tick'.pc = "idle" /\ installed' = 0 /\ slow' = 0 /\ tracked' = {} /\ ack'.pc = "idle"
    BY DEF Stop, NoTick
  <1>2. RestInv'
    BY <1>1 DEF RestInv
  <1> QED
    BY <1>1, <1>2 DEF SlowInv, EvaluatingInv, CommittedInv

LEMMA RestSlow ==
    ASSUME SlowInv, UNCHANGED <<db, engines, installed, tick, ack, slow, tracked>>
    PROVE  SlowInv'
  <1>1. /\ NowRow' = NowRow /\ Known' = Known /\ InTick' = InTick /\ NewInTick' = NewInTick
        /\ Owned' = Owned /\ CommittedOpen' = CommittedOpen /\ Waiting' = Waiting
    BY DEF NowRow, Known, InTick, NewInTick, Loaded, Owned, CommittedOpen, Waiting
  <1>2. NowOpen' = NowOpen /\ OwnedOpen' = OwnedOpen
    BY <1>1 DEF NowOpen, OwnedOpen
  <1>3. RestInv'
    BY <1>1 DEF SlowInv, RestInv, Rests
  <1>4. EvaluatingInv'
    BY <1>1, <1>2 DEF SlowInv, EvaluatingInv, Rests
  <1>5. CommittedInv'
    BY <1>1 DEF SlowInv, CommittedInv
  <1> QED
    BY <1>3, <1>4, <1>5 DEF SlowInv

LEMMA SlowInit == Init => SlowInv
  <1> SUFFICES ASSUME Init PROVE SlowInv
    OBVIOUS
  <1>1. installed = 0 /\ tick.pc = "idle" /\ ack.pc = "idle" /\ slow = 0 /\ tracked = {}
    BY DEF Init, NoTick, NoAck
  <1> QED
    BY <1>1 DEF SlowInv, RestInv, EvaluatingInv, CommittedInv

LEMMA SlowStep == Serial /\ EngineInv /\ SlowInv /\ [Next]_vars => SlowInv'
  <1> SUFFICES ASSUME Serial, EngineInv, SlowInv, [Next]_vars PROVE SlowInv'
    OBVIOUS
  <1>1. ASSUME NEW ctx \in 1 .. MaxContexts, BeginTick(ctx) PROVE SlowInv'
    BY <1>1, BeginTickSlow
  <1>2. ASSUME NEW r \in Rules, LeaveRule(r) PROVE SlowInv'
    BY <1>2, LeaveSlow
  <1>3. ASSUME NEW r \in Rules, EscalateIncident(r) PROVE SlowInv'
    BY <1>3, EscalateSlow
  <1>4. ASSUME NEW r \in Rules, CloseIncident(r) PROVE SlowInv'
    BY <1>4, CloseSlow
  <1>5. ASSUME NEW r \in Rules, DegradeRule(r) PROVE SlowInv'
    BY <1>5, DegradeSlow
  <1>6. ASSUME NEW r \in Rules, NEW severity \in {"warning", "critical"}, OpenIncident(r, severity)
        PROVE  SlowInv'
    BY <1>6, OpenSlow
  <1>7. CASE CommitTick
    BY <1>7, CommitTickSlow
  <1>8. CASE FinishTick
    BY <1>8, FinishSlow
  <1>9. CASE RollbackTick
    BY <1>9, RollbackSlow
  <1>10. ASSUME NEW i \in Incidents, BeginAck(i) PROVE SlowInv'
    BY <1>10, BeginAckSlow
  <1>11. ASSUME NEW i \in Incidents, ReportManual(i) PROVE SlowInv'
    BY <1>11, ReportSlow
  <1>12. CASE CommitAck
    BY <1>12, CommitAckSlow
  <1>13. CASE NotifyResolved
    BY <1>13, NotifySlow
  <1>14. CASE Stop
    BY <1>14, StopSlow
  <1>15. CASE HazardsEnd
    BY <1>15, RestSlow DEF HazardsEnd
  <1>16. CASE UNCHANGED vars
    BY <1>16, RestSlow DEF vars
  <1>17. CASE TickStep
    BY <1>2, <1>3, <1>4, <1>5, <1>6, <1>7, <1>8, <1>17 DEF TickStep
  <1> QED
    BY <1>1, <1>9, <1>10, <1>11, <1>12, <1>13, <1>14, <1>15, <1>16, <1>17 DEF Next

\* Between transactions the clock runs at 1x for exactly the incidents that are
\* not resolved, however ticks, rollbacks, acknowledgements, shift changes and
\* stops follow one another: effects are queued by one and sent by another, and
\* every one of them is counted once.
THEOREM AutoSlowIsExact == Serial => (Spec => []AutoSlowExact)
  <1>1. EngineInv /\ SlowInv => AutoSlowExact
    <2> SUFFICES ASSUME SlowInv, AtRest, installed # 0
                 PROVE  /\ engines[installed].unresolved = CommittedOpen
                        /\ slow = Cardinality(CommittedOpen)
      BY DEF AutoSlowExact, CommittedOpen
    <2>1. Rests(engines[installed]) /\ Waiting = {}
      BY DEF SlowInv, RestInv, AtRest, Waiting
    <2>2. engines[installed].unresolved = CommittedOpen
      BY <2>1 DEF Rests
    <2> QED
      BY <2>1, <2>2 DEF Rests
  <1>2. CASE Serial
    <2>1. EngineInv /\ SlowInv /\ [Next]_vars => SlowInv'
      BY <1>2, SlowStep
    <2>2. Spec => []EngineInv
      BY <1>2, EngineCorrect
    <2>3. Spec => []SlowInv
      BY <2>1, <2>2, SlowInit, PTL DEF Spec
    <2> QED
      BY <1>1, <2>2, <2>3, PTL
  <1>3. CASE ~Serial
    BY <1>3
  <1> QED
    BY <1>2, <1>3

=============================================================================


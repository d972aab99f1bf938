----------------------------- MODULE ShiftRecords -----------------------------
(***************************************************************************)
(* What a shift leaves behind, and the two reports made of it.  On the     *)
(* edge, incidents, habits and quiz results are recorded, and training is  *)
(* recommended by the edge's copy of the catalog; the records travel to    *)
(* the cloud, the catalog to the edge.  The operator's report counts what  *)
(* the edge has, the admin's what has arrived, with the training derived   *)
(* anew from the cloud's catalog.  Translated from app/edge/training,      *)
(* app/cloud/training, the listeners of EdgePipeline, _recommend of the    *)
(* behavior engine, the record handlers and the shift_report modules.      *)
(*                                                                         *)
(* One shift of one operator.  A transaction is one step.  Messages are    *)
(* applied at most once, in any order: in the outbox's, but for those set  *)
(* aside as dead letters and retried later (SyncDelivery).                 *)
(***************************************************************************)
EXTENDS Integers, FiniteSets, FiniteSetsExt

CONSTANTS
    IncidentTypes, EventTypes,  \* that a catalog may map; manual_report is not one
    Modules,         \* training modules
    NoModule,        \* of a type that is not mapped
    Catalogs,        \* recommendation maps of the content files
    Incidents, Events, Attempts,  \* bounds: record ids
    MaxContents     \* bound: catalogs published

Sources == ({"incident"} \X IncidentTypes) \cup ({"behavior"} \X EventTypes)

ASSUME RecordsAssumption ==
    /\ NoModule \notin Modules /\ "manual_report" \notin IncidentTypes
    /\ Catalogs \subseteq [Sources -> Modules \cup {NoModule}] /\ Catalogs # {}
    /\ MaxContents \in Nat
    /\ IsFiniteSet(Incidents) /\ IsFiniteSet(Events) /\ IsFiniteSet(Attempts)

VARIABLES
    catalog,      \* cloud.anomaly_training_map
    contents,     \* training_content messages for the edge not yet applied
    contentSeq,    \* sequence of the last one
    edgeCatalog,  \* the edge's copy, with the newest sequence applied
    parked,       \* the latest tick of the operator's machine shows it parked
    edge,         \* the edge's records: incidents, events, results
    recommended,  \* edge.recommendation of the shift: modules
    outbox,       \* record messages for the cloud not yet applied
    nextSeq,
    cloud,        \* the cloud's copies of the records
    \* History
    failed,       \* a recommendation has failed, or a record was made without one
    behind        \* the catalogs differed while the shift made a record, or changed after

recordVars == <<catalog, contents, contentSeq, edgeCatalog, parked, edge, recommended,
                outbox, nextSeq, cloud, failed, behind>>
catalogVars == <<catalog, contents, contentSeq, edgeCatalog>>

NoRecords == [incidents |-> [i \in {} |-> 0], events |-> [e \in {} |-> 0],
              results |-> [a \in {} |-> 0]]

RecordsInit ==
    /\ catalog \in Catalogs
    /\ contents = {} /\ contentSeq = 1
    /\ edgeCatalog = [seq |-> 1, map |-> catalog]
    /\ parked = FALSE
    /\ edge = NoRecords /\ cloud = NoRecords
    /\ recommended = {}
    /\ outbox = {} /\ nextSeq = 1
    /\ failed = FALSE /\ behind = FALSE

\* f with x as the value of k.
With(f, k, x) == [j \in DOMAIN f \cup {k} |-> IF j = k THEN x ELSE f[j]]
Anything(records) ==
    \E kind \in {"incidents", "events"} : DOMAIN records[kind] # {}

-----------------------------------------------------------------------------
\* The catalog.

\* publish_catalog and queue_training_content, one transaction: two of them wait for
\* each other at the rows of the modules.
PublishCatalog(map) ==
    /\ contentSeq < MaxContents
    /\ catalog' = map
    /\ contentSeq' = contentSeq + 1
    /\ contents' = contents \cup {[seq |-> contentSeq', map |-> map]}
    /\ behind' = (behind \/ (Anything(edge) /\ map # catalog))
    /\ UNCHANGED <<edgeCatalog, parked, edge, recommended, outbox, nextSeq, cloud, failed>>

\* apply_training_content
NewestContent(m) == IF edgeCatalog.seq > m.seq THEN edgeCatalog ELSE [seq |-> m.seq, map |-> m.map]

ApplyContent(m) ==
    /\ contents' = contents \ {m}
    /\ edgeCatalog' = NewestContent(m)
    /\ UNCHANGED <<catalog, contentSeq, parked, edge, recommended, outbox, nextSeq, cloud,
                   failed, behind>>

-----------------------------------------------------------------------------
\* The edge's records.

Queue(kind, id, value) ==
    /\ outbox' = outbox \cup {[kind |-> kind, id |-> id, seq |-> nextSeq, value |-> value]}
    /\ nextSeq' = nextSeq + 1

\* recommend_for_source: once per module and shift.
Mapped(source) == edgeCatalog.map[source]
Recommend(source) ==
    recommended' = IF Mapped(source) = NoModule THEN recommended
                   ELSE recommended \cup {Mapped(source)}

\* The recommendation is made in a savepoint, which may fail and take nothing else back.
RecommendOrFail(source, fails) ==
    /\ IF fails THEN UNCHANGED recommended ELSE Recommend(source)
    /\ failed' = (failed \/ (fails /\ Mapped(source) # NoModule))
    /\ behind' = (behind \/ edgeCatalog.map # catalog)

\* The safety engine runs each listener in a savepoint of its own.
NotifyIncidentListeners(type, fails) == RecommendOrFail(<<"incident", type>>, fails)

\* A rule opens an incident; _recommend_for_incident is its listener.
OpenIncident(i, type, fails) ==
    /\ i \notin DOMAIN edge.incidents
    /\ LET row == [type |-> type, severity |-> "warning"]
       IN  /\ edge' = [edge EXCEPT !.incidents = With(@, i, row)]
           /\ Queue("incidents", i, row)
    /\ NotifyIncidentListeners(type, fails)
    /\ UNCHANGED <<catalogVars, parked, cloud>>

\* An escalation; any later change of the row queues the whole row too.
Escalate(i) ==
    /\ i \in DOMAIN edge.incidents
    /\ edge.incidents[i].severity = "warning"
    /\ LET row == [edge.incidents[i] EXCEPT !.severity = "critical"]
       IN  /\ edge' = [edge EXCEPT !.incidents = With(@, i, row)]
           /\ Queue("incidents", i, row)
    /\ UNCHANGED <<catalogVars, parked, recommended, cloud, failed, behind>>

\* report_incident: the operator's own report has no listeners.
ReportIncident(i) ==
    /\ i \notin DOMAIN edge.incidents
    /\ LET row == [type |-> "manual_report", severity |-> "warning"]
       IN  /\ edge' = [edge EXCEPT !.incidents = With(@, i, row)]
           /\ Queue("incidents", i, row)
    /\ UNCHANGED <<catalogVars, parked, recommended, cloud, failed, behind>>

\* _persist_and_broadcast of the behavior engine.
RecordEvent(e, type, fails) ==
    /\ e \notin DOMAIN edge.events
    /\ edge' = [edge EXCEPT !.events = With(@, e, type)]
    /\ Queue("events", e, type)
    /\ RecommendOrFail(<<"behavior", type>>, fails)
    /\ UNCHANGED <<catalogVars, parked, cloud>>

\* record_tick after a committed tick, or state.clear when streaming stops.
SeeMachine ==
    /\ parked' = ~parked
    /\ UNCHANGED <<catalogVars, edge, recommended, outbox, nextSeq, cloud, failed, behind>>

RequireParked == parked

\* The graded attempt, whatever the answers earned.
StoreResult(a, passed) ==
    /\ a \notin DOMAIN edge.results
    /\ edge' = [edge EXCEPT !.results = With(@, a, passed)]
    /\ Queue("results", a, passed)

SubmitQuiz(a, passed) ==
    /\ RequireParked
    /\ StoreResult(a, passed)
    /\ UNCHANGED <<catalogVars, parked, recommended, cloud, failed, behind>>

-----------------------------------------------------------------------------
\* The cloud's handlers.

\* apply_incident keeps the newest copy.
AnyCopy(m) == TRUE   \* mutant
NewestCopy(m) == m.id \notin DOMAIN cloud.incidents \/ m.seq > cloud.incidents[m.id].seq

\* _insert_once
Inserts(m) == m.id \notin DOMAIN cloud[m.kind]

ApplyRecord(m) ==
    /\ outbox' = outbox \ {m}
    /\ cloud' =
         IF m.kind = "incidents"
         THEN IF NewestCopy(m)
              THEN [cloud EXCEPT !.incidents = With(@, m.id, [row |-> m.value, seq |-> m.seq])]
              ELSE cloud
         ELSE IF Inserts(m) THEN [cloud EXCEPT ![m.kind] = With(@, m.id, m.value)] ELSE cloud
    /\ UNCHANGED <<catalogVars, parked, edge, recommended, nextSeq, failed, behind>>

RecordsNext ==
    \/ \E map \in Catalogs : PublishCatalog(map)
    \/ \E m \in contents : ApplyContent(m)
    \/ \E i \in Incidents :
          \/ \E type \in IncidentTypes, fails \in BOOLEAN : OpenIncident(i, type, fails)
          \/ Escalate(i)
          \/ ReportIncident(i)
    \/ \E e \in Events, type \in EventTypes, fails \in BOOLEAN : RecordEvent(e, type, fails)
    \/ SeeMachine
    \/ \E a \in Attempts, passed \in BOOLEAN : SubmitQuiz(a, passed)
    \/ \E m \in outbox : ApplyRecord(m)

RecordsSpec == RecordsInit /\ [][RecordsNext]_recordVars

-----------------------------------------------------------------------------
\* The two reports.

CountOf(f, x) == Cardinality({k \in DOMAIN f : f[k] = x})

ReportOf(incidents, events, training) ==
    [total    |-> Cardinality(DOMAIN incidents),
     critical |-> Cardinality({i \in DOMAIN incidents : incidents[i].severity = "critical"}),
     types    |-> [t \in IncidentTypes \cup {"manual_report"} |->
                      Cardinality({i \in DOMAIN incidents : incidents[i].type = t})],
     behavior |-> [t \in EventTypes |-> CountOf(events, t)],
     training |-> training]

EdgeReport == ReportOf(edge.incidents, edge.events, recommended)   \* edge_shift_report

CloudIncidents == [i \in DOMAIN cloud.incidents |-> cloud.incidents[i].row]

\* _mapped_training
DerivedTraining ==
    {catalog[s] : s \in {t \in Sources :
        \/ t[1] = "incident" /\ \E i \in DOMAIN CloudIncidents : CloudIncidents[i].type = t[2]
        \/ t[1] = "behavior" /\ \E e \in DOMAIN cloud.events : cloud.events[e] = t[2]}}
    \ {NoModule}

CloudReport == ReportOf(CloudIncidents, cloud.events, DerivedTraining)   \* cloud_shift_report

\* When everything has arrived, in whatever order, the admin reads of the shift what
\* the operator reads: the counts always, the training as well unless a recommendation
\* failed, or the catalog changed or was on its way while the shift made its records.
ReportsAgree ==
    outbox = {} =>
        /\ [CloudReport EXCEPT !.training = {}] = [EdgeReport EXCEPT !.training = {}]
        /\ ~failed /\ ~behind => CloudReport.training = EdgeReport.training
        /\ cloud.results = edge.results

=============================================================================

--------------------------- MODULE TaskSyncProofs ---------------------------
(***************************************************************************)
(* A started task is the edge's, the cloud holds the newest report applied *)
(* to it, for any shifts, moves, dead letters and clock, and the two tiers *)
(* agree in the end, when transactions do not overlap.                     *)
(*                                                                         *)
(* The invariant says that an open transaction still holds the row it      *)
(* read, that the edge has no task the cloud has not, and that reports are *)
(* told apart by their sequences.                                          *)
(***************************************************************************)
EXTENDS TaskSync, TLAPS

Working == {"in_progress", "paused", "blocked", "done"}

IsCloudMessage(m) == m.seq \in Nat /\ m.shift \in Shifts \cup {NoShift} /\ m.asg \in Nat
IsReport(m) ==
    /\ m.seq \in Nat /\ m.status \in Working
    /\ m.shift \in Shifts \cup {NoShift} /\ m.asg \in Nat /\ m.start \in Nat /\ m.qty \in Nat

Shape ==
    /\ cloud \in Rows /\ edge \in Rows
    /\ DOMAIN tx = Actors /\ DOMAIN queue = Directions /\ DOMAIN dead = Directions
    /\ nextSeq \in [Directions -> Nat \ {0}] /\ changes \in Nat

\* One transaction at a time, each on the row it has read.
OneOpen == \A a, b \in Actors : tx[a].open /\ tx[b].open => a = b

AdminRead ==
    \A a \in Admins : tx[a].open =>
        /\ tx[a].old = cloud /\ tx[a].new \in Rows
        /\ tx[a].new.status \in {"assigned", "cancelled"} /\ tx[a].new.seq = cloud.seq
        /\ cloud.status \in {"none", "assigned"} /\ changes # 0

EdgeRead ==
    \A a \in {"operator", "tick"} : tx[a].open =>
        /\ tx[a].old = edge /\ tx[a].new \in Rows /\ edge.status # "none"
        /\ tx[a].new.status \in Working /\ tx[a].new.shift = edge.shift /\ tx[a].new.asg = edge.asg
        /\ ConsoleOnly => tx[a].new.start = 1

ApplyRead ==
    /\ tx["down"].open => /\ tx["down"].old = edge /\ tx["down"].msg \in queue["down"]
                          /\ tx["down"].new = FromCloud(edge, tx["down"].msg)
    /\ tx["up"].open => /\ tx["up"].old = cloud /\ tx["up"].msg \in queue["up"]
                        /\ tx["up"].new = FromEdge(cloud, tx["up"].msg)

\* A task that is not under way has not started, and the console starts it once.
StartInv ==
    /\ edge.status \notin Working => edge.start = 0
    /\ ConsoleOnly => (edge.status \in Working => edge.start = 1)

\* What the cloud has sent it knows, and what the edge has came from there.
CloudFirst ==
    /\ \A m \in queue["down"] \cup dead["down"] : IsCloudMessage(m)
    /\ \/ cloud.status # "none"
       \/ cloud = NoRow /\ queue["down"] = {} /\ dead["down"] = {} /\ edge.status = "none" /\ sent = {}
    /\ changes = 0 => cloud.status = "none"

Reports ==
    /\ \A m \in sent : IsReport(m) /\ m.seq < nextSeq["up"]
    /\ \A m, n \in sent : m.seq = n.seq => m = n
    /\ queue["up"] \cup dead["up"] \subseteq sent /\ queue["up"] \cap dead["up"] = {}
    /\ cloud.seq < nextSeq["up"]
    /\ \A m \in queue["up"] \cup dead["up"] : m.seq # cloud.seq

TaskInv ==
    /\ Shape /\ OneOpen /\ AdminRead /\ EdgeRead /\ ApplyRead /\ StartInv /\ CloudFirst
    /\ Reports /\ NewestReportWins

-----------------------------------------------------------------------------
\* Rows.

LEMMA NoRowFacts == NoRow \in Rows
  BY DEF NoRow, Rows, Statuses

LEMMA MergeRead == \A old, new \in Rows : Merge(old, old, new) = new
  <1> SUFFICES ASSUME NEW old \in Rows, NEW new \in Rows PROVE Merge(old, old, new) = new
    OBVIOUS
  <1>1. Merge(old, old, new) = [f \in DOMAIN old |-> new[f]]
    BY DEF Merge
  <1>2. DOMAIN old = DOMAIN new
    BY DEF Rows
  <1>3. new = [f \in DOMAIN new |-> new[f]]
    BY DEF Rows
  <1> QED
    BY <1>1, <1>2, <1>3

\* An action of the operator puts the task under way and leaves its assignment.
LEMMA ActedFacts ==
    ASSUME NEW row \in Rows, NEW action \in OperatorActions
    PROVE  /\ Acted(row, action) \in Rows /\ Acted(row, action).status \in Working
           /\ Acted(row, action).shift = row.shift /\ Acted(row, action).asg = row.asg
           /\ Acted(row, action).start = IF action = "start" THEN row.start + 1 ELSE row.start
  <1> USE DEF Rows, Statuses, Working
  <1>1. CASE action = "start"
    <2>1. Acted(row, action) = [row EXCEPT !.status = "in_progress", !.start = row.start + 1]
      BY <1>1 DEF Acted
    <2>2. row.start + 1 \in Nat
      OBVIOUS
    <2> QED
      BY <1>1, <2>1, <2>2
  <1>2. CASE action = "pause"
    BY <1>2 DEF Acted
  <1>3. CASE action = "block"
    BY <1>3 DEF Acted
  <1>4. CASE action \in {"resume", "unblock"}
    BY <1>4 DEF Acted
  <1>5. CASE action = "complete"
    BY <1>5 DEF Acted
  <1> QED
    BY <1>1, <1>2, <1>3, <1>4, <1>5 DEF OperatorActions

\* A message of the cloud never touches a task that is under way.
LEMMA FromCloudFacts ==
    ASSUME NEW row \in Rows, NEW m, IsCloudMessage(m),
           row.status \notin Working => row.start = 0
    PROVE  /\ FromCloud(row, m) \in Rows
           /\ row.status \in Working => FromCloud(row, m) = row
           /\ row.status \notin Working =>
                 FromCloud(row, m).status \notin Working /\ FromCloud(row, m).start = 0
  BY DEF FromCloud, Assigned, Cancelled, Started, Newer, Rows, Statuses, NoRow, IsCloudMessage, Working

LEMMA FromEdgeFacts ==
    ASSUME NEW row \in Rows, NEW m, IsReport(m), row.status # "none"
    PROVE  /\ FromEdge(row, m) \in Rows /\ FromEdge(row, m).status # "none"
           /\ m.seq <= row.seq => FromEdge(row, m) = row
           /\ m.seq > row.seq =>
                 /\ FromEdge(row, m).seq = m.seq /\ FromEdge(row, m).status = m.status
                 /\ FromEdge(row, m).start = m.start /\ FromEdge(row, m).qty = m.qty
  <1> DEFINE assigned == IF Conflict(row, m) THEN [row EXCEPT !.shift = m.shift, !.asg = m.asg] ELSE row
  <1>1. CASE m.seq <= row.seq
    BY <1>1 DEF FromEdge, IsNews, Newer, IsReport, Rows
  <1>2. CASE m.seq > row.seq
    <2>1. assigned \in Rows
      BY DEF Rows, IsReport
    <2>2. FromEdge(row, m) = [assigned EXCEPT !.status = m.status, !.start = m.start, !.qty = m.qty, !.seq = m.seq]
      BY <1>2 DEF FromEdge, IsNews, Newer
    <2>3. /\ m.status \in Statuses /\ m.status # "none"
          /\ m.start \in Nat /\ m.qty \in Nat /\ m.seq \in Nat
      BY DEF IsReport, Working, Statuses
    <2> HIDE DEF assigned
    <2>4. PICK base \in Rows : base = assigned
      BY <2>1
    <2>5. PICK f : f = FromEdge(row, m)
      OBVIOUS
    <2>6. f = [base EXCEPT !.status = m.status, !.start = m.start, !.qty = m.qty, !.seq = m.seq]
      BY <2>2, <2>4, <2>5
    <2>7. /\ f \in Rows /\ f.status = m.status /\ f.start = m.start /\ f.qty = m.qty
          /\ f.seq = m.seq
      BY <2>3, <2>6 DEF Rows
    <2>8. ~(m.seq <= row.seq)
      BY <1>2, <2>3 DEF Rows
    <2> QED
      BY <2>3, <2>5, <2>7, <2>8
  <1> QED
    BY <1>1, <1>2 DEF Rows, IsReport

LEMMA ActorFacts ==
    /\ Admins \subseteq Actors /\ {"operator", "tick"} \subseteq Actors /\ Directions \subseteq Actors
    /\ Directions = {"down", "up"}
    /\ \A a \in Admins : a \notin {"operator", "tick", "down", "up"}
  BY DEF Admins, Actors, Directions

-----------------------------------------------------------------------------
\* Beginning a transaction changes no row.

LEMMA OpensAlone ==
    ASSUME Serial, Shape, NEW a \in Actors, MayBegin(a), NEW t, t.open, tx' = [tx EXCEPT ![a] = t]
    PROVE  /\ OneOpen' /\ DOMAIN tx' = Actors
           /\ \A b \in Actors : tx'[b].open => b = a
           /\ tx'[a] = t
  BY DEF Shape, OneOpen, MayBegin

LEMMA BeginAdminKeeps ==
    ASSUME Serial, TaskInv, NEW a \in Admins, NEW kind, NEW new \in Rows,
           new.status \in {"assigned", "cancelled"}, new.seq = cloud.seq,
           cloud.status \in {"none", "assigned"}, BeginAdmin(a, kind, new)
    PROVE  TaskInv'
  <1> USE DEF TaskInv
  <1>1. /\ changes' = changes + 1
        /\ UNCHANGED <<cloud, edge, queue, dead, nextSeq, sent>>
    BY DEF BeginAdmin
  <1>2. /\ OneOpen' /\ DOMAIN tx' = Actors /\ tx'[a].old = cloud /\ tx'[a].new = new
        /\ \A b \in Actors : tx'[b].open => b = a
    <2>1. PICK t : t = [open |-> TRUE, kind |-> kind, old |-> cloud, new |-> new]
      OBVIOUS
    <2>2. t.open /\ t.old = cloud /\ t.new = new /\ tx' = [tx EXCEPT ![a] = t] /\ MayBegin(a)
      BY <2>1 DEF BeginAdmin
    <2> QED
      BY <2>2, ActorFacts, OpensAlone
  <1>3. Shape'
    BY <1>1, <1>2 DEF Shape
  <1>4. AdminRead' /\ EdgeRead' /\ ApplyRead'
    <2>1. changes' # 0
      BY <1>1 DEF Shape
    <2> QED
      BY <1>1, <1>2, <2>1, ActorFacts DEF AdminRead, EdgeRead, ApplyRead
  <1>5. StartInv' /\ CloudFirst' /\ Reports' /\ NewestReportWins'
    BY <1>1 DEF StartInv, CloudFirst, Reports, NewestReportWins, Shape
  <1> QED
    BY <1>2, <1>3, <1>4, <1>5

LEMMA CreateKeeps ==
    ASSUME Serial, TaskInv, NEW a \in Admins, NEW shift \in Shifts, BeginCreate(a, shift)
    PROVE  TaskInv'
  <1> DEFINE new == [NoRow EXCEPT !.status = "assigned", !.shift = shift, !.asg = changes + 1]
  <1>1. cloud = NoRow /\ changes \in Nat
    BY DEF BeginCreate, TaskInv, CloudFirst, Shape
  <1>2. new \in Rows /\ new.status = "assigned" /\ new.seq = cloud.seq /\ cloud.status = "none"
    <2>1. PICK n \in Nat : n = changes + 1
      BY <1>1
    <2>2. new = [NoRow EXCEPT !.status = "assigned", !.shift = shift, !.asg = n]
      BY <2>1
    <2> HIDE DEF new
    <2> QED
      BY <1>1, <2>2 DEF NoRow, Rows, Statuses
  <1>3. BeginAdmin(a, "assigned", new)
    BY DEF BeginCreate
  <1> HIDE DEF new
  <1> QED
    BY <1>2, <1>3, BeginAdminKeeps

LEMMA ChangeKeeps ==
    ASSUME Serial, TaskInv, NEW a \in Admins,
           BeginCancel(a) \/ \E shift \in Shifts : BeginReassign(a, shift)
    PROVE  TaskInv'
  <1>1. cloud \in Rows /\ changes \in Nat
    BY DEF TaskInv, Shape
  <1>2. CASE BeginCancel(a)
    <2> DEFINE new == [cloud EXCEPT !.status = "cancelled"]
    <2>1. new \in Rows /\ new.status = "cancelled" /\ new.seq = cloud.seq /\ cloud.status = "assigned"
      BY <1>1, <1>2 DEF BeginCancel, Unstarted, Started, Rows, Statuses
    <2>2. BeginAdmin(a, "cancelled", new)
      BY <1>2 DEF BeginCancel
    <2> HIDE DEF new
    <2> QED
      BY <2>1, <2>2, BeginAdminKeeps
  <1>3. ASSUME NEW shift \in Shifts, BeginReassign(a, shift) PROVE TaskInv'
    <2> DEFINE new == [cloud EXCEPT !.shift = shift, !.asg = changes + 1]
    <2>1. new \in Rows /\ new.status = "assigned" /\ new.seq = cloud.seq /\ cloud.status = "assigned"
      <3>1. PICK n \in Nat : n = changes + 1
        BY <1>1
      <3>2. new = [cloud EXCEPT !.shift = shift, !.asg = n]
        BY <3>1
      <3>3. cloud.status = "assigned"
        BY <1>3 DEF BeginReassign, Unstarted, Started
      <3> HIDE DEF new
      <3> QED
        BY <1>1, <3>2, <3>3 DEF Rows
    <2>2. BeginAdmin(a, "reassigned", new)
      BY <1>3 DEF BeginReassign
    <2> HIDE DEF new
    <2> QED
      BY <2>1, <2>2, BeginAdminKeeps
  <1> QED
    BY <1>2, <1>3

LEMMA BeginEdgeKeeps ==
    ASSUME Serial, TaskInv, NEW a \in {"operator", "tick"}, NEW new \in Rows,
           edge.status # "none", new.status \in Working, new.shift = edge.shift, new.asg = edge.asg,
           ConsoleOnly => new.start = 1, BeginEdge(a, new)
    PROVE  TaskInv'
  <1> USE DEF TaskInv
  <1>1. UNCHANGED <<cloud, edge, queue, dead, nextSeq, changes, sent>>
    BY DEF BeginEdge
  <1>2. /\ OneOpen' /\ DOMAIN tx' = Actors /\ tx'[a].old = edge /\ tx'[a].new = new
        /\ \A b \in Actors : tx'[b].open => b = a
    <2>1. PICK t : t = [open |-> TRUE, old |-> edge, new |-> new]
      OBVIOUS
    <2>2. t.open /\ t.old = edge /\ t.new = new /\ tx' = [tx EXCEPT ![a] = t] /\ MayBegin(a)
      BY <2>1 DEF BeginEdge
    <2> QED
      BY <2>2, ActorFacts, OpensAlone
  <1>3. Shape'
    BY <1>1, <1>2 DEF Shape
  <1>4. AdminRead' /\ EdgeRead' /\ ApplyRead'
    BY <1>1, <1>2, ActorFacts DEF AdminRead, EdgeRead, ApplyRead
  <1>5. StartInv' /\ CloudFirst' /\ Reports' /\ NewestReportWins'
    BY <1>1 DEF StartInv, CloudFirst, Reports, NewestReportWins
  <1> QED
    BY <1>2, <1>3, <1>4, <1>5

LEMMA OperatorKeeps ==
    ASSUME Serial, TaskInv, NEW action \in OperatorActions, BeginOperator(action)
    PROVE  TaskInv'
  <1>1. edge \in Rows /\ StartInv
    BY DEF TaskInv, Shape
  <1>2. PICK new : new = Acted(edge, action)
    OBVIOUS
  <1>3. /\ new \in Rows /\ new.status \in Working /\ new.shift = edge.shift /\ new.asg = edge.asg
        /\ new.start = IF action = "start" THEN edge.start + 1 ELSE edge.start
    BY <1>1, <1>2, ActedFacts
  <1>4. edge.status # "none"
    BY DEF BeginOperator, Allowed, OperatorActions
  <1>5. ConsoleOnly => new.start = 1
    BY <1>1, <1>3 DEF BeginOperator, Offered, StartInv, Working, Rows
  <1>6. BeginEdge("operator", new)
    BY <1>2 DEF BeginOperator
  <1> QED
    BY <1>3, <1>4, <1>5, <1>6, BeginEdgeKeeps

LEMMA TickKeeps == ASSUME Serial, TaskInv, BeginTick PROVE TaskInv'
  <1>1. edge \in Rows /\ StartInv /\ edge.status = "in_progress"
    BY DEF TaskInv, Shape, BeginTick
  <1>2. PICK new : new = [edge EXCEPT !.qty = edge.qty + 1]
    OBVIOUS
  <1>3. /\ new \in Rows /\ new.status \in Working /\ new.shift = edge.shift /\ new.asg = edge.asg
        /\ new.start = edge.start
    BY <1>1, <1>2 DEF Rows, Working
  <1>4. ConsoleOnly => new.start = 1
    BY <1>1, <1>3 DEF StartInv, Working
  <1>5. BeginEdge("tick", new)
    BY <1>2 DEF BeginTick
  <1> QED
    BY <1>1, <1>3, <1>4, <1>5, BeginEdgeKeeps

LEMMA BeginApplyKeeps ==
    ASSUME Serial, TaskInv, NEW dir \in Directions, BeginApply(dir)
    PROVE  TaskInv'
  <1> USE DEF TaskInv
  <1>1. /\ UNCHANGED <<cloud, edge, queue, dead, nextSeq, changes, sent>>
        /\ MayBegin(dir)
    BY DEF BeginApply
  <1>2. PICK m \in queue[dir] :
           tx' = [tx EXCEPT ![dir] = [open |-> TRUE, msg |-> m, old |-> Receiver(dir),
                                      new |-> IF dir = "down" THEN FromCloud(Receiver(dir), m)
                                                              ELSE FromEdge(Receiver(dir), m)]]
    BY DEF BeginApply
  <1>3. /\ OneOpen' /\ DOMAIN tx' = Actors /\ tx'[dir].old = Receiver(dir) /\ tx'[dir].msg = m
        /\ tx'[dir].new = IF dir = "down" THEN FromCloud(Receiver(dir), m) ELSE FromEdge(Receiver(dir), m)
        /\ \A b \in Actors : tx'[b].open => b = dir
    <2>1. PICK new : new = IF dir = "down" THEN FromCloud(Receiver(dir), m) ELSE FromEdge(Receiver(dir), m)
      OBVIOUS
    <2>2. PICK t : t = [open |-> TRUE, msg |-> m, old |-> Receiver(dir), new |-> new]
      OBVIOUS
    <2>3. /\ t.open /\ t.old = Receiver(dir) /\ t.msg = m /\ t.new = new
          /\ tx' = [tx EXCEPT ![dir] = t]
      BY <1>2, <2>1, <2>2
    <2> QED
      BY <1>1, <2>1, <2>3, ActorFacts, OpensAlone
  <1>4. Shape'
    BY <1>1, <1>3 DEF Shape
  <1>5. AdminRead' /\ EdgeRead'
    BY <1>1, <1>3, ActorFacts DEF AdminRead, EdgeRead
  <1>6. ApplyRead'
    BY <1>1, <1>3, ActorFacts DEF ApplyRead, Receiver
  <1>7. StartInv' /\ CloudFirst' /\ Reports' /\ NewestReportWins'
    BY <1>1 DEF StartInv, CloudFirst, Reports, NewestReportWins
  <1> QED
    BY <1>3, <1>4, <1>5, <1>6, <1>7

-----------------------------------------------------------------------------
\* Commits.

\* When the only open transaction ends, none is open.
LEMMA EndsLast ==
    ASSUME Shape, OneOpen, NEW a \in Actors, tx[a].open, tx' = [tx EXCEPT ![a] = Idle]
    PROVE  /\ \A b \in Actors : ~tx'[b].open
           /\ OneOpen' /\ AdminRead' /\ EdgeRead' /\ ApplyRead' /\ DOMAIN tx' = Actors
  <1>1. DOMAIN tx' = Actors /\ \A b \in Actors : ~tx'[b].open
    BY DEF Shape, OneOpen, Idle
  <1> QED
    BY <1>1, ActorFacts DEF OneOpen, AdminRead, EdgeRead, ApplyRead

LEMMA CommitAdminKeeps ==
    ASSUME TaskInv, NEW a \in Admins, CommitAdmin(a) PROVE TaskInv' /\ edge' = edge
  <1> USE DEF TaskInv
  <1> DEFINE m == [seq |-> nextSeq["down"], at |-> clock, kind |-> tx[a].kind,
                   shift |-> tx[a].new.shift, asg |-> tx[a].new.asg]
  <1>1. /\ tx[a].open /\ cloud' = Merge(cloud, tx[a].old, tx[a].new)
        /\ tx' = [tx EXCEPT ![a] = Idle]
        /\ queue' = [queue EXCEPT !["down"] = queue["down"] \cup {m}]
        /\ nextSeq' = [nextSeq EXCEPT !["down"] = nextSeq["down"] + 1]
        /\ UNCHANGED <<edge, dead, changes, sent>>
    BY DEF CommitAdmin, Enqueue
  <1>2. PICK new \in Rows : new = tx[a].new
    BY <1>1 DEF AdminRead
  <1>3. /\ cloud' = new /\ new.status \in {"assigned", "cancelled"} /\ new.seq = cloud.seq
        /\ cloud.status \in {"none", "assigned"}
    BY <1>1, <1>2, MergeRead DEF AdminRead, Shape
  <1>4. IsCloudMessage(m)
    BY <1>2 DEF Shape, IsCloudMessage, Rows, Directions
  <1> HIDE DEF m
  <1>5. /\ OneOpen' /\ AdminRead' /\ EdgeRead' /\ ApplyRead' /\ DOMAIN tx' = Actors
    BY <1>1, ActorFacts, EndsLast
  <1>6. /\ queue'["down"] = queue["down"] \cup {m} /\ queue'["up"] = queue["up"]
        /\ nextSeq'["up"] = nextSeq["up"]
        /\ DOMAIN queue' = Directions /\ nextSeq' \in [Directions -> Nat \ {0}]
    BY <1>1 DEF Shape, Directions
  <1>7. Shape' /\ StartInv'
    BY <1>1, <1>2, <1>3, <1>5, <1>6 DEF Shape, StartInv
  <1>8. CloudFirst'
    <2>1. changes' # 0
      BY <1>1 DEF AdminRead
    <2> QED
      BY <1>1, <1>3, <1>4, <1>6, <2>1 DEF CloudFirst
  <1>9. Reports'
    BY <1>1, <1>3, <1>6 DEF Reports
  <1>10. NewestReportWins'
    BY <1>1, <1>3, <1>6 DEF NewestReportWins, Reports, IsReport, Working
  <1> QED
    BY <1>1, <1>5, <1>7, <1>8, <1>9, <1>10

LEMMA CommitEdgeKeeps ==
    ASSUME TaskInv, NEW a \in {"operator", "tick"}, CommitEdge(a)
    PROVE  /\ TaskInv'
           /\ edge'.shift = edge.shift /\ edge'.asg = edge.asg /\ edge'.status # "cancelled"
  <1> USE DEF TaskInv
  <1>1. /\ tx[a].open /\ edge' = Merge(edge, tx[a].old, tx[a].new)
        /\ tx' = [tx EXCEPT ![a] = Idle]
        /\ queue' = [queue EXCEPT !["up"] = queue["up"] \cup {Report(tx[a].new)}]
        /\ nextSeq' = [nextSeq EXCEPT !["up"] = nextSeq["up"] + 1]
        /\ sent' = sent \cup {Report(tx[a].new)}
        /\ UNCHANGED <<cloud, dead, changes>>
    BY DEF CommitEdge, Enqueue
  <1>2. PICK new \in Rows : new = tx[a].new
    BY <1>1 DEF EdgeRead
  <1>3. PICK m : m = Report(new)
    OBVIOUS
  <1>4. /\ edge' = new /\ new.status \in Working /\ new.shift = edge.shift /\ new.asg = edge.asg
        /\ edge.status # "none" /\ (ConsoleOnly => new.start = 1)
    BY <1>1, <1>2, MergeRead DEF EdgeRead, Shape
  <1>5. IsReport(m) /\ m.seq = nextSeq["up"]
    BY <1>2, <1>3, <1>4 DEF Report, IsReport, Shape, Rows, Directions
  <1>6. /\ OneOpen' /\ AdminRead' /\ EdgeRead' /\ ApplyRead' /\ DOMAIN tx' = Actors
    BY <1>1, ActorFacts, EndsLast
  <1>7. /\ queue'["up"] = queue["up"] \cup {m} /\ queue'["down"] = queue["down"]
        /\ nextSeq'["up"] = nextSeq["up"] + 1 /\ nextSeq["up"] \in Nat /\ sent' = sent \cup {m}
        /\ DOMAIN queue' = Directions /\ nextSeq' \in [Directions -> Nat \ {0}]
    BY <1>1, <1>2, <1>3 DEF Shape, Directions
  <1>8. Shape' /\ StartInv'
    BY <1>1, <1>2, <1>4, <1>6, <1>7 DEF Shape, StartInv
  <1>9. CloudFirst'
    BY <1>1, <1>4, <1>7 DEF CloudFirst
  <1>10. \A n \in sent : n.seq \in Nat /\ n.seq < nextSeq["up"]
    BY DEF Reports, IsReport
  <1>11. cloud.seq \in Nat /\ cloud.seq < nextSeq["up"]
    BY DEF Reports, Shape, Rows
  <1>12. Reports'
    <2>1. \A n \in sent' : IsReport(n) /\ n.seq < nextSeq'["up"]
      BY <1>5, <1>7, <1>10 DEF Reports
    <2>2. \A n, k \in sent' : n.seq = k.seq => n = k
      BY <1>5, <1>7, <1>10 DEF Reports
    <2>3. m \notin sent
      BY <1>5, <1>7, <1>10
    <2>4. queue'["up"] \cup dead'["up"] \subseteq sent' /\ queue'["up"] \cap dead'["up"] = {}
      BY <1>1, <1>7, <2>3 DEF Reports
    <2>5. cloud'.seq < nextSeq'["up"] /\ \A n \in queue'["up"] \cup dead'["up"] : n.seq # cloud'.seq
      BY <1>1, <1>5, <1>7, <1>11 DEF Reports
    <2> QED
      BY <2>1, <2>2, <2>4, <2>5 DEF Reports
  <1>13. NewestReportWins'
    BY <1>1, <1>7 DEF NewestReportWins
  <1> QED
    BY <1>4, <1>6, <1>8, <1>9, <1>12, <1>13 DEF Working

LEMMA ApplyDownKeeps ==
    ASSUME TaskInv, CommitApply("down")
    PROVE  /\ TaskInv'
           /\ edge.start # 0 => edge' = edge /\ edge.status # "cancelled"
  <1> USE DEF TaskInv
  <1>1. /\ tx["down"].open /\ edge' = Merge(edge, tx["down"].old, tx["down"].new)
        /\ tx' = [tx EXCEPT !["down"] = Idle]
        /\ queue' = [queue EXCEPT !["down"] = queue["down"] \ {tx["down"].msg}]
        /\ UNCHANGED <<cloud, dead, nextSeq, changes, sent>>
    BY DEF CommitApply
  <1>2. PICK m \in queue["down"] : m = tx["down"].msg
    BY <1>1 DEF ApplyRead
  <1>3. PICK new : new = FromCloud(edge, m)
    OBVIOUS
  <1>4. /\ edge \in Rows
        /\ IsCloudMessage(m)
        /\ cloud.status # "none"
        /\ edge.status \notin Working => edge.start = 0
    BY <1>2 DEF Shape, CloudFirst, StartInv
  <1>5. /\ new \in Rows
        /\ edge.status \in Working => new = edge
        /\ edge.status \notin Working => new.status \notin Working /\ new.start = 0
    BY <1>3, <1>4, FromCloudFacts
  <1>6. edge' = new
    BY <1>1, <1>2, <1>3, <1>4, <1>5, MergeRead DEF ApplyRead
  <1>7. /\ OneOpen' /\ AdminRead' /\ EdgeRead' /\ ApplyRead' /\ DOMAIN tx' = Actors
    BY <1>1, ActorFacts, EndsLast
  <1>8. /\ queue'["down"] = queue["down"] \ {m} /\ queue'["up"] = queue["up"]
        /\ DOMAIN queue' = Directions
    BY <1>1, <1>2 DEF Shape, Directions
  <1>9. Shape' /\ StartInv'
    BY <1>1, <1>4, <1>5, <1>6, <1>7, <1>8 DEF Shape, StartInv
  <1>10. CloudFirst' /\ Reports' /\ NewestReportWins'
    BY <1>1, <1>4, <1>8 DEF CloudFirst, Reports, NewestReportWins
  <1> QED
    BY <1>4, <1>5, <1>6, <1>7, <1>9, <1>10 DEF Working

LEMMA ApplyUpKeeps ==
    ASSUME TaskInv, CommitApply("up") PROVE TaskInv' /\ edge' = edge
  <1> USE DEF TaskInv
  <1>1. /\ tx["up"].open /\ cloud' = Merge(cloud, tx["up"].old, tx["up"].new)
        /\ tx' = [tx EXCEPT !["up"] = Idle]
        /\ queue' = [queue EXCEPT !["up"] = queue["up"] \ {tx["up"].msg}]
        /\ UNCHANGED <<edge, dead, nextSeq, changes, sent>>
    BY DEF CommitApply
  <1>2. PICK m \in queue["up"] : m = tx["up"].msg
    BY <1>1 DEF ApplyRead
  <1>3. PICK new : new = FromEdge(cloud, m)
    OBVIOUS
  <1>4. /\ cloud \in Rows /\ m \in sent /\ IsReport(m) /\ cloud.status # "none"
        /\ m.seq # cloud.seq /\ m.seq < nextSeq["up"] /\ cloud.seq < nextSeq["up"]
        /\ cloud.seq \in Nat /\ m.seq \in Nat
    BY <1>2 DEF Shape, CloudFirst, Reports, IsReport, Rows
  <1>5. /\ new \in Rows /\ new.status # "none"
        /\ m.seq <= cloud.seq => new = cloud
        /\ m.seq > cloud.seq =>
              /\ new.seq = m.seq /\ new.status = m.status
              /\ new.start = m.start /\ new.qty = m.qty
    BY <1>3, <1>4, FromEdgeFacts
  <1>6. cloud' = new
    BY <1>1, <1>2, <1>3, <1>4, <1>5, MergeRead DEF ApplyRead
  <1>7. /\ OneOpen' /\ AdminRead' /\ EdgeRead' /\ ApplyRead' /\ DOMAIN tx' = Actors
    BY <1>1, ActorFacts, EndsLast
  <1>8. /\ queue'["up"] = queue["up"] \ {m} /\ queue'["down"] = queue["down"]
        /\ DOMAIN queue' = Directions
    BY <1>1, <1>2 DEF Shape, Directions
  <1>9. Shape' /\ StartInv'
    BY <1>1, <1>5, <1>6, <1>7, <1>8 DEF Shape, StartInv
  <1>10. CloudFirst'
    BY <1>1, <1>2, <1>4, <1>5, <1>6, <1>8 DEF CloudFirst
  <1>11. \A n \in sent : n.seq = m.seq => n = m
    BY <1>4 DEF Reports
  <1>12. m \notin dead["up"]
    BY <1>2 DEF Reports
  <1>13. Reports'
    BY <1>1, <1>4, <1>5, <1>6, <1>8, <1>11, <1>12 DEF Reports
  <1>14. NewestReportWins'
    <2>1. SUFFICES ASSUME NEW n \in sent, n \notin queue'["up"] \cup dead["up"]
                   PROVE  /\ n.seq <= new.seq
                          /\ n.seq = new.seq => /\ new.status = n.status /\ new.start = n.start
                                                /\ new.qty = n.qty
      BY <1>1, <1>6 DEF NewestReportWins
    <2>2. n.seq \in Nat
      BY DEF Reports, IsReport
    <2>3. CASE n = m
      BY <1>4, <1>5, <2>2, <2>3
    <2>4. CASE n # m
      <3>1. /\ n.seq <= cloud.seq
            /\ n.seq = cloud.seq => /\ cloud.status = n.status /\ cloud.start = n.start
                                    /\ cloud.qty = n.qty
        BY <1>8, <2>1, <2>4 DEF NewestReportWins
      <3> QED
        BY <1>4, <1>5, <2>2, <3>1
    <2> QED
      BY <2>3, <2>4
  <1> QED
    BY <1>1, <1>7, <1>9, <1>10, <1>13, <1>14

-----------------------------------------------------------------------------
\* Dead letters, and the invariant.

LEMMA DeadLetterKeeps ==
    ASSUME TaskInv, NEW dir \in Directions, DeadLetter(dir) PROVE TaskInv' /\ edge' = edge
  <1> USE DEF TaskInv
  <1>1. PICK m \in queue[dir] : /\ queue' = [queue EXCEPT ![dir] = queue[dir] \ {m}]
                                /\ dead' = [dead EXCEPT ![dir] = dead[dir] \cup {m}]
    BY DEF DeadLetter
  <1>2. ~tx[dir].open /\ UNCHANGED <<cloud, edge, tx, nextSeq, changes, sent>>
    BY DEF DeadLetter
  <1>3. /\ DOMAIN queue' = Directions /\ DOMAIN dead' = Directions
        /\ queue'[dir] = queue[dir] \ {m} /\ dead'[dir] = dead[dir] \cup {m}
        /\ \A other \in Directions : other # dir => queue'[other] = queue[other] /\ dead'[other] = dead[other]
    BY <1>1 DEF Shape
  <1>4. Shape' /\ OneOpen' /\ AdminRead' /\ EdgeRead' /\ StartInv'
    BY <1>2, <1>3 DEF Shape, OneOpen, AdminRead, EdgeRead, StartInv
  <1>5. ApplyRead'
    BY <1>2, <1>3 DEF ApplyRead, Directions
  <1>6. CloudFirst'
    BY <1>1, <1>2, <1>3 DEF CloudFirst, Reports, Directions
  <1>7. Reports' /\ NewestReportWins'
    BY <1>1, <1>2, <1>3 DEF Reports, NewestReportWins, Directions
  <1> QED
    BY <1>2, <1>4, <1>5, <1>6, <1>7

LEMMA RetryKeeps ==
    ASSUME TaskInv, NEW dir \in Directions, NEW m \in dead[dir], Retry(dir, m)
    PROVE  TaskInv' /\ edge' = edge
  <1> USE DEF TaskInv
  <1>1. /\ queue' = [queue EXCEPT ![dir] = queue[dir] \cup {m}]
        /\ dead' = [dead EXCEPT ![dir] = dead[dir] \ {m}]
        /\ UNCHANGED <<cloud, edge, tx, nextSeq, changes, sent>>
    BY DEF Retry
  <1>2. /\ DOMAIN queue' = Directions /\ DOMAIN dead' = Directions
        /\ queue'[dir] = queue[dir] \cup {m} /\ dead'[dir] = dead[dir] \ {m}
        /\ \A other \in Directions : other # dir => queue'[other] = queue[other] /\ dead'[other] = dead[other]
    BY <1>1 DEF Shape
  <1>3. Shape' /\ OneOpen' /\ AdminRead' /\ EdgeRead' /\ StartInv'
    BY <1>1, <1>2 DEF Shape, OneOpen, AdminRead, EdgeRead, StartInv
  <1>4. ApplyRead'
    BY <1>1, <1>2 DEF ApplyRead, Directions
  <1>5. CloudFirst'
    BY <1>1, <1>2 DEF CloudFirst, Reports, Directions
  <1>6. Reports' /\ NewestReportWins'
    BY <1>1, <1>2 DEF Reports, NewestReportWins, Directions
  <1> QED
    BY <1>1, <1>3, <1>4, <1>5, <1>6

LEMMA RestKeeps ==
    ASSUME TaskInv, UNCHANGED <<cloud, edge, tx, queue, dead, nextSeq, changes, sent>>
    PROVE  TaskInv'
  <1> USE DEF TaskInv
  <1>1. Shape' /\ OneOpen' /\ AdminRead' /\ EdgeRead' /\ ApplyRead'
    BY DEF Shape, OneOpen, AdminRead, EdgeRead, ApplyRead
  <1>2. StartInv' /\ CloudFirst' /\ Reports' /\ NewestReportWins'
    BY DEF StartInv, CloudFirst, Reports, NewestReportWins
  <1> QED
    BY <1>1, <1>2

LEMMA TaskInit == Init => TaskInv
  <1> SUFFICES ASSUME Init PROVE TaskInv
    OBVIOUS
  <1> USE DEF Init, TaskInv
  <1>1. \A a \in Actors : ~tx[a].open
    BY DEF Idle
  <1>2. Shape
    BY NoRowFacts DEF Shape
  <1>3. OneOpen /\ AdminRead /\ EdgeRead /\ ApplyRead
    BY <1>1, ActorFacts DEF OneOpen, AdminRead, EdgeRead, ApplyRead
  <1>4. StartInv /\ CloudFirst
    BY DEF StartInv, CloudFirst, NoRow, Working, Directions
  <1>5. Reports /\ NewestReportWins
    BY DEF Reports, NewestReportWins, NoRow, Directions
  <1> QED
    BY <1>2, <1>3, <1>4, <1>5

\* The rows move as they should: what a started task's row may not do.
Owned == edge.start # 0 => /\ edge'.shift = edge.shift /\ edge'.asg = edge.asg
                           /\ edge'.status # "cancelled"

LEMMA OwnedWhenKept == TaskInv /\ edge' = edge => Owned
  BY DEF TaskInv, StartInv, Owned, Working

LEMMA TaskStep == Serial /\ TaskInv /\ [Next]_vars => TaskInv' /\ Owned
  <1> SUFFICES ASSUME Serial, TaskInv, [Next]_vars PROVE TaskInv' /\ Owned
    OBVIOUS
  <1>1. ASSUME NEW t \in 0 .. MaxTime, SetClock(t) PROVE TaskInv' /\ Owned
    BY <1>1, RestKeeps, OwnedWhenKept DEF SetClock
  <1>2. ASSUME NEW a \in Admins, NEW s \in Shifts, BeginCreate(a, s) PROVE TaskInv' /\ Owned
    BY <1>2, CreateKeeps, OwnedWhenKept DEF BeginCreate, BeginAdmin
  <1>3. ASSUME NEW a \in Admins, NEW s \in Shifts, BeginReassign(a, s) PROVE TaskInv' /\ Owned
    BY <1>3, ChangeKeeps, OwnedWhenKept DEF BeginReassign, BeginAdmin
  <1>4. ASSUME NEW a \in Admins, BeginCancel(a) PROVE TaskInv' /\ Owned
    BY <1>4, ChangeKeeps, OwnedWhenKept DEF BeginCancel, BeginAdmin
  <1>5. ASSUME NEW action \in OperatorActions, BeginOperator(action) PROVE TaskInv' /\ Owned
    BY <1>5, OperatorKeeps, OwnedWhenKept DEF BeginOperator, BeginEdge
  <1>6. CASE BeginTick
    BY <1>6, TickKeeps, OwnedWhenKept DEF BeginTick, BeginEdge
  <1>7. ASSUME NEW a \in Actors, Commit(a) PROVE TaskInv' /\ Owned
    <2>1. CASE a \in Admins /\ CommitAdmin(a)
      BY <2>1, CommitAdminKeeps, OwnedWhenKept
    <2>2. CASE a \in {"operator", "tick"} /\ CommitEdge(a)
      BY <2>2, CommitEdgeKeeps DEF Owned
    <2>3. CASE a = "down" /\ CommitApply(a)
      BY <2>3, ApplyDownKeeps DEF Owned
    <2>4. CASE a = "up" /\ CommitApply(a)
      BY <2>4, ApplyUpKeeps, OwnedWhenKept
    <2> QED
      BY <1>7, <2>1, <2>2, <2>3, <2>4 DEF Commit, Directions
  <1>8. ASSUME NEW dir \in Directions, BeginApply(dir) PROVE TaskInv' /\ Owned
    BY <1>8, BeginApplyKeeps, OwnedWhenKept DEF BeginApply
  <1>9. ASSUME NEW dir \in Directions, DeadLetter(dir) PROVE TaskInv' /\ Owned
    BY <1>9, DeadLetterKeeps, OwnedWhenKept
  <1>10. ASSUME NEW dir \in Directions, NEW m \in dead[dir], Retry(dir, m) PROVE TaskInv' /\ Owned
    BY <1>10, RetryKeeps, OwnedWhenKept
  <1>11. CASE UNCHANGED vars
    BY <1>11, RestKeeps, OwnedWhenKept DEF vars
  <1> QED
    BY <1>1, <1>2, <1>3, <1>4, <1>5, <1>6, <1>7, <1>8, <1>9, <1>10, <1>11 DEF Next

\* Between the two tiers: what an open transaction read is still there, the cloud
\* knows of every task before the edge does, and reports are told apart by their
\* sequences.
THEOREM TaskCorrect == Serial => (Spec => []TaskInv)
  <1>1. CASE Serial
    <2>1. TaskInv /\ [Next]_vars => TaskInv'
      BY <1>1, TaskStep
    <2> QED
      BY <2>1, TaskInit, PTL DEF Spec
  <1>2. CASE ~Serial
    BY <1>2
  <1> QED
    BY <1>1, <1>2

\* No cloud message moves, changes or cancels a task the operator has started
\* (cloud_to_edge.py), as long as the handler's test and its write are not split.
THEOREM StartedIsTheEdges == Serial => (Spec => EdgeOwnsStarted)
  <1>1. CASE Serial
    <2>1. TaskInv /\ [Next]_vars => TaskInv' /\ [Owned]_vars
      BY <1>1, TaskStep
    <2>2. [Owned]_vars => [edge.start # 0 => /\ edge'.shift = edge.shift /\ edge'.asg = edge.asg
                                             /\ edge'.status # "cancelled"]_vars
      BY DEF Owned
    <2> QED
      BY <2>1, <2>2, TaskInit, PTL DEF Spec, EdgeOwnsStarted
  <1>2. CASE ~Serial
    BY <1>2
  <1> QED
    BY <1>1, <1>2

\* The cloud holds the newest report applied to it, in whatever order dead letters
\* brought them (edge_to_cloud.py's edge_sync_seq), and a task the console works on
\* was started once.
THEOREM ReportsAreRight == Serial /\ ConsoleOnly => (Spec => []ReportsRight)
  <1>1. ConsoleOnly /\ TaskInv => ReportsRight
    BY DEF TaskInv, StartInv, ReportsRight, StartedOnce, Working, Shape, Rows
  <1>2. CASE Serial /\ ConsoleOnly
    <2>1. TaskInv => ReportsRight
      BY <1>1, <1>2
    <2>2. Spec => []TaskInv
      BY <1>2, TaskCorrect
    <2> QED
      BY <2>1, <2>2, PTL
  <1>3. CASE ~(Serial /\ ConsoleOnly)
    BY <1>3
  <1> QED
    BY <1>2, <1>3

-----------------------------------------------------------------------------
(***************************************************************************)
(* Both tiers agree in the end.  The changes of the cloud are numbered;    *)
(* the edge has applied the one its row is numbered with, and refuses the  *)
(* rest once the task has started.  A rank of the shifts that only grows   *)
(* tells a moved task from one that stayed.                                *)
(***************************************************************************)

\* A task never returns to a shift it has left.
OnwardBy(rank) ==
    rank \in [Shifts -> Nat] /\ \A move \in Moves : rank[move[1]] < rank[move[2]]

NeverBack == \E rank \in [Shifts -> Nat] : OnwardBy(rank)

LastChange == nextSeq["down"] - 1
DownMessages == queue["down"] \cup dead["down"]

\* The messages of the cloud are numbered in the order of time, the assignment
\* first and never set aside, a cancellation last; the last of them says what
\* the cloud's row says until a report arrives.
ChangesInv ==
    /\ clock \in Nat
    /\ cloud.status = "none" <=> nextSeq["down"] = 1
    /\ cloud.status # "none" => cloud.shift \in Shifts
    /\ \A m \in DownMessages :
            /\ m.seq \in 1 .. LastChange /\ m.at \in Nat /\ m.at <= clock /\ m.shift \in Shifts
            /\ m.kind = "assigned" <=> m.seq = 1
            /\ m.kind = "cancelled" => m.seq = LastChange
    /\ \A m, n \in DownMessages : m.seq < n.seq => m.at <= n.at
    /\ \A m \in DownMessages : m.seq = LastChange /\ cloud.start = 0 =>
            /\ m.shift = cloud.shift /\ m.asg = cloud.asg
            /\ m.kind = "cancelled" <=> cloud.status = "cancelled"

\* The edge's row is as its number says, and the last change is still on its
\* way unless the edge has it or has refused it.
EdgeInv ==
    /\ edge.seq <= LastChange
    /\ edge.status = "none" <=> edge.seq = 0
    /\ edge.status # "none" => edge.shift \in Shifts
    /\ edge.status = "none" /\ LastChange > 0 => \E m \in queue["down"] : m.seq = 1
    /\ edge.status = "cancelled" =>
            edge.seq = LastChange /\ cloud.status = "cancelled" /\ cloud.start = 0
    /\ edge.seq < LastChange /\ ~refused => \E m \in DownMessages : m.seq = LastChange
    /\ refused => edge.start # 0 /\ edge.seq < LastChange
    /\ edge.seq = LastChange /\ cloud.start = 0 =>
            /\ edge.status = "cancelled" <=> cloud.status = "cancelled"
            /\ edge.status # "cancelled" => edge.shift = cloud.shift /\ edge.asg = cloud.asg
    /\ edge.start = 0 => edge.qty = 0

\* What is behind the cloud's last change is on an earlier shift.
RankInv(rank) ==
    cloud.start = 0 /\ cloud.status = "assigned" =>
        /\ \A m \in DownMessages : m.seq < LastChange => rank[m.shift] < rank[cloud.shift]
        /\ edge.status # "none" /\ edge.seq < LastChange =>
                rank[edge.shift] < rank[cloud.shift]

\* The last report is the edge's row, every report has its assignment, and the
\* first the cloud applied settled whose assignment it is.
SettledInv ==
    /\ edge.start = 0 => sent = {}
    /\ edge.start # 0 => \E m \in sent :
            /\ m.seq = nextSeq["up"] - 1
            /\ m.status = edge.status /\ m.start = edge.start /\ m.qty = edge.qty
    /\ \A m \in sent : m.shift = edge.shift /\ m.asg = edge.asg /\ m.start # 0 /\ m.seq > 0
    /\ cloud.start # 0 =>
            /\ cloud.shift = edge.shift /\ cloud.asg = edge.asg
            /\ cloud.status \in Working /\ edge.start # 0
    /\ cloud.start = 0 <=> cloud.seq = 0
    /\ cloud.start = 0 => cloud.status \in {"none", "assigned", "cancelled"} /\ cloud.qty = 0
    /\ conflicts = IF cloud.start = 0 \/ edge.seq = LastChange THEN 0 ELSE 1

\* What an open transaction is about to write.
AdminWrites(rank) ==
    \A a \in Admins : tx[a].open =>
        /\ tx[a].new.start = 0 /\ tx[a].new.qty = 0 /\ tx[a].new.shift \in Shifts
        /\ \/ /\ tx[a].kind = "assigned" /\ cloud.status = "none"
              /\ tx[a].new.status = "assigned"
           \/ /\ tx[a].kind = "reassigned" /\ cloud.status = "assigned"
              /\ tx[a].new.status = "assigned" /\ rank[cloud.shift] < rank[tx[a].new.shift]
           \/ /\ tx[a].kind = "cancelled" /\ cloud.status = "assigned"
              /\ tx[a].new.status = "cancelled"
              /\ tx[a].new.shift = cloud.shift

EdgeWrites ==
    /\ \A a \in {"operator", "tick"} : tx[a].open =>
            tx[a].new.seq = edge.seq /\ edge.status # "cancelled"
    /\ tx["down"].open /\ edge.status = "none" => tx["down"].msg.seq = 1

AgreeInv(rank) ==
    /\ ChangesInv /\ EdgeInv /\ RankInv(rank) /\ SettledInv
    /\ AdminWrites(rank) /\ EdgeWrites

\* The runs' setting: nobody else between a read and its write, an operator who
\* uses the console, a clock that moves on, an assignment that arrives, and
\* moves that never lead back.
Orderly(rank) ==
    Serial /\ ConsoleOnly /\ ~ClockMayRegress /\ "assigned" \notin MayFail /\ OnwardBy(rank)

LEMMA AgreeInit == \A rank \in [Shifts -> Nat] : Init => AgreeInv(rank)
  <1> SUFFICES ASSUME NEW rank \in [Shifts -> Nat], Init PROVE AgreeInv(rank)
    OBVIOUS
  <1>1. \A a \in Actors : ~tx[a].open
    BY DEF Init, Idle
  <1>2. /\ clock = 0 /\ cloud = NoRow /\ edge = NoRow /\ sent = {} /\ refused = FALSE
        /\ conflicts = 0 /\ nextSeq["down"] = 1 /\ DownMessages = {} /\ LastChange = 0
    BY DEF Init, DownMessages, LastChange, Directions
  <1>3. NoRow.status = "none" /\ NoRow.start = 0 /\ NoRow.seq = 0 /\ NoRow.qty = 0
    BY DEF NoRow
  <1>4. ChangesInv /\ EdgeInv /\ RankInv(rank) /\ SettledInv
    BY <1>2, <1>3 DEF ChangesInv, EdgeInv, RankInv, SettledInv
  <1> QED
    BY <1>1, <1>4, ActorFacts DEF AgreeInv, AdminWrites, EdgeWrites

\* Steps that only open a transaction, or move messages between the queue and
\* the dead letters, or do nothing.
LEMMA AgreeFrame ==
    ASSUME NEW rank \in [Shifts -> Nat], AgreeInv(rank),
           UNCHANGED <<clock, cloud, edge, queue, dead, nextSeq, conflicts, sent, refused>>,
           AdminWrites(rank)', EdgeWrites'
    PROVE  AgreeInv(rank)'
  <1>1. DownMessages' = DownMessages /\ LastChange' = LastChange
    BY DEF DownMessages, LastChange
  <1>2. ChangesInv'
    BY <1>1 DEF AgreeInv, ChangesInv
  <1>3. EdgeInv'
    BY <1>1 DEF AgreeInv, EdgeInv
  <1>4. RankInv(rank)'
    BY <1>1 DEF AgreeInv, RankInv
  <1>5. SettledInv'
    BY <1>1 DEF AgreeInv, SettledInv
  <1> QED
    BY <1>2, <1>3, <1>4, <1>5 DEF AgreeInv

LEMMA ClockAgrees ==
    ASSUME NEW rank \in [Shifts -> Nat], AgreeInv(rank), ~ClockMayRegress,
           NEW t \in 0 .. MaxTime, SetClock(t)
    PROVE  AgreeInv(rank)'
  <1>1. /\ clock' \in Nat /\ clock \in Nat /\ clock <= clock'
        /\ UNCHANGED <<cloud, edge, tx, queue, dead, nextSeq, conflicts, sent, refused>>
    BY TaskAssumption DEF SetClock, AgreeInv, ChangesInv
  <1>2. DownMessages' = DownMessages /\ LastChange' = LastChange
    BY <1>1 DEF DownMessages, LastChange
  <1>3. \A m \in DownMessages : m.at \in Nat /\ m.at <= clock'
    BY <1>1 DEF AgreeInv, ChangesInv
  <1>4. ChangesInv'
    BY <1>1, <1>2, <1>3 DEF AgreeInv, ChangesInv
  <1>5. EdgeInv' /\ RankInv(rank)' /\ SettledInv'
    BY <1>1, <1>2 DEF AgreeInv, EdgeInv, RankInv, SettledInv
  <1>6. AdminWrites(rank)' /\ EdgeWrites'
    BY <1>1 DEF AgreeInv, AdminWrites, EdgeWrites
  <1> QED
    BY <1>4, <1>5, <1>6 DEF AgreeInv

\* An admin's transaction opens.
LEMMA AdminOpens ==
    ASSUME NEW rank \in [Shifts -> Nat], Orderly(rank), TaskInv, AgreeInv(rank),
           NEW a \in Admins,
           BeginCancel(a) \/ \E shift \in Shifts : BeginCreate(a, shift) \/ BeginReassign(a, shift)
    PROVE  AgreeInv(rank)'
  <1>1. PICK kind, new :
            /\ BeginAdmin(a, kind, new)
            /\ new.start = 0 /\ new.qty = 0 /\ new.shift \in Shifts
            /\ \/ kind = "assigned" /\ cloud.status = "none" /\ new.status = "assigned"
               \/ /\ kind = "reassigned" /\ cloud.status = "assigned"
                  /\ new.status = "assigned" /\ rank[cloud.shift] < rank[new.shift]
               \/ /\ kind = "cancelled" /\ cloud.status = "assigned"
                  /\ new.status = "cancelled" /\ new.shift = cloud.shift
    <2>1. ASSUME NEW shift \in Shifts, BeginCreate(a, shift)
          PROVE  \E kind, new :
                    /\ BeginAdmin(a, kind, new) /\ kind = "assigned" /\ cloud.status = "none"
                    /\ new.status = "assigned" /\ new.start = 0 /\ new.qty = 0 /\ new.shift = shift
      <3>1. cloud.status = "none"
        BY <2>1 DEF BeginCreate, TaskInv, CloudFirst
      <3>2. PICK new : new = [NoRow EXCEPT !.status = "assigned", !.shift = shift, !.asg = changes + 1]
        OBVIOUS
      <3>3. new.status = "assigned" /\ new.start = 0 /\ new.qty = 0 /\ new.shift = shift
        BY <3>2 DEF NoRow
      <3> QED
        BY <2>1, <3>1, <3>2, <3>3 DEF BeginCreate
    <2>2. Unstarted(cloud) => /\ cloud.status = "assigned" /\ cloud.start = 0 /\ cloud.qty = 0
                              /\ cloud.shift \in Shifts /\ cloud \in Rows
      BY DEF Unstarted, Started, TaskInv, Shape, AgreeInv, SettledInv, ChangesInv
    <2>3. ASSUME NEW shift \in Shifts, BeginReassign(a, shift)
          PROVE  \E kind, new :
                    /\ BeginAdmin(a, kind, new) /\ kind = "reassigned" /\ cloud.status = "assigned"
                    /\ new.status = "assigned" /\ new.start = 0 /\ new.qty = 0
                    /\ new.shift = shift /\ rank[cloud.shift] < rank[new.shift]
      <3>1. PICK new : new = [cloud EXCEPT !.shift = shift, !.asg = changes + 1]
        OBVIOUS
      <3>2. Unstarted(cloud)
        BY <2>3 DEF BeginReassign
      <3>3. /\ new.status = "assigned" /\ new.start = 0 /\ new.qty = 0 /\ new.shift = shift
        BY <2>2, <3>1, <3>2 DEF Rows
      <3>4. rank[cloud.shift] < rank[shift]
        <4>1. <<cloud.shift, shift>> \in Moves
          BY <2>3 DEF BeginReassign
        <4> QED
          BY <4>1 DEF Orderly, OnwardBy
      <3> QED
        BY <2>2, <2>3, <3>1, <3>2, <3>3, <3>4 DEF BeginReassign
    <2>4. ASSUME BeginCancel(a)
          PROVE  \E kind, new :
                    /\ BeginAdmin(a, kind, new) /\ kind = "cancelled" /\ cloud.status = "assigned"
                    /\ new.status = "cancelled" /\ new.start = 0 /\ new.qty = 0
                    /\ new.shift = cloud.shift /\ cloud.shift \in Shifts
      <3>1. PICK new : new = [cloud EXCEPT !.status = "cancelled"]
        OBVIOUS
      <3>2. Unstarted(cloud)
        BY <2>4 DEF BeginCancel
      <3>3. new.status = "cancelled" /\ new.start = 0 /\ new.qty = 0 /\ new.shift = cloud.shift
        BY <2>2, <3>1, <3>2 DEF Rows
      <3> QED
        BY <2>2, <2>4, <3>1, <3>2, <3>3 DEF BeginCancel
    <2>5. CASE \E shift \in Shifts : BeginCreate(a, shift)
      BY <2>1, <2>5
    <2>6. CASE \E shift \in Shifts : BeginReassign(a, shift)
      BY <2>3, <2>6
    <2>7. CASE BeginCancel(a)
      BY <2>4, <2>7
    <2> QED
      BY <2>5, <2>6, <2>7
  <1>2. UNCHANGED <<clock, cloud, edge, queue, dead, nextSeq, conflicts, sent, refused>>
    BY <1>1 DEF BeginAdmin
  <1>3. PICK t : t = [open |-> TRUE, kind |-> kind, old |-> cloud, new |-> new]
    OBVIOUS
  <1>4. /\ t.open /\ t.kind = kind /\ t.new = new /\ tx' = [tx EXCEPT ![a] = t] /\ MayBegin(a)
    BY <1>1, <1>3 DEF BeginAdmin
  <1>5. tx'[a] = t /\ \A b \in Actors : tx'[b].open => b = a
    BY <1>4, ActorFacts, OpensAlone DEF Orderly, TaskInv
  <1>6. AdminWrites(rank)'
    BY <1>1, <1>2, <1>4, <1>5, ActorFacts DEF AdminWrites
  <1>7. EdgeWrites'
    BY <1>5, ActorFacts DEF EdgeWrites
  <1> QED
    BY <1>2, <1>6, <1>7, AgreeFrame

\* An edge transaction opens, or a message is taken to be applied.
LEMMA EdgeOpens ==
    ASSUME NEW rank \in [Shifts -> Nat], Orderly(rank), TaskInv, AgreeInv(rank),
           BeginTick \/ \E action \in OperatorActions : BeginOperator(action)
    PROVE  AgreeInv(rank)'
  <1>1. PICK a \in {"operator", "tick"} :
            \E new : BeginEdge(a, new) /\ new.seq = edge.seq /\ edge.status # "cancelled"
    <2>1. edge \in Rows
      BY DEF TaskInv, Shape
    <2>2. CASE BeginTick
      <3>1. PICK new : new = [edge EXCEPT !.qty = edge.qty + 1]
        OBVIOUS
      <3>2. new.seq = edge.seq
        BY <2>1, <3>1 DEF Rows
      <3> QED
        BY <2>2, <3>1, <3>2 DEF BeginTick
    <2>3. ASSUME NEW action \in OperatorActions, BeginOperator(action)
          PROVE  BeginEdge("operator", Acted(edge, action)) /\ Acted(edge, action).seq = edge.seq
                    /\ edge.status # "cancelled"
      <3>1. Acted(edge, action).seq = edge.seq
        BY <2>1 DEF Acted, Rows, OperatorActions
      <3>2. edge.status # "cancelled"
        BY <2>3 DEF BeginOperator, Allowed, OperatorActions
      <3> QED
        BY <2>3, <3>1, <3>2 DEF BeginOperator
    <2> QED
      BY <2>2, <2>3
  <1>2. PICK new : BeginEdge(a, new) /\ new.seq = edge.seq /\ edge.status # "cancelled"
    BY <1>1
  <1>3. UNCHANGED <<clock, cloud, edge, queue, dead, nextSeq, conflicts, sent, refused>>
    BY <1>2 DEF BeginEdge
  <1>4. PICK t : t = [open |-> TRUE, old |-> edge, new |-> new]
    OBVIOUS
  <1>5. t.open /\ t.new = new /\ tx' = [tx EXCEPT ![a] = t] /\ MayBegin(a)
    BY <1>2, <1>4 DEF BeginEdge
  <1>6. tx'[a] = t /\ \A b \in Actors : tx'[b].open => b = a
    BY <1>5, ActorFacts, OpensAlone DEF Orderly, TaskInv
  <1>7. AdminWrites(rank)' /\ EdgeWrites'
    BY <1>2, <1>3, <1>5, <1>6, ActorFacts DEF AdminWrites, EdgeWrites
  <1> QED
    BY <1>3, <1>7, AgreeFrame

LEMMA ApplyOpens ==
    ASSUME NEW rank \in [Shifts -> Nat], Orderly(rank), TaskInv, AgreeInv(rank),
           NEW dir \in Directions, BeginApply(dir)
    PROVE  AgreeInv(rank)'
  <1>1. PICK m \in queue[dir] : IsHead(dir, m) /\ \E new :
            tx' = [tx EXCEPT ![dir] = [open |-> TRUE, msg |-> m, old |-> Receiver(dir), new |-> new]]
    BY DEF BeginApply
  <1>2. PICK new :
            tx' = [tx EXCEPT ![dir] = [open |-> TRUE, msg |-> m, old |-> Receiver(dir), new |-> new]]
    BY <1>1
  <1>3. UNCHANGED <<clock, cloud, edge, queue, dead, nextSeq, conflicts, sent, refused>>
    BY DEF BeginApply
  <1>4. PICK t : t = [open |-> TRUE, msg |-> m, old |-> Receiver(dir), new |-> new]
    OBVIOUS
  <1>5. t.open /\ t.msg = m /\ tx' = [tx EXCEPT ![dir] = t] /\ MayBegin(dir)
    BY <1>2, <1>4 DEF BeginApply
  <1>6. tx'[dir] = t /\ \A b \in Actors : tx'[b].open => b = dir
    BY <1>5, ActorFacts, OpensAlone DEF Orderly, TaskInv
  <1>7. ASSUME dir = "down", edge.status = "none" PROVE m.seq = 1
    <2>1. m \in DownMessages /\ m.seq \in 1 .. LastChange /\ m.at \in Nat /\ LastChange \in Int
      BY <1>1, <1>7 DEF AgreeInv, ChangesInv, DownMessages, LastChange, TaskInv, Shape, Directions
    <2>2. PICK first \in queue["down"] : first.seq = 1
      BY <1>7, <2>1 DEF AgreeInv, EdgeInv
    <2>3. first \in DownMessages /\ first.at \in Nat
      BY <2>2 DEF AgreeInv, ChangesInv, DownMessages
    <2>4. first.at > m.at \/ (first.at = m.at /\ first.seq >= m.seq)
      BY <1>1, <1>7, <2>2 DEF IsHead
    <2>5. m.seq > 1 => first.at <= m.at
      BY <2>1, <2>2, <2>3 DEF AgreeInv, ChangesInv
    <2> QED
      BY <2>1, <2>2, <2>3, <2>4, <2>5
  <1>8. AdminWrites(rank)'
    BY <1>6, ActorFacts DEF AdminWrites
  <1>9. EdgeWrites'
    BY <1>3, <1>5, <1>6, <1>7, ActorFacts DEF EdgeWrites
  <1> QED
    BY <1>3, <1>8, <1>9, AgreeFrame

\* A change is queued: the edge is behind it, and if it moved the task
\* everything behind it is on an earlier shift.
LEMMA ChangeAgrees ==
    ASSUME NEW rank \in [Shifts -> Nat], Orderly(rank), TaskInv, AgreeInv(rank),
           NEW a \in Admins, CommitAdmin(a)
    PROVE  AgreeInv(rank)'
  <1> USE DEF TaskInv
  <1>1. PICK m : m = [seq |-> nextSeq["down"], at |-> clock, kind |-> tx[a].kind,
                      shift |-> tx[a].new.shift, asg |-> tx[a].new.asg]
    OBVIOUS
  <1>2. /\ tx[a].open /\ cloud' = Merge(cloud, tx[a].old, tx[a].new)
        /\ tx' = [tx EXCEPT ![a] = Idle]
        /\ queue' = [queue EXCEPT !["down"] = queue["down"] \cup {m}]
        /\ nextSeq' = [nextSeq EXCEPT !["down"] = nextSeq["down"] + 1]
        /\ UNCHANGED <<clock, edge, dead, conflicts, sent, refused>>
    BY <1>1 DEF CommitAdmin, Enqueue
  <1>3. PICK new \in Rows : new = tx[a].new
    BY <1>2 DEF AdminRead
  <1>4. cloud' = new /\ new.seq = cloud.seq /\ cloud.status \in {"none", "assigned"} /\ cloud \in Rows
    BY <1>2, <1>3, MergeRead DEF AdminRead, Shape
  <1>5. PICK kind : kind = tx[a].kind
    OBVIOUS
  <1>6. /\ new.start = 0 /\ new.qty = 0 /\ new.shift \in Shifts
        /\ \/ kind = "assigned" /\ cloud.status = "none" /\ new.status = "assigned"
           \/ /\ kind = "reassigned" /\ cloud.status = "assigned"
              /\ new.status = "assigned" /\ rank[cloud.shift] < rank[new.shift]
           \/ /\ kind = "cancelled" /\ cloud.status = "assigned"
              /\ new.status = "cancelled" /\ new.shift = cloud.shift
    BY <1>2, <1>3, <1>5 DEF AgreeInv, AdminWrites
  <1>7. PICK n \in Nat : n = LastChange
    BY DEF LastChange, Shape, Directions
  <1>8. /\ nextSeq["down"] = n + 1 /\ LastChange' = n + 1 /\ nextSeq'["down"] = n + 2
        /\ nextSeq'["up"] = nextSeq["up"]
    BY <1>2, <1>7 DEF LastChange, Shape, Directions
  <1>9. /\ m.seq = n + 1 /\ m.at = clock /\ m.kind = kind /\ m.shift = new.shift
        /\ m.asg = new.asg /\ clock \in Nat
    BY <1>1, <1>3, <1>5, <1>8 DEF AgreeInv, ChangesInv
  <1>10. DownMessages' = DownMessages \cup {m} /\ queue'["down"] = queue["down"] \cup {m}
    BY <1>2 DEF DownMessages, Shape, Directions
  <1>11. cloud.status = "none" <=> n = 0
    BY <1>8 DEF AgreeInv, ChangesInv
  <1>12. cloud.start = 0 /\ edge \in Rows /\ edge.seq \in Nat /\ edge.seq <= n
    BY <1>4, <1>7 DEF AgreeInv, SettledInv, EdgeInv, Shape, Working, Rows
  <1>13. \A k \in DownMessages : k.seq \in 1 .. n /\ k.at \in Nat /\ k.at <= clock /\ k.shift \in Shifts
                /\ (k.kind = "assigned" <=> k.seq = 1) /\ (k.kind = "cancelled" => k.seq = n)
    BY <1>7 DEF AgreeInv, ChangesInv
  <1>14. edge.status # "cancelled"
    BY <1>4 DEF AgreeInv, EdgeInv
  <1>15. ASSUME NEW k \in DownMessages PROVE k.kind # "cancelled"
    <2>1. k.seq = n => (k.kind = "cancelled" <=> cloud.status = "cancelled")
      BY <1>7, <1>12, <1>15 DEF AgreeInv, ChangesInv
    <2> QED
      BY <1>4, <1>13, <2>1
  <1>16. ChangesInv'
    <2>1. \A k \in DownMessages' :
              /\ k.seq \in 1 .. n + 1 /\ k.at \in Nat /\ k.at <= clock' /\ k.shift \in Shifts
              /\ k.kind = "assigned" <=> k.seq = 1
              /\ k.kind = "cancelled" => k.seq = n + 1
      BY <1>2, <1>6, <1>9, <1>10, <1>11, <1>13, <1>15
    <2>2. \A k, l \in DownMessages' : k.seq < l.seq => k.at <= l.at
      <3> SUFFICES ASSUME NEW k \in DownMessages', NEW l \in DownMessages', k.seq < l.seq
                   PROVE  k.at <= l.at
        OBVIOUS
      <3>1. CASE l = m
        BY <1>9, <1>10, <1>13, <3>1
      <3>2. CASE l # m
        <4>1. l \in DownMessages /\ k \in DownMessages
          BY <1>9, <1>10, <1>13, <3>2
        <4> QED
          BY <4>1 DEF AgreeInv, ChangesInv
      <3> QED
        BY <3>1, <3>2
    <2>3. \A k \in DownMessages' : k.seq = n + 1 => k = m
      BY <1>10, <1>13
    <2>4. m.kind = "cancelled" <=> cloud'.status = "cancelled"
      BY <1>4, <1>6, <1>9
    <2>5. cloud'.status # "none" /\ cloud'.shift \in Shifts /\ nextSeq'["down"] # 1
      BY <1>4, <1>6, <1>8
    <2> QED
      BY <1>2, <1>4, <1>8, <1>9, <2>1, <2>2, <2>3, <2>4, <2>5 DEF ChangesInv
  <1>17. EdgeInv'
    <2>1. edge'.status = "none" => \E k \in queue'["down"] : k.seq = 1
      BY <1>2, <1>7, <1>9, <1>10, <1>12 DEF AgreeInv, EdgeInv
    <2>2. \E k \in DownMessages' : k.seq = n + 1
      BY <1>9, <1>10
    <2>3. refused' => edge'.start # 0 /\ edge'.seq < n + 1
      BY <1>2, <1>12 DEF AgreeInv, EdgeInv
    <2> QED
      BY <1>2, <1>8, <1>12, <1>14, <2>1, <2>2, <2>3 DEF AgreeInv, EdgeInv
  <1>18. RankInv(rank)'
    <2> SUFFICES ASSUME cloud'.status = "assigned"
                 PROVE  /\ \A k \in DownMessages' : k.seq < n + 1 => rank[k.shift] < rank[new.shift]
                        /\ edge.status # "none" => rank[edge.shift] < rank[new.shift]
      BY <1>2, <1>4, <1>8 DEF RankInv
    <2>1. CASE cloud.status = "none"
      <3>1. n = 0 /\ DownMessages = {} /\ edge.status = "none"
        BY <1>11, <1>12, <1>13, <2>1 DEF AgreeInv, EdgeInv
      <3> QED
        BY <1>9, <1>10, <3>1
    <2>2. CASE cloud.status = "assigned"
      <3>1. /\ rank[cloud.shift] < rank[new.shift] /\ cloud.shift \in Shifts
            /\ rank[cloud.shift] \in Nat /\ rank[new.shift] \in Nat
        BY <1>4, <1>6, <2>2 DEF AgreeInv, ChangesInv
      <3>2. ASSUME NEW k \in DownMessages', k.seq < n + 1 PROVE rank[k.shift] < rank[new.shift]
        <4>1. k \in DownMessages /\ k.seq \in 1 .. n /\ k.shift \in Shifts
          BY <1>9, <1>10, <1>13, <3>2
        <4>2. rank[k.shift] < rank[cloud.shift] \/ k.shift = cloud.shift
          <5>1. CASE k.seq = n
            BY <1>7, <1>12, <4>1, <5>1 DEF AgreeInv, ChangesInv
          <5>2. CASE k.seq < n
            BY <1>7, <1>12, <2>2, <4>1, <5>2 DEF AgreeInv, RankInv
          <5> QED
            BY <4>1, <5>1, <5>2
        <4>3. rank[k.shift] \in Nat
          BY <4>1
        <4> QED
          BY <3>1, <4>2, <4>3
      <3>3. ASSUME edge.status # "none" PROVE rank[edge.shift] < rank[new.shift]
        <4>1. edge.shift \in Shifts
          BY <3>3 DEF AgreeInv, EdgeInv
        <4>2. rank[edge.shift] < rank[cloud.shift] \/ edge.shift = cloud.shift
          <5>1. CASE edge.seq = n
            BY <1>7, <1>12, <1>14, <5>1 DEF AgreeInv, EdgeInv
          <5>2. CASE edge.seq < n
            BY <1>7, <1>12, <2>2, <3>3, <5>2 DEF AgreeInv, RankInv
          <5> QED
            BY <1>12, <5>1, <5>2
        <4>3. rank[edge.shift] \in Nat
          BY <4>1
        <4> QED
          BY <3>1, <4>2, <4>3
      <3> QED
        BY <3>2, <3>3
    <2> QED
      BY <1>4, <2>1, <2>2
  <1>19. SettledInv'
    BY <1>2, <1>4, <1>6, <1>8, <1>12 DEF AgreeInv, SettledInv
  <1>20. \A b \in Actors : ~tx'[b].open
    BY <1>2, ActorFacts, EndsLast
  <1>21. AdminWrites(rank)' /\ EdgeWrites'
    BY <1>20, ActorFacts DEF AdminWrites, EdgeWrites
  <1> QED
    BY <1>16, <1>17, <1>18, <1>19, <1>21 DEF AgreeInv

\* A report is queued: it has the assignment the edge holds.
LEMMA ReportAgrees ==
    ASSUME NEW rank \in [Shifts -> Nat], Orderly(rank), TaskInv, AgreeInv(rank),
           NEW a \in {"operator", "tick"}, CommitEdge(a)
    PROVE  AgreeInv(rank)'
  <1> USE DEF TaskInv
  <1>1. /\ tx[a].open /\ edge' = Merge(edge, tx[a].old, tx[a].new)
        /\ tx' = [tx EXCEPT ![a] = Idle]
        /\ queue' = [queue EXCEPT !["up"] = queue["up"] \cup {Report(tx[a].new)}]
        /\ nextSeq' = [nextSeq EXCEPT !["up"] = nextSeq["up"] + 1]
        /\ sent' = sent \cup {Report(tx[a].new)}
        /\ UNCHANGED <<clock, cloud, dead, conflicts, refused>>
    BY DEF CommitEdge, Enqueue
  <1>2. PICK new \in Rows : new = tx[a].new
    BY <1>1 DEF EdgeRead
  <1>3. PICK m : m = Report(new)
    OBVIOUS
  <1>4. /\ edge' = new /\ new.status \in Working /\ new.shift = edge.shift /\ new.asg = edge.asg
        /\ edge.status # "none" /\ new.start = 1
    BY <1>1, <1>2, MergeRead DEF EdgeRead, Shape, Orderly
  <1>5. new.seq = edge.seq /\ edge.status # "cancelled"
    BY <1>1, <1>2 DEF AgreeInv, EdgeWrites
  <1>6. /\ m.seq = nextSeq["up"] /\ m.status = new.status /\ m.start = new.start
        /\ m.qty = new.qty /\ m.shift = new.shift /\ m.asg = new.asg /\ nextSeq["up"] \in Nat \ {0}
    BY <1>3 DEF Report, Shape, Directions
  <1>7. /\ queue'["down"] = queue["down"] /\ nextSeq'["up"] = nextSeq["up"] + 1
        /\ nextSeq'["down"] = nextSeq["down"] /\ sent' = sent \cup {m}
        /\ DownMessages' = DownMessages /\ LastChange' = LastChange
    BY <1>1, <1>2, <1>3 DEF Shape, Directions, DownMessages, LastChange
  <1>8. ChangesInv' /\ RankInv(rank)'
    BY <1>1, <1>4, <1>5, <1>7 DEF AgreeInv, ChangesInv, RankInv
  <1>9. EdgeInv'
    <2>1. /\ edge'.status # "none" /\ edge'.status # "cancelled" /\ edge'.seq = edge.seq
          /\ edge'.shift = edge.shift /\ edge'.asg = edge.asg /\ edge'.start # 0
      BY <1>4, <1>5 DEF Working
    <2> QED
      BY <1>1, <1>4, <1>5, <1>7, <2>1 DEF AgreeInv, EdgeInv
  <1>10. SettledInv'
    <2>1. \A k \in sent' : k.shift = edge'.shift /\ k.asg = edge'.asg /\ k.start # 0 /\ k.seq > 0
      BY <1>4, <1>6, <1>7 DEF AgreeInv, SettledInv
    <2>2. \E k \in sent' : /\ k.seq = nextSeq'["up"] - 1 /\ k.status = edge'.status
                           /\ k.start = edge'.start /\ k.qty = edge'.qty
      BY <1>4, <1>6, <1>7
    <2>3. edge'.start # 0 /\ edge'.seq = edge.seq /\ edge'.shift = edge.shift /\ edge'.asg = edge.asg
      BY <1>4, <1>5
    <2> QED
      BY <1>1, <1>7, <2>1, <2>2, <2>3 DEF AgreeInv, SettledInv
  <1>11. \A b \in Actors : ~tx'[b].open
    BY <1>1, ActorFacts, EndsLast
  <1>12. AdminWrites(rank)' /\ EdgeWrites'
    BY <1>11, ActorFacts DEF AdminWrites, EdgeWrites
  <1> QED
    BY <1>8, <1>9, <1>10, <1>12 DEF AgreeInv

\* A message of the cloud reaches the edge: it is the assignment, or it is
\* applied, or it is older than what is there, or the task has started.
LEMMA CloudMessageAgrees ==
    ASSUME NEW rank \in [Shifts -> Nat], Orderly(rank), TaskInv, AgreeInv(rank),
           CommitApply("down")
    PROVE  AgreeInv(rank)'
  <1> USE DEF TaskInv
  <1>1. PICK m : m = tx["down"].msg
    OBVIOUS
  <1>2. /\ tx["down"].open /\ edge' = Merge(edge, tx["down"].old, tx["down"].new)
        /\ tx' = [tx EXCEPT !["down"] = Idle]
        /\ queue' = [queue EXCEPT !["down"] = queue["down"] \ {m}]
        /\ refused' = (refused \/ (Newer(tx["down"].old, m) /\ tx["down"].old.start # 0))
        /\ UNCHANGED <<clock, cloud, dead, nextSeq, conflicts, sent>>
    BY <1>1 DEF CommitApply
  <1>3. m \in queue["down"] /\ m \in DownMessages
    BY <1>1, <1>2 DEF ApplyRead, DownMessages
  <1>4. PICK new : new = FromCloud(edge, m)
    OBVIOUS
  <1>5. /\ edge \in Rows /\ cloud \in Rows /\ IsCloudMessage(m) /\ cloud.status # "none"
        /\ edge.status \notin Working => edge.start = 0
        /\ edge.status \in Working => edge.start = 1
    BY <1>3 DEF Shape, CloudFirst, StartInv, Orderly
  <1>6. new \in Rows
    BY <1>4, <1>5, FromCloudFacts
  <1>7. /\ edge' = new
        /\ refused' => refused \/ (m.seq > edge.seq /\ edge.start # 0)
        /\ refused \/ (m.seq > edge.seq /\ edge.start # 0) => refused'
    <2>1. tx["down"].old = edge /\ tx["down"].new = new
      BY <1>1, <1>2, <1>4 DEF ApplyRead
    <2>2. edge' = new
      BY <1>2, <1>5, <1>6, <2>1, MergeRead
    <2>3. refused' = (refused \/ (m.seq > edge.seq /\ edge.start # 0))
      BY <1>2, <2>1 DEF Newer
    <2> QED
      BY <2>2, <2>3
  <1>8. PICK n \in Nat : n = LastChange
    BY DEF LastChange, Shape, Directions
  <1>9. /\ DownMessages' \subseteq DownMessages /\ DownMessages \ {m} \subseteq DownMessages'
        /\ LastChange' = LastChange /\ queue'["up"] = queue["up"]
        /\ queue'["down"] = queue["down"] \ {m}
    BY <1>2 DEF DownMessages, LastChange, Shape, Directions
  <1>10. /\ m.seq \in 1 .. n /\ m.shift \in Shifts /\ (m.kind = "assigned" <=> m.seq = 1)
         /\ (m.kind = "cancelled" => m.seq = n)
    BY <1>3, <1>8 DEF AgreeInv, ChangesInv
  <1>11. edge.status = "none" => m.seq = 1
    BY <1>1, <1>2 DEF AgreeInv, EdgeWrites
  <1>12. ChangesInv'
    BY <1>2, <1>9 DEF AgreeInv, ChangesInv
  <1>13. \A b \in Actors : ~tx'[b].open
    BY <1>2, ActorFacts, EndsLast
  <1>14. AdminWrites(rank)' /\ EdgeWrites'
    BY <1>13, ActorFacts DEF AdminWrites, EdgeWrites
  <1>15. edge.status = "none" <=> edge.seq = 0
    BY DEF AgreeInv, EdgeInv
  <1>16. edge.start = 0 => cloud.start = 0 /\ refused = FALSE
    BY DEF AgreeInv, SettledInv, EdgeInv, TaskInv
  <1>17. CASE /\ edge.status = "none" \/ (edge.status = "assigned" /\ m.seq > edge.seq)
              /\ m.kind # "cancelled"
    <2>1. new.status = "assigned" /\ new.shift = m.shift /\ new.asg = m.asg /\ new.seq = m.seq
          /\ new.start = 0 /\ new.qty = 0
      <3>1. CASE edge.status = "none"
        BY <1>4, <1>17, <3>1 DEF FromCloud, Assigned, NoRow
      <3>2. CASE edge.status = "assigned"
        <4>1. edge.start = 0 /\ edge.qty = 0
          BY <1>5, <3>2 DEF Working, AgreeInv, EdgeInv
        <4>2. new = [edge EXCEPT !.shift = m.shift, !.asg = m.asg, !.seq = m.seq]
          BY <1>4, <1>17, <3>2, <4>1 DEF FromCloud, Assigned, Newer, Started
        <4> QED
          BY <1>5, <3>2, <4>1, <4>2 DEF Rows
      <3> QED
        BY <1>17, <3>1, <3>2
    <2>2. edge.start = 0 /\ cloud.start = 0 /\ refused = FALSE /\ refused' = FALSE
      BY <1>5, <1>7, <1>16, <1>17 DEF Working
    <2>3. m.seq = n => /\ m.shift = cloud.shift /\ m.asg = cloud.asg
                       /\ cloud.status # "cancelled"
      BY <1>3, <1>8, <1>17, <2>2 DEF AgreeInv, ChangesInv
    <2>4. m.seq < n => \E k \in DownMessages' : k.seq = n
      <3> SUFFICES ASSUME m.seq < n PROVE \E k \in DownMessages' : k.seq = n
        OBVIOUS
      <3>1. edge.seq < n
        BY <1>5, <1>10, <1>15, <1>17 DEF Rows
      <3>2. PICK k \in DownMessages : k.seq = n
        BY <1>8, <2>2, <3>1 DEF AgreeInv, EdgeInv
      <3> QED
        BY <1>9, <1>10, <3>2
    <2>5. EdgeInv'
      <3>1. new.seq <= n /\ new.seq # 0 /\ new.seq \in Nat /\ m.seq \in Nat
        BY <1>10, <2>1
      <3> QED
        BY <1>2, <1>7, <1>8, <1>9, <1>10, <2>1, <2>2, <2>3, <2>4, <3>1 DEF EdgeInv
    <2>6. RankInv(rank)'
      <3> SUFFICES ASSUME cloud.status = "assigned"
                   PROVE  /\ \A k \in DownMessages' : k.seq < n => rank[k.shift] < rank[cloud.shift]
                          /\ m.seq < n => rank[m.shift] < rank[cloud.shift]
        BY <1>2, <1>7, <1>8, <1>9, <2>1 DEF RankInv
      <3> QED
        BY <1>3, <1>8, <1>9, <2>2 DEF AgreeInv, RankInv
    <2>7. SettledInv'
      <3>1. sent = {} /\ conflicts = 0
        BY <2>2 DEF AgreeInv, SettledInv
      <3> QED
        BY <1>2, <1>7, <1>9, <2>1, <2>2, <3>1 DEF AgreeInv, SettledInv
    <2> QED
      BY <1>12, <1>14, <2>5, <2>6, <2>7 DEF AgreeInv
  <1>18. CASE edge.status = "assigned" /\ m.seq > edge.seq /\ m.kind = "cancelled"
    <2>1. edge.start = 0 /\ edge.qty = 0 /\ cloud.start = 0 /\ refused = FALSE /\ refused' = FALSE
      BY <1>5, <1>7, <1>16, <1>18 DEF Working, AgreeInv, EdgeInv
    <2>2. new = [edge EXCEPT !.status = "cancelled", !.seq = m.seq]
      BY <1>4, <1>18, <2>1 DEF FromCloud, Cancelled, Newer, Started
    <2>3. /\ new.status = "cancelled" /\ new.seq = n /\ new.start = 0 /\ new.qty = 0
          /\ new.shift = edge.shift /\ new.asg = edge.asg
      BY <1>5, <1>10, <1>18, <2>1, <2>2 DEF Rows
    <2>4. cloud.status = "cancelled" /\ n # 0
      BY <1>3, <1>8, <1>10, <1>18, <2>1 DEF AgreeInv, ChangesInv
    <2>5. edge.shift \in Shifts
      BY <1>18 DEF AgreeInv, EdgeInv
    <2>6. EdgeInv'
      BY <1>2, <1>7, <1>8, <1>9, <2>1, <2>3, <2>4, <2>5 DEF EdgeInv
    <2>7. RankInv(rank)'
      BY <1>2, <2>4 DEF RankInv
    <2>8. SettledInv'
      <3>1. sent = {} /\ conflicts = 0
        BY <2>1 DEF AgreeInv, SettledInv
      <3> QED
        BY <1>2, <1>7, <1>9, <2>1, <2>3, <3>1 DEF AgreeInv, SettledInv
    <2> QED
      BY <1>12, <1>14, <2>6, <2>7, <2>8 DEF AgreeInv
  <1>19. CASE edge.status # "none" /\ (edge.status # "assigned" \/ ~(m.seq > edge.seq))
    <2>1. new = edge
      BY <1>4, <1>19 DEF FromCloud, Assigned, Cancelled, Newer, Started
    <2>2. n \in Nat /\ edge.seq \in Nat /\ m.seq \in Nat /\ edge.seq <= n
      BY <1>5, <1>8, <1>10 DEF Rows, AgreeInv, EdgeInv
    <2>3. edge.seq < n /\ ~refused' => \E k \in DownMessages' : k.seq = n
      <3> SUFFICES ASSUME edge.seq < n, ~refused' PROVE \E k \in DownMessages' : k.seq = n
        OBVIOUS
      <3>1. PICK k \in DownMessages : k.seq = n
        BY <1>7, <1>8 DEF AgreeInv, EdgeInv
      <3>2. m.seq # n
        <4>1. edge.status # "cancelled"
          BY <1>8 DEF AgreeInv, EdgeInv
        <4>2. edge.status \in Working => m.seq <= edge.seq
          BY <1>5, <1>7, <2>2
        <4>3. edge.status = "assigned" => m.seq <= edge.seq
          BY <1>19, <2>2
        <4>4. edge.status \in {"none", "assigned", "cancelled"} \cup Working
          BY <1>5 DEF Rows, Statuses, Working
        <4> QED
          BY <1>19, <2>2, <4>1, <4>2, <4>3, <4>4
      <3> QED
        BY <1>9, <3>1, <3>2
    <2>4. refused' => edge.start # 0 /\ edge.seq < n
      BY <1>7, <1>8, <1>10, <2>2 DEF AgreeInv, EdgeInv
    <2>5. EdgeInv'
      BY <1>2, <1>7, <1>8, <1>9, <1>19, <2>1, <2>3, <2>4 DEF AgreeInv, EdgeInv
    <2>6. RankInv(rank)'
      BY <1>2, <1>7, <1>9, <2>1 DEF AgreeInv, RankInv
    <2>7. SettledInv'
      BY <1>2, <1>7, <1>9, <2>1 DEF AgreeInv, SettledInv
    <2> QED
      BY <1>12, <1>14, <2>5, <2>6, <2>7 DEF AgreeInv
  <1>20. m.kind = "cancelled" => edge.status # "none"
    BY <1>10, <1>11
  <1> QED
    BY <1>17, <1>18, <1>19, <1>20

\* A report reaches the cloud: the first settles whose assignment it is, with a
\* conflict exactly when the edge is behind; a later one only adds to it.
LEMMA ReportApplied ==
    ASSUME NEW rank \in [Shifts -> Nat], Orderly(rank), TaskInv, AgreeInv(rank),
           CommitApply("up")
    PROVE  AgreeInv(rank)'
  <1> USE DEF TaskInv
  <1>1. PICK m : m = tx["up"].msg
    OBVIOUS
  <1>2. /\ tx["up"].open /\ cloud' = Merge(cloud, tx["up"].old, tx["up"].new)
        /\ tx' = [tx EXCEPT !["up"] = Idle]
        /\ queue' = [queue EXCEPT !["up"] = queue["up"] \ {m}]
        /\ conflicts' = IF IsNews(tx["up"].old, m) /\ Conflict(tx["up"].old, m)
                        THEN conflicts + 1 ELSE conflicts
        /\ UNCHANGED <<clock, edge, dead, nextSeq, sent, refused>>
    BY <1>1 DEF CommitApply
  <1>3. PICK new : new = FromEdge(cloud, m)
    OBVIOUS
  <1>4. /\ cloud \in Rows /\ edge \in Rows /\ m \in sent /\ IsReport(m) /\ cloud.status # "none"
        /\ m.seq # cloud.seq /\ m.seq \in Nat /\ cloud.seq \in Nat
    BY <1>1, <1>2 DEF Shape, CloudFirst, Reports, IsReport, ApplyRead, Rows
  <1>5. /\ m.seq <= cloud.seq => new = cloud
        /\ m.seq > cloud.seq => /\ new.seq = m.seq /\ new.status = m.status
                                /\ new.start = m.start /\ new.qty = m.qty
    BY <1>3, <1>4, FromEdgeFacts
  <1>6. /\ cloud' = new
        /\ conflicts' = IF m.seq > cloud.seq /\ Conflict(cloud, m) THEN conflicts + 1 ELSE conflicts
    <2>1. new \in Rows
      BY <1>3, <1>4, FromEdgeFacts
    <2>2. tx["up"].old = cloud /\ tx["up"].new = new
      BY <1>1, <1>2, <1>3 DEF ApplyRead
    <2> QED
      BY <1>2, <1>4, <2>1, <2>2, MergeRead DEF IsNews, Newer
  <1>7. /\ DownMessages' = DownMessages /\ LastChange' = LastChange
    BY <1>2 DEF DownMessages, LastChange, Shape, Directions
  <1>8. /\ m.shift = edge.shift /\ m.asg = edge.asg /\ m.start # 0 /\ m.seq > 0 /\ edge.start # 0
        /\ edge.status \in Working
    BY <1>4 DEF AgreeInv, SettledInv, StartInv
  <1>9. edge.status # "none" /\ edge.status # "cancelled" /\ edge.shift \in Shifts
    BY <1>8 DEF Working, AgreeInv, EdgeInv
  <1>10. PICK n \in Nat : n = LastChange
    BY DEF LastChange, Shape, Directions
  <1>11. \A b \in Actors : ~tx'[b].open
    BY <1>2, ActorFacts, EndsLast
  <1>12. AdminWrites(rank)' /\ EdgeWrites'
    BY <1>11, ActorFacts DEF AdminWrites, EdgeWrites
  <1>13. /\ edge.seq \in Nat /\ edge.seq <= n
    BY <1>4, <1>10 DEF Rows, AgreeInv, EdgeInv
  <1>14. cloud.start = 0 => /\ cloud.seq = 0 /\ cloud.status \in {"assigned", "cancelled"}
                            /\ conflicts = 0
    BY <1>4 DEF AgreeInv, SettledInv
  <1>15. cloud'.start # 0
    BY <1>4, <1>5, <1>6, <1>8, <1>14
  <1>16. cloud'.shift = edge.shift /\ cloud'.asg = edge.asg
         /\ conflicts' = IF edge.seq = n THEN 0 ELSE 1
    <2>1. CASE cloud.start = 0
      <3>1. m.seq > cloud.seq
        BY <1>8, <1>14, <2>1
      <3>2. new = [(IF Conflict(cloud, m) THEN [cloud EXCEPT !.shift = m.shift, !.asg = m.asg] ELSE cloud)
                      EXCEPT !.status = m.status, !.start = m.start, !.qty = m.qty, !.seq = m.seq]
        BY <1>3, <1>4, <3>1 DEF FromEdge, IsNews, Newer
      <3>3. Conflict(cloud, m) <=> edge.seq # n
        <4>1. CASE edge.seq = n
          BY <1>8, <1>9, <1>10, <2>1, <4>1 DEF AgreeInv, EdgeInv, Conflict
        <4>2. CASE edge.seq # n
          <5>1. CASE cloud.status = "cancelled"
            BY <1>8, <4>2, <5>1 DEF Conflict
          <5>2. CASE cloud.status = "assigned"
            <6>1. rank[edge.shift] < rank[cloud.shift]
              BY <1>9, <1>10, <1>13, <2>1, <4>2, <5>2 DEF AgreeInv, RankInv
            <6>2. edge.shift # cloud.shift
              BY <1>9, <6>1
            <6> QED
              BY <1>8, <4>2, <6>2 DEF Conflict
          <5> QED
            BY <1>14, <2>1, <5>1, <5>2
        <4> QED
          BY <4>1, <4>2
      <3>4. conflicts' = IF edge.seq = n THEN 0 ELSE 1
        BY <1>6, <1>14, <2>1, <3>1, <3>3
      <3>5. CASE Conflict(cloud, m)
        <4>1. PICK base : base = [cloud EXCEPT !.shift = m.shift, !.asg = m.asg]
          OBVIOUS
        <4>2. new = [base EXCEPT !.status = m.status, !.start = m.start, !.qty = m.qty, !.seq = m.seq]
          BY <3>2, <3>5, <4>1
        <4>3. new.shift = m.shift /\ new.asg = m.asg
          BY <1>4, <4>1, <4>2 DEF Rows
        <4> QED
          BY <1>6, <1>8, <3>4, <4>3
      <3>6. CASE ~Conflict(cloud, m)
        <4>1. new.shift = cloud.shift /\ new.asg = cloud.asg
          BY <1>4, <3>2, <3>6 DEF Rows
        <4>2. cloud.shift = edge.shift /\ cloud.asg = edge.asg
          BY <1>9, <1>10, <2>1, <3>3, <3>6 DEF AgreeInv, EdgeInv
        <4> QED
          BY <1>6, <3>4, <4>1, <4>2
      <3> QED
        BY <3>5, <3>6
    <2>2. CASE cloud.start # 0
      <3>1. /\ cloud.shift = edge.shift /\ cloud.asg = edge.asg /\ cloud.status \in Working
            /\ conflicts = IF edge.seq = n THEN 0 ELSE 1
        BY <1>10, <2>2 DEF AgreeInv, SettledInv
      <3>2. ~Conflict(cloud, m)
        BY <1>8, <3>1 DEF Conflict, Working
      <3>3. new.shift = cloud.shift /\ new.asg = cloud.asg
        BY <1>3, <1>4, <3>2 DEF FromEdge, Rows
      <3> QED
        BY <1>6, <3>1, <3>2, <3>3
    <2> QED
      BY <2>1, <2>2
  <1>17. cloud'.status \in Working /\ cloud'.seq # 0
    <2>1. CASE m.seq > cloud.seq
      BY <1>4, <1>5, <1>6, <1>8, <2>1 DEF IsReport
    <2>2. CASE ~(m.seq > cloud.seq)
      <3>1. new = cloud /\ cloud.start # 0
        BY <1>4, <1>5, <1>8, <1>14, <2>2
      <3> QED
        BY <1>6, <3>1 DEF AgreeInv, SettledInv
    <2> QED
      BY <2>1, <2>2
  <1>18. ChangesInv'
    <2>1. cloud'.status # "none" /\ cloud'.shift \in Shifts /\ nextSeq'["down"] # 1
      BY <1>2, <1>4, <1>9, <1>16, <1>17 DEF Working, AgreeInv, ChangesInv
    <2> QED
      BY <1>2, <1>7, <1>15, <2>1 DEF AgreeInv, ChangesInv
  <1>19. EdgeInv'
    BY <1>2, <1>7, <1>8, <1>9, <1>15 DEF AgreeInv, EdgeInv
  <1>20. RankInv(rank)'
    BY <1>15 DEF RankInv
  <1>21. SettledInv'
    BY <1>2, <1>7, <1>8, <1>10, <1>15, <1>16, <1>17 DEF AgreeInv, SettledInv
  <1> QED
    BY <1>12, <1>18, <1>19, <1>20, <1>21 DEF AgreeInv

\* Setting a message aside, and putting it back, leaves it on its way.
LEMMA DeadLettersAgree ==
    ASSUME NEW rank \in [Shifts -> Nat], Orderly(rank), TaskInv, AgreeInv(rank),
           NEW dir \in Directions, DeadLetter(dir) \/ \E m \in dead[dir] : Retry(dir, m)
    PROVE  AgreeInv(rank)'
  <1> USE DEF TaskInv
  <1>1. UNCHANGED <<clock, cloud, edge, tx, nextSeq, conflicts, sent, refused>>
    BY DEF DeadLetter, Retry
  <1>2. DownMessages' = DownMessages /\ LastChange' = LastChange
    <2>1. CASE DeadLetter(dir)
      BY <2>1 DEF DeadLetter, DownMessages, LastChange, Shape, Directions
    <2>2. CASE \E m \in dead[dir] : Retry(dir, m)
      BY <2>2 DEF Retry, DownMessages, LastChange, Shape, Directions
    <2> QED
      BY <2>1, <2>2
  <1>3. \A m \in queue["down"] : m.seq = 1 => m \in queue'["down"]
    <2>1. CASE DeadLetter(dir)
      <3>1. PICK k \in queue[dir] : k.kind \in MayFail /\ queue' = [queue EXCEPT ![dir] = queue[dir] \ {k}]
        BY <2>1 DEF DeadLetter
      <3>2. \A m \in queue["down"] : m.seq = 1 => m.kind = "assigned"
        BY DEF AgreeInv, ChangesInv, DownMessages
      <3>3. k.kind # "assigned"
        BY <3>1 DEF Orderly
      <3> QED
        BY <3>1, <3>2, <3>3 DEF Shape, Directions
    <2>2. CASE \E m \in dead[dir] : Retry(dir, m)
      BY <2>2 DEF Retry, Shape, Directions
    <2> QED
      BY <2>1, <2>2
  <1>4. ChangesInv' /\ RankInv(rank)' /\ SettledInv'
    BY <1>1, <1>2 DEF AgreeInv, ChangesInv, RankInv, SettledInv
  <1>5. EdgeInv'
    BY <1>1, <1>2, <1>3 DEF AgreeInv, EdgeInv
  <1>6. AdminWrites(rank)' /\ EdgeWrites'
    BY <1>1 DEF AgreeInv, AdminWrites, EdgeWrites
  <1> QED
    BY <1>4, <1>5, <1>6 DEF AgreeInv

LEMMA AgreeStep ==
    ASSUME NEW rank \in [Shifts -> Nat], Orderly(rank)
    PROVE  TaskInv /\ AgreeInv(rank) /\ [Next]_vars => AgreeInv(rank)'
  <1> SUFFICES ASSUME TaskInv, AgreeInv(rank), [Next]_vars PROVE AgreeInv(rank)'
    OBVIOUS
  <1>1. ASSUME NEW t \in 0 .. MaxTime, SetClock(t) PROVE AgreeInv(rank)'
    BY <1>1, ClockAgrees DEF Orderly
  <1>2. ASSUME NEW a \in Admins,
               BeginCancel(a) \/ \E s \in Shifts : BeginCreate(a, s) \/ BeginReassign(a, s)
        PROVE  AgreeInv(rank)'
    BY <1>2, AdminOpens
  <1>3. CASE BeginTick \/ \E action \in OperatorActions : BeginOperator(action)
    BY <1>3, EdgeOpens
  <1>4. ASSUME NEW a \in Actors, Commit(a) PROVE AgreeInv(rank)'
    BY <1>4, ChangeAgrees, ReportAgrees, CloudMessageAgrees, ReportApplied DEF Commit, Directions
  <1>5. ASSUME NEW dir \in Directions,
               BeginApply(dir) \/ DeadLetter(dir) \/ \E m \in dead[dir] : Retry(dir, m)
        PROVE  AgreeInv(rank)'
    BY <1>5, ApplyOpens, DeadLettersAgree
  <1>6. CASE UNCHANGED vars
    <2>1. AdminWrites(rank)' /\ EdgeWrites'
      BY <1>6 DEF vars, AgreeInv, AdminWrites, EdgeWrites
    <2> QED
      BY <1>6, <2>1, AgreeFrame DEF vars
  <1> QED
    BY <1>1, <1>2, <1>3, <1>4, <1>5, <1>6 DEF Next

\* When nothing is on its way, the last change has reached the edge or been
\* refused by it, and the last report has reached the cloud.
LEMMA QuietAgrees ==
    ASSUME NEW rank \in [Shifts -> Nat], Orderly(rank), TaskInv, AgreeInv(rank), Quiet
    PROVE  Agree /\ conflicts = IF refused THEN 1 ELSE 0
  <1> USE DEF TaskInv
  <1>1. DownMessages = {} /\ queue["up"] \cup dead["up"] = {}
    BY DEF Quiet, DownMessages, Directions
  <1>2. PICK n \in Nat : n = LastChange
    BY DEF LastChange, Shape, Directions
  <1>3. /\ edge \in Rows /\ cloud \in Rows /\ edge.seq \in Nat /\ edge.seq <= n
    BY <1>2 DEF Shape, Rows, AgreeInv, EdgeInv
  <1>4. refused <=> edge.seq # n
    BY <1>1, <1>2, <1>3 DEF AgreeInv, EdgeInv
  <1>5. CASE edge.start = 0
    <2>1. cloud.start = 0 /\ conflicts = 0 /\ ~refused /\ cloud.qty = 0 /\ edge.qty = 0
      BY <1>5 DEF AgreeInv, SettledInv, EdgeInv
    <2>2. edge.seq = n
      BY <1>4, <2>1
    <2>3. /\ edge.status = "cancelled" <=> cloud.status = "cancelled"
          /\ edge.status # "cancelled" => edge.shift = cloud.shift /\ edge.asg = cloud.asg
      BY <1>2, <2>1, <2>2 DEF AgreeInv, EdgeInv
    <2>4. edge.status = "none" <=> cloud.status = "none"
      <3>1. edge.status = "none" <=> n = 0
        BY <2>2 DEF AgreeInv, EdgeInv
      <3>2. cloud.status = "none" <=> n = 0
        BY <1>2 DEF AgreeInv, ChangesInv, LastChange, Shape, Directions
      <3> QED
        BY <3>1, <3>2
    <2>5. /\ edge.status \in {"none", "assigned", "cancelled"}
          /\ cloud.status \in {"none", "assigned", "cancelled"}
      BY <1>3, <1>5, <2>1 DEF StartInv, Orderly, Rows, Statuses, Working, AgreeInv, SettledInv
    <2> QED
      BY <1>5, <2>1, <2>3, <2>4, <2>5 DEF Agree
  <1>6. CASE edge.start # 0
    <2>1. PICK m \in sent : /\ m.seq = nextSeq["up"] - 1
                            /\ m.status = edge.status /\ m.start = edge.start /\ m.qty = edge.qty
      BY <1>6 DEF AgreeInv, SettledInv
    <2>2. m.seq > 0 /\ m.seq \in Nat /\ nextSeq["up"] \in Nat /\ cloud.seq \in Nat
      BY <1>3, <2>1 DEF AgreeInv, SettledInv, Reports, IsReport, Shape, Directions, Rows
    <2>3. m.seq <= cloud.seq /\ cloud.seq < nextSeq["up"]
      BY <1>1, <2>1 DEF NewestReportWins, Reports
    <2>4. m.seq = cloud.seq
      BY <2>1, <2>2, <2>3
    <2>5. cloud.status = m.status /\ cloud.start = m.start /\ cloud.qty = m.qty
      BY <1>1, <2>1, <2>4 DEF NewestReportWins
    <2>6. cloud.start # 0
      BY <1>6, <2>1, <2>5
    <2>7. /\ cloud.shift = edge.shift /\ cloud.asg = edge.asg
          /\ conflicts = IF edge.seq = n THEN 0 ELSE 1
      BY <1>2, <2>6 DEF AgreeInv, SettledInv
    <2> QED
      BY <1>4, <2>1, <2>5, <2>7 DEF Agree
  <1> QED
    BY <1>5, <1>6

\* With every message delivered the two tiers hold the same task, and a change
\* the edge refused is on record as one conflict: whatever changes, reports and
\* dead letters crossed, for an operator who uses the console, a clock that is
\* not set back, an assignment that is not set aside, and moves that do not lead
\* back to a shift the task has left.
THEOREM TiersReconciled ==
    Serial /\ ConsoleOnly /\ ~ClockMayRegress /\ "assigned" \notin MayFail /\ NeverBack
        => (Spec => []Reconciled)
  <1>1. CASE /\ Serial /\ ConsoleOnly /\ ~ClockMayRegress /\ "assigned" \notin MayFail
             /\ NeverBack
    <2>1. PICK rank \in [Shifts -> Nat] : OnwardBy(rank)
      BY <1>1 DEF NeverBack
    <2>2. Orderly(rank)
      BY <1>1, <2>1 DEF Orderly
    <2>3. Init => AgreeInv(rank)
      BY AgreeInit
    <2>4. TaskInv /\ AgreeInv(rank) /\ [Next]_vars => AgreeInv(rank)'
      BY <2>2, AgreeStep
    <2>5. TaskInv /\ AgreeInv(rank) => Reconciled
      BY <2>2, QuietAgrees DEF Reconciled, Converged, ConflictRecorded
    <2>6. Spec => []TaskInv
      BY <1>1, TaskCorrect
    <2> QED
      BY <2>3, <2>4, <2>5, <2>6, PTL DEF Spec
  <1>2. CASE ~(/\ Serial /\ ConsoleOnly /\ ~ClockMayRegress /\ "assigned" \notin MayFail
               /\ NeverBack)
    BY <1>2
  <1> QED
    BY <1>1, <1>2

=============================================================================

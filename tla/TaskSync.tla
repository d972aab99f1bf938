------------------------------ MODULE TaskSync ------------------------------
(***************************************************************************)
(* One task, kept twice: the cloud's row, which the admin assigns, moves   *)
(* and cancels, and the edge's row, which the operator starts and works    *)
(* on.  Each side queues a message with every change; the other side       *)
(* applies them.  Translated from app/cloud/assignment/service.py,         *)
(* app/edge/tasks/service.py, the tick pipeline and app/sync/handlers.     *)
(*                                                                         *)
(* Delivery is SyncDelivery seen from outside: a direction applies its     *)
(* messages one at a time, in the order (sim timestamp, sequence), at most *)
(* once; a message may be set aside as a dead letter and put back once.    *)
(*                                                                         *)
(* Every database transaction is a Begin action, which reads a row and     *)
(* computes its writes, and a Commit, which writes the columns the         *)
(* transaction changed, as the ORM does, over whatever the row has become. *)
(* A transaction that rolls back leaves no trace and is not modelled.      *)
(***************************************************************************)
EXTENDS Integers, FiniteSets

CONSTANTS
    Shifts,           \* shifts the task may be on
    Moves,            \* reassignments <<from, to>> the admin makes
    Serial,           \* TRUE: transactions never overlap
    ConsoleOnly,      \* TRUE: the operator only presses what the console offers
    ClockMayRegress,  \* the simulation clock may be set back
    MayFail,          \* kinds of messages that may become dead letters
    MaxTime,          \* bound: simulation timestamps
    MaxChanges,       \* bound: admin changes, the assignment included
    MaxReports,       \* bound: task_status messages
    MaxCycles,        \* bound: load cycles counted
    MaxDead           \* bound: dead letters

ASSUME TaskAssumption ==
    /\ Moves \subseteq Shifts \X Shifts
    /\ \A move \in Moves : move[1] # move[2]
    /\ Serial \in BOOLEAN /\ ConsoleOnly \in BOOLEAN /\ ClockMayRegress \in BOOLEAN
    /\ MayFail \subseteq {"assigned", "reassigned", "cancelled", "status"}
    /\ MaxTime \in Nat /\ MaxChanges \in Nat /\ MaxReports \in Nat
    /\ MaxCycles \in Nat /\ MaxDead \in Nat

Directions == {"down", "up"}     \* cloud_to_edge, edge_to_cloud
Actors == {"admin", "colleague", "operator", "tick"} \cup Directions
Statuses == {"none", "assigned", "in_progress", "paused", "blocked", "done", "cancelled"}

VARIABLES
    clock,      \* sim_now()
    cloud,      \* the cloud's task row; status "none" when there is none
    edge,       \* the edge's task row
    tx,         \* each actor's open transaction
    queue,      \* each direction's undelivered messages
    dead,       \* each direction's dead letters
    deadCount,  \* messages dead-lettered so far
    nextSeq,    \* each outbox's next sequence
    changes,    \* admin changes so far; numbers the assignments
    conflicts,  \* sync_conflict rows
    sent,       \* history: every task_status message queued
    refused     \* history: the edge ignored a change, having started the task

vars == <<clock, cloud, edge, tx, queue, dead, deadCount, nextSeq, changes,
          conflicts, sent, refused>>

-----------------------------------------------------------------------------
\* A row.  asg stands for the assignment fields other than the shift, start
\* for actual_start (0 when null), seq for edge_sync_seq or sync_seq.
NoShift == "no shift"
NoRow == [status |-> "none", shift |-> NoShift, asg |-> 0, start |-> 0,
          qty |-> 0, held |-> FALSE, seq |-> 0]

Idle == [open |-> FALSE]

StartedIsInProgress(row) == row.status = "in_progress"   \* mutant
Started(row) == row.start # 0 \/ row.status # "assigned"

\* What a transaction writes: the columns it changed from what it had read.
Merge(row, old, new) ==
    [f \in DOMAIN row |-> IF new[f] # old[f] THEN new[f] ELSE row[f]]

MayBegin(a) == ~tx[a].open /\ (Serial => \A b \in Actors : ~tx[b].open)

\* The head of a direction: sim timestamp, then sequence.
IsHead(dir, m) ==
    /\ m \in queue[dir]
    /\ \A n \in queue[dir] : n.at > m.at \/ (n.at = m.at /\ n.seq >= m.seq)

Enqueue(dir, m) ==
    /\ queue' = [queue EXCEPT ![dir] = @ \cup {m}]
    /\ nextSeq' = [nextSeq EXCEPT ![dir] = @ + 1]

Init ==
    /\ clock = 0
    /\ cloud = NoRow /\ edge = NoRow
    /\ tx = [a \in Actors |-> Idle]
    /\ queue = [dir \in Directions |-> {}]
    /\ dead = [dir \in Directions |-> {}]
    /\ deadCount = 0
    /\ nextSeq = [dir \in Directions |-> 1]
    /\ changes = 0 /\ conflicts = 0
    /\ sent = {} /\ refused = FALSE

-----------------------------------------------------------------------------
\* The cloud: create_task, cancel_task, reassign_task.

BeginAdmin(a, kind, new) ==
    /\ MayBegin(a)
    /\ changes < MaxChanges
    /\ changes' = changes + 1
    /\ tx' = [tx EXCEPT ![a] = [open |-> TRUE, kind |-> kind, old |-> cloud, new |-> new]]
    /\ UNCHANGED <<clock, cloud, edge, queue, dead, deadCount, nextSeq, conflicts,
                   sent, refused>>

BeginCreate(a, shift) ==
    /\ changes = 0
    /\ BeginAdmin(a, "assigned",
                  [NoRow EXCEPT !.status = "assigned", !.shift = shift, !.asg = changes + 1])

\* _get_unstarted_task
Unstarted(row) == row.status # "none" /\ ~Started(row)

BeginCancel(a) ==
    /\ Unstarted(cloud)
    /\ BeginAdmin(a, "cancelled", [cloud EXCEPT !.status = "cancelled"])

BeginReassign(a, shift) ==
    /\ Unstarted(cloud)
    /\ <<cloud.shift, shift>> \in Moves
    /\ BeginAdmin(a, "reassigned", [cloud EXCEPT !.shift = shift, !.asg = changes + 1])

\* The change and its message commit together.
CommitAdmin(a) ==
    /\ tx[a].open
    /\ cloud' = Merge(cloud, tx[a].old, tx[a].new)
    /\ Enqueue("down", [seq |-> nextSeq["down"], at |-> clock, kind |-> tx[a].kind,
                        shift |-> tx[a].new.shift, asg |-> tx[a].new.asg])
    /\ tx' = [tx EXCEPT ![a] = Idle]
    /\ UNCHANGED <<clock, edge, dead, deadCount, changes, conflicts, sent,
                   refused>>

-----------------------------------------------------------------------------
\* The edge: the operator's actions and the progress counted by ticks.

Allowed(action, status) ==   \* _ALLOWED of _action_to_status
    \/ action \in {"start", "resume", "unblock"} /\ status \in {"assigned", "paused", "blocked"}
    \/ action \in {"pause", "block", "complete"} /\ status = "in_progress"

Acted(row, action) ==
    CASE action = "start" -> [row EXCEPT !.status = "in_progress", !.start = @ + 1]
      [] action = "pause" -> [row EXCEPT !.status = "paused", !.held = TRUE]
      [] action = "block" -> [row EXCEPT !.status = "blocked", !.held = TRUE]
      [] action \in {"resume", "unblock"} ->
                             [row EXCEPT !.status = "in_progress", !.held = FALSE]
      [] action = "complete" -> [row EXCEPT !.status = "done"]

BeginEdge(a, new) ==
    /\ MayBegin(a)
    /\ nextSeq["up"] <= MaxReports
    /\ tx' = [tx EXCEPT ![a] = [open |-> TRUE, old |-> edge, new |-> new]]
    /\ UNCHANGED <<clock, cloud, edge, queue, dead, deadCount, nextSeq, changes,
                   conflicts, sent, refused>>

\* The buttons of the operator console (CurrentTaskPanel.tsx).
Offered(action, status) ==
    <<action, status>> \in {<<"start", "assigned">>, <<"pause", "in_progress">>,
        <<"block", "in_progress">>, <<"complete", "in_progress">>,
        <<"resume", "paused">>, <<"unblock", "blocked">>}

BeginOperator(action) ==
    /\ ConsoleOnly => Offered(action, edge.status)
    /\ Allowed(action, edge.status)
    /\ BeginEdge("operator", Acted(edge, action))

BeginTick ==   \* process: one load cycle of a task in progress
    /\ edge.status = "in_progress" /\ edge.qty < MaxCycles
    /\ BeginEdge("tick", [edge EXCEPT !.qty = @ + 1])

\* queue_task_status reports the transaction's own copy of the row.
Report(row) ==
    [seq |-> nextSeq["up"], at |-> clock, kind |-> "status", status |-> row.status,
     shift |-> row.shift, asg |-> row.asg, start |-> row.start, qty |-> row.qty]

CommitEdge(a) ==
    /\ tx[a].open
    /\ edge' = Merge(edge, tx[a].old, tx[a].new)
    /\ Enqueue("up", Report(tx[a].new))
    /\ sent' = sent \cup {Report(tx[a].new)}
    /\ tx' = [tx EXCEPT ![a] = Idle]
    /\ UNCHANGED <<clock, cloud, dead, deadCount, changes, conflicts, refused>>

-----------------------------------------------------------------------------
\* Applying a cloud message on the edge.

AlwaysNewer(row, m) == TRUE   \* mutant
Newer(row, m) == m.seq > row.seq

\* apply_task_assignment: the first message creates the row.
Assigned(row, m) ==
    IF row.status = "none"
    THEN [NoRow EXCEPT !.status = "assigned", !.shift = m.shift, !.asg = m.asg, !.seq = m.seq]
    ELSE IF Newer(row, m) /\ ~Started(row)
         THEN [row EXCEPT !.shift = m.shift, !.asg = m.asg, !.seq = m.seq]
         ELSE row

\* apply_task_cancelled: nothing is left behind for a task not here yet.
Cancelled(row, m) ==
    IF row.status # "none" /\ Newer(row, m) /\ ~Started(row)
    THEN [row EXCEPT !.status = "cancelled", !.seq = m.seq]
    ELSE row

FromCloud(row, m) == IF m.kind = "cancelled" THEN Cancelled(row, m) ELSE Assigned(row, m)

-----------------------------------------------------------------------------
\* Applying a task_status message in the cloud: apply_task_status.

ConflictOnCancelOnly(row, m) == m.start # 0 /\ row.status = "cancelled"   \* mutant
Conflict(row, m) == m.start # 0 /\ (row.status = "cancelled" \/ row.shift # m.shift)

SkipCancelled(row, m) == row.status \notin {"none", "cancelled"} /\ Newer(row, m)   \* mutant
IsNews(row, m) == row.status # "none" /\ Newer(row, m)

FromEdge(row, m) ==
    IF ~IsNews(row, m) THEN row
    ELSE LET assigned == IF Conflict(row, m)
                         THEN [row EXCEPT !.shift = m.shift, !.asg = m.asg] ELSE row
         IN  [assigned EXCEPT !.status = m.status, !.start = m.start, !.qty = m.qty,
                              !.seq = m.seq]

-----------------------------------------------------------------------------
\* Delivery.

Receiver(dir) == IF dir = "down" THEN edge ELSE cloud

BeginApply(dir) ==
    /\ MayBegin(dir)
    /\ \E m \in queue[dir] :
          /\ IsHead(dir, m)
          /\ LET row == Receiver(dir)
                 new == IF dir = "down" THEN FromCloud(row, m) ELSE FromEdge(row, m)
             IN  tx' = [tx EXCEPT ![dir] =
                           [open |-> TRUE, msg |-> m, old |-> row, new |-> new]]
    /\ UNCHANGED <<clock, cloud, edge, queue, dead, deadCount, nextSeq, changes,
                   conflicts, sent, refused>>

CommitApply(dir) ==
    /\ tx[dir].open
    /\ LET t == tx[dir] IN
        /\ IF dir = "down"
           THEN /\ edge' = Merge(edge, t.old, t.new)
                /\ refused' = (refused \/ (Newer(t.old, t.msg) /\ t.old.start # 0))
                /\ UNCHANGED <<cloud, conflicts>>
           ELSE /\ cloud' = Merge(cloud, t.old, t.new)
                /\ conflicts' = IF IsNews(t.old, t.msg) /\ Conflict(t.old, t.msg)
                                THEN conflicts + 1 ELSE conflicts
                /\ UNCHANGED <<edge, refused>>
        /\ queue' = [queue EXCEPT ![dir] = @ \ {t.msg}]
    /\ tx' = [tx EXCEPT ![dir] = Idle]
    /\ UNCHANGED <<clock, dead, deadCount, nextSeq, changes, sent>>

\* The head has failed for the whole window: later messages continue.
DeadLetter(dir) ==
    /\ deadCount < MaxDead
    /\ ~tx[dir].open
    /\ \E m \in queue[dir] :
          /\ m.kind \in MayFail /\ IsHead(dir, m)
          /\ queue' = [queue EXCEPT ![dir] = @ \ {m}]
          /\ dead' = [dead EXCEPT ![dir] = @ \cup {m}]
    /\ deadCount' = deadCount + 1
    /\ UNCHANGED <<clock, cloud, edge, tx, nextSeq, changes, conflicts, sent, refused>>

\* retry_dead_letter, the first time: same timestamp, original sequence.
Retry(dir, m) ==
    /\ m \in dead[dir]
    /\ dead' = [dead EXCEPT ![dir] = @ \ {m}]
    /\ queue' = [queue EXCEPT ![dir] = @ \cup {m}]
    /\ UNCHANGED <<clock, cloud, edge, tx, deadCount, nextSeq, changes, conflicts,
                   sent, refused>>

SetClock(t) ==
    /\ t # clock /\ (t > clock \/ ClockMayRegress)
    /\ clock' = t
    /\ UNCHANGED <<cloud, edge, tx, queue, dead, deadCount, nextSeq, changes,
                   conflicts, sent, refused>>

-----------------------------------------------------------------------------
Admins == {"admin", "colleague"}
OperatorActions == {"start", "pause", "resume", "block", "unblock", "complete"}

Commit(a) ==
    \/ a \in Admins /\ CommitAdmin(a)
    \/ a \in {"operator", "tick"} /\ CommitEdge(a)
    \/ a \in Directions /\ CommitApply(a)

Next ==
    \/ \E t \in 0 .. MaxTime : SetClock(t)
    \/ \E a \in Admins, s \in Shifts : BeginCreate(a, s) \/ BeginReassign(a, s)
    \/ \E a \in Admins : BeginCancel(a)
    \/ \E action \in OperatorActions : BeginOperator(action)
    \/ BeginTick
    \/ \E a \in Actors : Commit(a)
    \/ \E dir \in Directions :
          \/ BeginApply(dir) \/ DeadLetter(dir)
          \/ \E m \in dead[dir] : Retry(dir, m)

Spec == Init /\ [][Next]_vars

\* Open transactions finish and the sync worker keeps delivering.  Nobody has
\* to act, and no dead letter has to be retried.
FairSpec ==
    /\ Spec
    /\ \A a \in Actors : WF_vars(Commit(a))
    /\ \A dir \in Directions : WF_vars(BeginApply(dir))

-----------------------------------------------------------------------------
Rows == [status : Statuses, shift : Shifts \cup {NoShift}, asg : Nat, start : Nat,
         qty : Nat, held : BOOLEAN, seq : Nat]

TypeOK ==
    /\ clock \in 0 .. MaxTime
    /\ cloud \in Rows /\ edge \in Rows
    /\ DOMAIN tx = Actors
    /\ \A a \in Actors : tx[a].open => tx[a].old \in Rows /\ tx[a].new \in Rows
    /\ \A m \in queue["down"] \cup dead["down"] :
            /\ m.kind \in {"assigned", "reassigned", "cancelled"}
            /\ m.seq \in 1 .. MaxChanges /\ m.at \in 0 .. MaxTime
            /\ m.shift \in Shifts /\ m.asg \in 1 .. MaxChanges
    /\ queue["up"] \cup dead["up"] \subseteq sent
    /\ \A m \in sent :
            /\ m.status \in Statuses \ {"none", "assigned", "cancelled"}
            /\ m.seq \in 1 .. nextSeq["up"] - 1 /\ m.at \in 0 .. MaxTime
    /\ changes \in 0 .. MaxChanges /\ deadCount \in 0 .. MaxDead
    /\ conflicts \in Nat /\ refused \in BOOLEAN

Quiet ==
    /\ \A a \in Actors : ~tx[a].open
    /\ \A dir \in Directions : queue[dir] = {} /\ dead[dir] = {}

\* What a cancelled task was assigned to no longer matters: a move that comes
\* after the cancellation is skipped.
Agree ==
    /\ cloud.status = edge.status
    /\ cloud.status # "cancelled" =>
          /\ cloud.shift = edge.shift /\ cloud.asg = edge.asg
          /\ cloud.start = edge.start /\ cloud.qty = edge.qty

\* With every message delivered, both tiers hold the same task: status,
\* assignment, start and progress, whoever changed what first.
Converged == Quiet => Agree

\* A change the edge refused because the task had started is rolled back in
\* the cloud with one sync_conflict; nothing else records one.
ConflictRecorded == Quiet => conflicts = IF refused THEN 1 ELSE 0

\* Both.
Reconciled == Converged /\ ConflictRecorded

\* Once a task has started the edge owns it: no cloud message moves, changes
\* or cancels it (cloud_to_edge.py: "assignment changes for a started task are
\* ignored here").
EdgeOwnsStarted ==
    [][edge.start # 0 => /\ edge'.shift = edge.shift /\ edge'.asg = edge.asg
                         /\ edge'.status # "cancelled"]_vars

\* The last task_status queued says what the edge's row says: no transaction
\* reports a state another one has already left.
ReportsAreCurrent ==
    \A m \in sent : m.seq = nextSeq["up"] - 1 =>
        m.status = edge.status /\ m.start = edge.start /\ m.qty = edge.qty

\* The cloud holds the newest report applied to it, also when reports come in
\* the wrong order.
NewestReportWins ==
    \A m \in sent \ (queue["up"] \cup dead["up"]) :
        /\ m.seq <= cloud.seq
        /\ m.seq = cloud.seq =>
              cloud.status = m.status /\ cloud.start = m.start /\ cloud.qty = m.qty

\* The admin changes only what has not started, as far as the cloud knows when
\* the change commits (_get_unstarted_task: "Only tasks that have not started
\* can be changed").
OnlyUnstartedChanged ==
    [][\A a \in Admins :
          tx[a].open /\ ~tx'[a].open /\ tx[a].kind # "assigned" =>
                cloud.status = "assigned" /\ cloud.start = 0]_vars

\* actual_start is set when the task leaves assigned, and never again
\* (tasks/service.py: "assigned -> in_progress (start)").
StartedOnce ==
    /\ edge.start <= 1
    /\ edge.status \in {"in_progress", "paused", "blocked", "done"} => edge.start # 0

\* Reports tell of one start, and the newest of them is what the cloud holds.
ReportsRight == NewestReportWins /\ StartedOnce

\* Once no dead letter is left behind, the two tiers end up agreeing, and stay so.
EventuallyAgree == <>[](\A dir \in Directions : dead[dir] = {}) => <>[]Agree

=============================================================================

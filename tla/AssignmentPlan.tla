--------------------------- MODULE AssignmentPlan ---------------------------
(***************************************************************************)
(* The cloud's plan: shifts book an operator and a machine for a window,   *)
(* tasks take slots of a shift.  Requests of several admins run at once:   *)
(* each reads the tables, applies the rules of validation.py to what it    *)
(* read, and only then writes.  Nothing is locked in between, and the sync *)
(* worker applies the edge's reports to the same rows.  Translated from    *)
(* app/cloud/assignment/ and the admin routes.                             *)
(*                                                                         *)
(* A request reads the tables in several queries.  Two instants matter:    *)
(* when it reads the task it is to change and when it reads the slots it   *)
(* must not overlap.  Reading everything else at these instants allows     *)
(* more behaviours, never fewer.  Delivery is SyncDelivery seen from       *)
(* outside: each task's messages arrive once and in order.                 *)
(***************************************************************************)
EXTENDS Integers, Sequences, FiniteSets

CONSTANTS
    Operators, Machines,
    Shifts, Tasks,       \* identifiers of the rows to be created
    Bookers, Planners,   \* handlers of shift requests and of task requests
    TypeOf,              \* machine -> machine type
    Skill,               \* operator -> (type the operator qualifies on -> level)
    InMaintenance,       \* machines in maintenance
    TaskType,            \* task -> task type
    Unit,                \* task -> quantity unit of the request
    Asked,               \* shifts the admins ask for
    Starts,              \* task starts the admins ask for
    Minutes,             \* <<task, operator, machine>> -> planning ETA
    MaxRequests          \* bound: task requests

Booking == [op : Operators, mach : Machines, from : Int, to : Int]

ASSUME PlanAssumption ==
    /\ TypeOf \in [Machines -> {"excavator", "wheel_loader", "backhoe_loader"}]
    /\ DOMAIN Skill = Operators
    /\ TaskType \in [Tasks -> {"excavation", "material_loading", "trenching"}]
    /\ Asked \subseteq Booking
    /\ Starts \subseteq Int
    /\ Minutes \in [Tasks \X Operators \X Machines -> Nat \ {0}]
    /\ MaxRequests \in Nat

VARIABLES
    shifts,      \* cloud.shift
    tasks,       \* cloud.task
    booking,     \* the shift request each booker is handling
    placing,     \* the task request each planner is handling
    conflict,    \* task -> "none", "open" or "resolved"
    down,        \* undelivered messages of each task
    edge,        \* the edge's task rows
    reports,     \* tasks whose start the edge has reported and the cloud not read
    applying,    \* task -> the row the worker read to apply the report
    requests,    \* task requests so far
    raced        \* history: pairs of rows whose requests overlapped

vars == <<shifts, tasks, booking, placing, conflict, down, edge, reports,
          applying, requests, raced>>
edgeVars == <<down, edge, reports, applying>>

-----------------------------------------------------------------------------
\* The rules.

TASK_MACHINE_COMPAT ==
    [excavation |-> {"excavator", "backhoe_loader"},
     material_loading |-> {"excavator", "wheel_loader", "backhoe_loader"},
     trenching |-> {"excavator", "backhoe_loader"}]

TASK_UNIT == [excavation |-> "m3", material_loading |-> "loads", trenching |-> "m3"]

Overlaps(from, to, slot) == from < slot.to /\ slot.from < to           \* _overlaps

NoShift == [op |-> "none", mach |-> "none", from |-> 0, to |-> 0]
NoTask == [status |-> "none", shift |-> "none", skill |-> "none", from |-> 0, to |-> 0]
Idle == [step |-> "idle"]
WithStatus(row, status) ==
    [status |-> status, shift |-> row.shift, skill |-> row.skill, from |-> row.from, to |-> row.to]

Booked == {s \in Shifts : shifts[s] # NoShift}

Qualified(op, mach) == TypeOf[mach] \in DOMAIN Skill[op]
Available(mach) == mach \notin InMaintenance
Compatible(t, mach) == TypeOf[mach] \in TASK_MACHINE_COMPAT[TaskType[t]]

OperatorOnly(b, s) ==   \* mutant
    shifts[s].op = b.op /\ Overlaps(b.from, b.to, shifts[s])
\* A slot _shift_slots finds for the operator or for the machine.
Clashes(b, s) ==
    /\ shifts[s].op = b.op \/ shifts[s].mach = b.mach
    /\ Overlaps(b.from, b.to, shifts[s])

Active(t) == tasks[t].status \notin {"none", "cancelled"}

\* _active_tasks, without the task that is being placed
Others(t, s) == {u \in Tasks \ {t} : Active(u) /\ tasks[u].shift = s}

\* _next_free_start
NextFreeStart(s, ts) ==
    CHOOSE e \in {shifts[s].from} \cup {tasks[u].to : u \in ts} :
        e >= shifts[s].from /\ \A u \in ts : e >= tasks[u].to

\* _task_slot and estimate_at_assignment: start and start + planning ETA.
Slot(t, s, start) ==
    [status |-> "assigned", shift |-> s,
     skill |-> Skill[shifts[s].op][TypeOf[shifts[s].mach]], from |-> start,
     to |-> start + Minutes[<<t, shifts[s].op, shifts[s].mach>>]]

-----------------------------------------------------------------------------
Init ==
    /\ shifts = [s \in Shifts |-> NoShift]
    /\ tasks = [t \in Tasks |-> NoTask]
    /\ booking = [a \in Bookers |-> Idle]
    /\ placing = [a \in Planners |-> Idle]
    /\ conflict = [t \in Tasks |-> "none"]
    /\ down = [t \in Tasks |-> <<>>]
    /\ edge = [t \in Tasks |-> NoTask]
    /\ reports = {}
    /\ applying = [t \in Tasks |-> NoTask]
    /\ requests = 0 /\ raced = {}

-----------------------------------------------------------------------------
\* create_shift: the rules, then the row.

CheckShift(a, s, b) ==
    /\ booking[a] = Idle
    /\ shifts[s] = NoShift
    /\ \A c \in Bookers : booking[c] # Idle => booking[c].id # s
    /\ b.from < b.to
    /\ Qualified(b.op, b.mach)
    /\ Available(b.mach)
    /\ \A x \in Booked : ~Clashes(b, x)
    /\ booking' = [booking EXCEPT ![a] = [step |-> "write", id |-> s, row |-> b]]
    /\ UNCHANGED <<shifts, tasks, placing, conflict, raced, edgeVars, requests>>

InsertShift(a) ==
    /\ booking[a] # Idle
    /\ LET s == booking[a].id
           open == {booking[c].id : c \in {d \in Bookers \ {a} : booking[d] # Idle}}
       IN  /\ shifts' = [shifts EXCEPT ![s] = booking[a].row]
           /\ raced' = raced \cup {<<s, x>> : x \in open} \cup {<<x, s>> : x \in open}
    /\ booking' = [booking EXCEPT ![a] = Idle]
    /\ UNCHANGED <<tasks, placing, conflict, edgeVars, requests>>

-----------------------------------------------------------------------------
\* create_task, cancel_task and reassign_task.

Unstarted(row) == row.status = "assigned"                         \* _get_unstarted_task

BeginRequest(a) ==
    /\ placing[a] = Idle
    /\ requests < MaxRequests
    /\ requests' = requests + 1

\* A new task: its unit and its shift are checked, its slot is not looked at yet.
BeginCreate(a, t, s) ==
    /\ BeginRequest(a)
    /\ tasks[t] = NoTask
    /\ \A b \in Planners : placing[b] # Idle => placing[b].id # t
    /\ Unit[t] = TASK_UNIT[TaskType[t]]
    /\ s \in Booked
    /\ placing' = [placing EXCEPT ![a] =
                      [step |-> "place", kind |-> "create", id |-> t, to |-> s, old |-> NoTask]]
    /\ UNCHANGED <<shifts, tasks, booking, conflict, raced, edgeVars>>

BeginReassign(a, t, s) ==
    /\ BeginRequest(a)
    /\ Unstarted(tasks[t])
    /\ tasks[t].shift # s
    /\ s \in Booked
    /\ placing' = [placing EXCEPT ![a] =
                      [step |-> "place", kind |-> "reassign", id |-> t, to |-> s, old |-> tasks[t]]]
    /\ UNCHANGED <<shifts, tasks, booking, conflict, raced, edgeVars>>

BeginCancel(a, t) ==
    /\ BeginRequest(a)
    /\ Unstarted(tasks[t])
    /\ placing' = [placing EXCEPT ![a] =
                      [step |-> "write", kind |-> "cancel", id |-> t, old |-> tasks[t],
                       new |-> WithStatus(tasks[t], "cancelled")]]
    /\ UNCHANGED <<shifts, tasks, booking, conflict, raced, edgeVars>>

\* _place_task, at the instant it reads the shift's other tasks.  start is what
\* the admin asked for, or the default.
Fits(t, s, start) ==
    /\ Qualified(shifts[s].op, shifts[s].mach)
    /\ Compatible(t, shifts[s].mach)
    /\ Available(shifts[s].mach)
    /\ shifts[s].from <= start /\ start < shifts[s].to
    /\ \A u \in Others(t, s) :
           ~Overlaps(start, start + Minutes[<<t, shifts[s].op, shifts[s].mach>>], tasks[u])

PlaceTask(a, start) ==
    /\ placing[a].step = "place"
    /\ LET r == placing[a]
       IN  placing' = [placing EXCEPT ![a] =
               IF Fits(r.id, r.to, start)
               THEN [step |-> "write", kind |-> r.kind, id |-> r.id, old |-> r.old,
                     new |-> Slot(r.id, r.to, start)]
               ELSE Idle]
    /\ UNCHANGED <<shifts, tasks, booking, conflict, raced, edgeVars, requests>>

PlaceByDefault(a) ==
    /\ placing[a].step = "place"
    /\ PlaceTask(a, NextFreeStart(placing[a].to, Others(placing[a].id, placing[a].to)))

\* The UPDATE sets the columns the request changed.
Merge(row, old, new) ==
    [f \in DOMAIN row |-> IF new[f] # old[f] THEN new[f] ELSE row[f]]

\* Requests that overlap the write of t: those that read t, and, when a slot is
\* written, those that have looked for overlaps already.
OpenOn(t, a) == {b \in Planners \ {a} : placing[b] # Idle /\ placing[b].id = t}
Looked(a) == {b \in Planners \ {a} : placing[b].step = "write" /\ placing[b].kind # "cancel"}

WriteTask(a) ==
    /\ placing[a].step = "write"
    /\ LET r == placing[a]
           t == r.id
           open == {placing[b].id : b \in IF r.kind = "cancel" THEN {} ELSE Looked(a)}
           selfRace == OpenOn(t, a) # {} \/ applying[t] # NoTask
       IN  /\ tasks' = [tasks EXCEPT ![t] = Merge(@, r.old, r.new)]
           /\ down' = [down EXCEPT ![t] = Append(@, r.new)]
           /\ raced' = raced \cup {<<t, u>> : u \in open} \cup {<<u, t>> : u \in open}
                             \cup (IF selfRace THEN {<<t, t>>} ELSE {})
    /\ placing' = [placing EXCEPT ![a] = Idle]
    /\ UNCHANGED <<shifts, booking, conflict, edge, reports, applying, requests>>

\* resolve_conflict: the admin has seen it.  The rows stay as they are.
ResolveConflict(t) ==
    /\ conflict[t] = "open"
    /\ conflict' = [conflict EXCEPT ![t] = "resolved"]
    /\ UNCHANGED <<shifts, tasks, booking, placing, raced, edgeVars, requests>>

-----------------------------------------------------------------------------
\* The edge and the worker, as far as the plan sees them.

\* apply_task_assignment and apply_task_cancelled: a started task stays.
Deliver(t) ==
    /\ down[t] # <<>>
    /\ edge' = [edge EXCEPT ![t] = IF @.status = "in_progress" THEN @
                                   ELSE IF Head(down[t]).status = "cancelled"
                                        THEN WithStatus(@, "cancelled")
                                   ELSE IF @.status = "cancelled" THEN @
                                   ELSE Head(down[t])]
    /\ down' = [down EXCEPT ![t] = Tail(@)]
    /\ UNCHANGED <<shifts, tasks, booking, placing, conflict, reports, applying,
                   raced, requests>>

EdgeStart(t) ==
    /\ edge[t].status = "assigned"
    /\ edge' = [edge EXCEPT ![t] = WithStatus(@, "in_progress")]
    /\ reports' = reports \cup {t}
    /\ UNCHANGED <<shifts, tasks, booking, placing, conflict, down, applying,
                   raced, requests>>

ReadReport(t) ==
    /\ t \in reports
    /\ reports' = reports \ {t}
    /\ applying' = [applying EXCEPT ![t] = tasks[t]]
    /\ UNCHANGED <<shifts, tasks, booking, placing, conflict, down, edge, raced, requests>>

CancelledOnly(row, t) == row.status = "cancelled"   \* mutant
Conflicting(row, t) == row.status = "cancelled" \/ row.shift # edge[t].shift   \* _conflict_type

\* apply_task_status: on a conflict the assignment the edge works to comes back.
WriteReport(t) ==
    /\ applying[t] # NoTask
    /\ LET old == applying[t]
           new == IF Conflicting(old, t) THEN edge[t]
                                         ELSE WithStatus(old, "in_progress")
       IN  /\ tasks' = [tasks EXCEPT ![t] = Merge(@, old, new)]
           /\ conflict' = [conflict EXCEPT ![t] = IF Conflicting(old, t) THEN "open" ELSE @]
    /\ raced' = raced \cup (IF \E a \in Planners : placing[a] # Idle /\ placing[a].id = t
                            THEN {<<t, t>>} ELSE {})
    /\ applying' = [applying EXCEPT ![t] = NoTask]
    /\ UNCHANGED <<shifts, booking, placing, down, edge, reports, requests>>

-----------------------------------------------------------------------------
Next ==
    \/ \E a \in Bookers :
          \/ \E s \in Shifts, b \in Asked : CheckShift(a, s, b)
          \/ InsertShift(a)
    \/ \E a \in Planners :
          \/ \E t \in Tasks, s \in Shifts : BeginCreate(a, t, s)
          \/ \E t \in Tasks, s \in Shifts : BeginReassign(a, t, s)
          \/ \E t \in Tasks : BeginCancel(a, t)
          \/ \E start \in Starts : PlaceTask(a, start)
          \/ PlaceByDefault(a)
          \/ WriteTask(a)
    \/ \E t \in Tasks :
          \/ ResolveConflict(t)
          \/ Deliver(t)
          \/ EdgeStart(t)
          \/ ReadReport(t)
          \/ WriteReport(t)

Spec == Init /\ [][Next]_vars
-----------------------------------------------------------------------------
\* Two shifts that share the operator or the machine overlap only when their
\* requests did: each had checked the plan before the other committed.
BookingsExplained ==
    \A s, x \in Booked :
        /\ s # x
        /\ shifts[s].op = shifts[x].op \/ shifts[s].mach = shifts[x].mach
        /\ Overlaps(shifts[s].from, shifts[s].to, shifts[x])
        => <<s, x>> \in raced

\* The row of t was never written by two transactions at once, nor put back by
\* a conflict.
Undisturbed(t) == <<t, t>> \notin raced /\ conflict[t] = "none"

\* Two tasks of a shift overlap only when the requests that placed them did, or
\* when one of them came back through a conflict or was written by two
\* transactions at once.
SlotsExplained ==
    \A t, u \in Tasks :
        /\ t # u /\ Active(t) /\ Active(u)
        /\ tasks[t].shift = tasks[u].shift
        /\ Overlaps(tasks[t].from, tasks[t].to, tasks[u])
        /\ Undisturbed(t) /\ Undisturbed(u)
        => <<t, u>> \in raced

\* An undisturbed task starts within its shift, on a machine that can do it, has
\* the skill of that shift's operator and ends after the ETA of that operator.
PlanFits ==
    \A t \in Tasks :
        Active(t) /\ Undisturbed(t) =>
            LET s == tasks[t].shift IN
            /\ s \in Booked
            /\ shifts[s].from <= tasks[t].from /\ tasks[t].from < shifts[s].to
            /\ Compatible(t, shifts[s].mach) /\ Available(shifts[s].mach)
            /\ tasks[t].skill = Skill[shifts[s].op][TypeOf[shifts[s].mach]]
            /\ tasks[t].to = tasks[t].from + Minutes[<<t, shifts[s].op, shifts[s].mach>>]

\* What only requests that overlapped may do to a plan, and nothing to a task they
\* left alone.
PlanExplained == BookingsExplained /\ SlotsExplained /\ PlanFits

\* Once the cloud knows a task has started, it has it on the shift the edge
\* works on, unless a request had read the task before the start was applied.
StartedAgrees ==
    \A t \in Tasks :
        tasks[t].status = "in_progress" /\ <<t, t>> \notin raced
            => tasks[t].shift = edge[t].shift /\ edge[t].status = "in_progress"
=============================================================================

------------------------ MODULE AssignmentPlanProofs ------------------------
(***************************************************************************)
(* What requests of several admins and the edge's reports can do to the    *)
(* plan, for any number of operators, machines, shifts, tasks and requests *)
(* at once.                                                                *)
(*                                                                         *)
(* The invariant says what an open request or report still knows: as long  *)
(* as no other transaction has overlapped its own on the row, the row it   *)
(* read is the row it will write; and every shift or slot that conflicts   *)
(* with the one it is about to write was written by a request it           *)
(* overlapped.                                                             *)
(***************************************************************************)
EXTENDS AssignmentPlan, TLAPS

Clean(t) == <<t, t>> \notin raced
Fields == {"status", "shift", "skill", "from", "to"}

Shape ==
    /\ DOMAIN shifts = Shifts /\ DOMAIN booking = Bookers /\ DOMAIN placing = Planners
    /\ DOMAIN tasks = Tasks /\ DOMAIN conflict = Tasks
    /\ DOMAIN edge = Tasks /\ DOMAIN applying = Tasks
    /\ \A t \in Tasks : DOMAIN tasks[t] = Fields

\* Open shift requests have their own rows, and conflict with no booked shift that
\* was not written while they were open.
FreeOf(s, row) == \A x \in Booked : Clashes(row, x) => <<s, x>> \in raced /\ <<x, s>> \in raced
OpenBooking(r) == r.id \in Shifts /\ shifts[r.id] = NoShift /\ FreeOf(r.id, r.row)
Bookings == \A a \in Bookers : \A r : r = booking[a] /\ r # Idle => OpenBooking(r)
OwnRows ==
    \A a, c \in Bookers :
        a # c /\ booking[a] # Idle /\ booking[c] # Idle => booking[a].id # booking[c].id

\* A row fits its shift.
Fitting(t, r) ==
    LET s == r.shift IN
    /\ s \in Booked
    /\ shifts[s].from <= r.from /\ r.from < shifts[s].to
    /\ Compatible(t, shifts[s].mach) /\ Available(shifts[s].mach)
    /\ r.skill = Skill[shifts[s].op][TypeOf[shifts[s].mach]]
    /\ r.to = r.from + Minutes[<<t, shifts[s].op, shifts[s].mach>>]

\* A slot conflicts with no undisturbed task whose request it did not overlap.
Placed(t, r) ==
    \A u \in Tasks \ {t} :
        Active(u) /\ Undisturbed(u) /\ tasks[u].shift = r.shift /\ Overlaps(r.from, r.to, tasks[u])
            => <<t, u>> \in raced /\ <<u, t>> \in raced

Placing(r) ==
    /\ r.step = "place"
    /\ r.id \in Tasks /\ r.to \in Booked
    /\ r.kind \in {"create", "reassign"}

Writing(r) ==
    /\ r.step = "write"
    /\ r.id \in Tasks
    /\ IF r.kind = "cancel" THEN r.new.status = "cancelled"
       ELSE r.new.status = "assigned" /\ Fitting(r.id, r.new) /\ Placed(r.id, r.new)

OpenRequest(r) == r = Idle \/ Placing(r) \/ Writing(r)
Opened == \A a \in Planners : \A r : r = placing[a] => OpenRequest(r)

\* What an open request, or report, has read is still there.
StillThere(r) == r # Idle /\ Clean(r.id) => tasks[r.id] = r.old
Seen == \A a \in Planners : \A r : r = placing[a] => StillThere(r)
Read == \A t \in Tasks : applying[t] # NoTask /\ Clean(t) => tasks[t] = applying[t]

Running ==
    \A t \in Tasks : t \in reports \/ applying[t] # NoTask => edge[t].status = "in_progress"
Unknown == \A t \in Tasks : tasks[t].status = "none" /\ Clean(t) => tasks[t] = NoTask

PlanInv ==
    /\ Shape /\ Bookings /\ OwnRows /\ Opened /\ Seen /\ Read /\ Running /\ Unknown
    /\ PlanExplained /\ StartedAgrees

LEMMA PlanInit == Init => PlanInv
  <1> SUFFICES ASSUME Init PROVE PlanInv
    OBVIOUS
  <1> USE DEF Init
  <1>1. Shape
    BY DEF Shape, Fields, NoTask
  <1>2. Booked = {} /\ \A t \in Tasks : ~Active(t)
    BY DEF Booked, Active, NoTask
  <1>3. Bookings /\ OwnRows /\ Opened /\ Seen
    BY DEF Bookings, OwnRows, Opened, OpenRequest, Seen, StillThere
  <1>4. Read /\ Running /\ Unknown
    BY DEF Read, Running, Unknown
  <1>5. PlanExplained /\ StartedAgrees
    BY <1>2 DEF PlanExplained, BookingsExplained, SlotsExplained, PlanFits, StartedAgrees, NoTask
  <1> QED
    BY <1>1, <1>3, <1>4, <1>5 DEF PlanInv

\* The columns after an UPDATE of the row that was read.
LEMMA MergeKeeps ==
    ASSUME NEW row, NEW new, DOMAIN row = Fields
    PROVE  /\ DOMAIN Merge(row, row, new) = Fields
           /\ Merge(row, row, new).status = new.status
           /\ Merge(row, row, new).shift = new.shift
           /\ Merge(row, row, new).skill = new.skill
           /\ Merge(row, row, new).from = new.from
           /\ Merge(row, row, new).to = new.to
  BY DEF Merge, Fields
LEMMA MergeDomain ==
    ASSUME NEW row, NEW old, NEW new PROVE DOMAIN Merge(row, old, new) = DOMAIN row
  BY DEF Merge
-----------------------------------------------------------------------------
\* What only depends on the two tables, the conflicts and the history.
LEMMA PlanFrame ==
    ASSUME PlanExplained, UNCHANGED <<shifts, tasks, conflict, raced>>
    PROVE  /\ PlanExplained'
           /\ Booked' = Booked
           /\ \A t : Clean(t)' <=> Clean(t)
           /\ \A s, row : FreeOf(s, row)' <=> FreeOf(s, row)
           /\ \A t, r : Fitting(t, r)' <=> Fitting(t, r)
           /\ \A t, r : Placed(t, r)' <=> Placed(t, r)
  <1>1. Booked' = Booked
    BY DEF Booked
  <1>2. \A t : (Clean(t)' <=> Clean(t)) /\ (Undisturbed(t)' <=> Undisturbed(t))
    BY DEF Clean, Undisturbed
  <1>3. \A t : Active(t)' <=> Active(t)
    BY DEF Active
  <1>4. \A s, row : FreeOf(s, row)' <=> FreeOf(s, row)
    BY <1>1 DEF FreeOf, Clashes
  <1>5. \A t, r : Fitting(t, r)' <=> Fitting(t, r)
    BY <1>1 DEF Fitting
  <1>6. \A t, r : Placed(t, r)' <=> Placed(t, r)
    BY <1>2, <1>3 DEF Placed
  <1>7. BookingsExplained' /\ SlotsExplained' /\ PlanFits'
    BY <1>1, <1>2, <1>3 DEF PlanExplained, BookingsExplained, SlotsExplained, PlanFits
  <1> QED
    BY <1>1, <1>2, <1>4, <1>5, <1>6, <1>7 DEF PlanExplained

\* A request that is opened, placed or given up.
LEMMA RequestStep ==
    ASSUME PlanInv, NEW a \in Planners, NEW q, placing' = [placing EXCEPT ![a] = q],
           UNCHANGED <<shifts, tasks, booking, conflict, raced, edge, reports, applying>>,
           OpenRequest(q), StillThere(q)
    PROVE  PlanInv'
  <1> USE DEF PlanInv
  <1>1. Shape' /\ Bookings' /\ OwnRows' /\ PlanExplained'
    BY PlanFrame DEF Shape, Bookings, OpenBooking, OwnRows
  <1>2. Read' /\ Running' /\ Unknown' /\ StartedAgrees'
    BY PlanFrame DEF Read, Running, Unknown, StartedAgrees
  <1>3. \A r : (OpenRequest(r)' <=> OpenRequest(r)) /\ (StillThere(r)' <=> StillThere(r))
    BY PlanFrame DEF OpenRequest, Placing, Writing, StillThere
  <1>4. \A b \in Planners : placing'[b] = q \/ placing'[b] = placing[b]
    BY DEF Shape
  <1>5. Opened' /\ Seen'
    BY <1>3, <1>4 DEF Opened, Seen
  <1> QED
    BY <1>1, <1>2, <1>5

LEMMA PlaceTaskStep ==
    ASSUME PlanInv, NEW a \in Planners, NEW start, PlaceTask(a, start) PROVE PlanInv'
  <1> DEFINE r == placing[a]
             q == IF Fits(r.id, r.to, start)
                  THEN [step |-> "write", kind |-> r.kind, id |-> r.id, old |-> r.old,
                        new |-> Slot(r.id, r.to, start)]
                  ELSE Idle
  <1>1. placing' = [placing EXCEPT ![a] = q]
    BY DEF PlaceTask
  <1>2. UNCHANGED <<shifts, tasks, booking, conflict, raced, edge, reports, applying>>
    BY DEF PlaceTask, edgeVars
  <1>3. r.step = "place" /\ r # Idle
    BY DEF PlaceTask, Idle
  <1>4. Placing(r) /\ StillThere(r)
    BY <1>3 DEF PlanInv, Opened, OpenRequest, Writing, Seen
  <1>5. ASSUME Fits(r.id, r.to, start)
        PROVE  Fitting(r.id, Slot(r.id, r.to, start)) /\ Placed(r.id, Slot(r.id, r.to, start))
    BY <1>4, <1>5 DEF Fits, Placing, Fitting, Placed, Slot, Others
  <1>6. CASE Fits(r.id, r.to, start)
    <2> DEFINE w == Slot(r.id, r.to, start)
               v == [step |-> "write", kind |-> r.kind, id |-> r.id, old |-> r.old, new |-> w]
    <2>1. w.status = "assigned"
      BY DEF Slot
    <2>2. Fitting(r.id, w) /\ Placed(r.id, w)
      BY <1>5, <1>6
    <2> HIDE DEF w
    <2>3. v.step = "write" /\ v.kind = r.kind /\ v.id = r.id /\ v.old = r.old /\ v.new = w
      OBVIOUS
    <2>4. q = v
      BY <1>6 DEF w
    <2> HIDE DEF v, q, r
    <2>5. Writing(v)
      BY <1>4, <2>1, <2>2, <2>3 DEF Writing, Placing
    <2>6. StillThere(v)
      BY <1>3, <1>4, <2>3 DEF StillThere
    <2>7. OpenRequest(q) /\ StillThere(q)
      BY <2>4, <2>5, <2>6 DEF OpenRequest
    <2> QED
      BY <1>1, <1>2, <2>7, RequestStep
  <1>7. CASE ~Fits(r.id, r.to, start)
    <2>1. OpenRequest(q) /\ StillThere(q)
      BY <1>7 DEF OpenRequest, StillThere
    <2> HIDE DEF q
    <2> QED
      BY <1>1, <1>2, <2>1, RequestStep
  <1> QED
    BY <1>6, <1>7

LEMMA BeginStep ==
    ASSUME PlanInv, NEW a \in Planners, NEW t \in Tasks, NEW s,
           BeginCreate(a, t, s) \/ BeginReassign(a, t, s) \/ BeginCancel(a, t)
    PROVE  PlanInv'
  <1> USE DEF BeginRequest, edgeVars
  <1>1. CASE BeginCreate(a, t, s)
    <2> DEFINE q == [step |-> "place", kind |-> "create", id |-> t, to |-> s, old |-> NoTask]
    <2>1. placing' = [placing EXCEPT ![a] = q]
      BY <1>1 DEF BeginCreate
    <2>2. OpenRequest(q) /\ StillThere(q)
      BY <1>1 DEF BeginCreate, OpenRequest, Placing, StillThere
    <2>3. UNCHANGED <<shifts, tasks, booking, conflict, raced, edge, reports, applying>>
      BY <1>1 DEF BeginCreate
    <2> HIDE DEF q
    <2> QED
      BY <2>1, <2>2, <2>3, RequestStep
  <1>2. CASE BeginReassign(a, t, s)
    <2> DEFINE q == [step |-> "place", kind |-> "reassign", id |-> t, to |-> s, old |-> tasks[t]]
    <2>1. placing' = [placing EXCEPT ![a] = q]
      BY <1>2 DEF BeginReassign
    <2>2. OpenRequest(q) /\ StillThere(q)
      BY <1>2 DEF BeginReassign, OpenRequest, Placing, StillThere
    <2>3. UNCHANGED <<shifts, tasks, booking, conflict, raced, edge, reports, applying>>
      BY <1>2 DEF BeginReassign
    <2> HIDE DEF q
    <2> QED
      BY <2>1, <2>2, <2>3, RequestStep
  <1>3. CASE BeginCancel(a, t)
    <2> DEFINE q == [step |-> "write", kind |-> "cancel", id |-> t, old |-> tasks[t],
                     new |-> WithStatus(tasks[t], "cancelled")]
    <2>1. placing' = [placing EXCEPT ![a] = q]
      BY <1>3 DEF BeginCancel
    <2>2. OpenRequest(q) /\ StillThere(q)
      BY DEF OpenRequest, Writing, StillThere, WithStatus
    <2>3. UNCHANGED <<shifts, tasks, booking, conflict, raced, edge, reports, applying>>
      BY <1>3 DEF BeginCancel
    <2> HIDE DEF q
    <2> QED
      BY <2>1, <2>2, <2>3, RequestStep
  <1> QED
    BY <1>1, <1>2, <1>3
-----------------------------------------------------------------------------
\* Actions on the edge, and what an admin does with a conflict.
LEMMA EdgeSideStep ==
    ASSUME PlanInv, NEW t \in Tasks, Deliver(t) \/ EdgeStart(t) \/ ReadReport(t)
    PROVE  PlanInv'
  <1> USE DEF PlanInv
  <1>1. UNCHANGED <<shifts, tasks, booking, placing, conflict, raced>>
    BY DEF Deliver, EdgeStart, ReadReport
  <1>2. Bookings' /\ OwnRows' /\ PlanExplained' /\ Unknown'
    BY <1>1, PlanFrame DEF Bookings, OpenBooking, OwnRows, Unknown
  <1>3. Opened' /\ Seen'
    BY <1>1, PlanFrame DEF Opened, OpenRequest, Placing, Writing, Seen, StillThere
  <1>4. Shape'
    BY <1>1 DEF Deliver, EdgeStart, ReadReport, Shape
  <1>5. Read'
    BY <1>1, PlanFrame DEF Deliver, EdgeStart, ReadReport, Read, Shape
  <1>6. \A u \in Tasks : edge[u].status = "in_progress" => edge'[u] = edge[u]
    BY DEF Deliver, EdgeStart, ReadReport, Shape
  <1>7. Running'
    <2>1. CASE Deliver(t)
      BY <1>6, <2>1 DEF Deliver, Running
    <2>2. CASE EdgeStart(t)
      <3>1. edge'[t] = WithStatus(edge[t], "in_progress")
        BY <2>2 DEF EdgeStart, Shape
      <3>2. edge'[t].status = "in_progress"
        BY <3>1 DEF WithStatus
      <3> QED
        BY <1>6, <2>2, <3>2 DEF EdgeStart, Running
    <2>3. CASE ReadReport(t)
      BY <1>6, <2>3 DEF ReadReport, Running, Shape
    <2> QED
      BY <2>1, <2>2, <2>3
  <1>8. StartedAgrees'
    BY <1>1, <1>6 DEF StartedAgrees
  <1> QED
    BY <1>2, <1>3, <1>4, <1>5, <1>7, <1>8

\* Only what an undisturbed row is part of can change when rows become disturbed.
LEMMA ResolveStep ==
    ASSUME PlanInv, NEW t \in Tasks, ResolveConflict(t) PROVE PlanInv'
  <1> USE DEF PlanInv
  <1>1. UNCHANGED <<shifts, tasks, booking, placing, raced, edge, reports, applying>>
    BY DEF ResolveConflict, edgeVars
  <1>2. DOMAIN conflict' = Tasks /\ \A u \in Tasks : conflict'[u] = "none" => conflict[u] = "none"
    BY DEF ResolveConflict, Shape
  <1>3. \A u \in Tasks : Undisturbed(u)' => Undisturbed(u)
    BY <1>1, <1>2 DEF Undisturbed
  <1>4. Booked' = Booked /\ \A u : (Active(u)' <=> Active(u)) /\ (Clean(u)' <=> Clean(u))
    BY <1>1 DEF Booked, Active, Clean
  <1>5. Shape' /\ Bookings' /\ OwnRows' /\ Seen' /\ Read' /\ Running' /\ Unknown' /\ StartedAgrees'
    BY <1>1, <1>2, <1>4 DEF Shape, Bookings, OpenBooking, FreeOf, Clashes, OwnRows, Seen,
       StillThere, Read, Running, Unknown, StartedAgrees
  <1>6. \A u, r : (Fitting(u, r)' <=> Fitting(u, r)) /\ (Placed(u, r) => Placed(u, r)')
    BY <1>1, <1>3, <1>4 DEF Fitting, Placed
  <1>7. Opened'
    BY <1>1, <1>4, <1>6 DEF Opened, OpenRequest, Placing, Writing
  <1>8. PlanExplained'
    BY <1>1, <1>3, <1>4 DEF PlanExplained, BookingsExplained, SlotsExplained, PlanFits
  <1> QED
    BY <1>5, <1>7, <1>8

-----------------------------------------------------------------------------
\* Shifts: what is booked stays as it is.
LEMMA CheckShiftStep ==
    ASSUME PlanInv, NEW a \in Bookers, NEW s \in Shifts, NEW b \in Asked, CheckShift(a, s, b)
    PROVE  PlanInv'
  <1> USE DEF PlanInv, CheckShift
  <1>1. UNCHANGED <<shifts, tasks, placing, conflict, raced, edge, reports, applying>>
    BY DEF edgeVars
  <1>2. PlanExplained' /\ Seen' /\ Read' /\ Running' /\ Unknown' /\ StartedAgrees'
    BY <1>1, PlanFrame DEF Seen, StillThere, Read, Running, Unknown, StartedAgrees
  <1>3. Opened'
    BY <1>1, PlanFrame DEF Opened, OpenRequest, Placing, Writing
  <1> DEFINE q == [step |-> "write", id |-> s, row |-> b]
  <1>4. booking' = [booking EXCEPT ![a] = q]
    OBVIOUS
  <1>5. q.id = s /\ q.row = b /\ FreeOf(s, b)
    BY DEF FreeOf
  <1> HIDE DEF q
  <1>6. \A c \in Bookers : booking'[c] = IF c = a THEN q ELSE booking[c]
    BY <1>4 DEF Shape
  <1>7. Shape'
    BY <1>1, <1>4 DEF Shape
  <1>8. Bookings'
    BY <1>1, <1>5, <1>6, PlanFrame DEF Bookings, OpenBooking
  <1>9. OwnRows'
    BY <1>5, <1>6 DEF OwnRows
  <1> QED
    BY <1>2, <1>3, <1>7, <1>8, <1>9

LEMMA InsertShiftStep ==
    ASSUME PlanInv, NEW a \in Bookers, InsertShift(a) PROVE PlanInv'
  <1> USE DEF PlanInv
  <1> DEFINE r == booking[a]
             s == r.id
             open == {booking[c].id : c \in {d \in Bookers \ {a} : booking[d] # Idle}}
  <1>1. /\ r # Idle
        /\ shifts' = [shifts EXCEPT ![s] = r.row]
        /\ raced' = raced \cup {<<s, x>> : x \in open} \cup {<<x, s>> : x \in open}
        /\ booking' = [booking EXCEPT ![a] = Idle]
        /\ UNCHANGED <<tasks, placing, conflict, edge, reports, applying>>
    BY DEF InsertShift, edgeVars
  <1>2. OpenBooking(r)
    BY <1>1 DEF Bookings
  <1>3. s \in Shifts /\ shifts[s] = NoShift /\ FreeOf(s, r.row)
    BY <1>2 DEF OpenBooking
  <1>4. s \notin open
    BY <1>1 DEF OwnRows
  <1>5. DOMAIN shifts' = Shifts /\ shifts'[s] = r.row /\ \A x \in Shifts \ {s} : shifts'[x] = shifts[x]
    BY <1>1, <1>3 DEF Shape
  <1>6. \A c \in Bookers : booking'[c] = IF c = a THEN Idle ELSE booking[c]
    BY <1>1 DEF Shape
  <1>7. s \notin Booked /\ Booked \subseteq Booked' /\ Booked' \subseteq Booked \cup {s}
    BY <1>3, <1>5 DEF Booked
  <1>8. raced \subseteq raced' /\ \A t : <<t, t>> \in raced' => <<t, t>> \in raced
    BY <1>1, <1>4
  <1>9. \A u \in Tasks : (Clean(u)' <=> Clean(u)) /\ (Undisturbed(u)' <=> Undisturbed(u))
    BY <1>1, <1>8 DEF Clean, Undisturbed
  <1>10. \A u : Active(u)' <=> Active(u)
    BY <1>1 DEF Active
  <1>11. \A x \in Booked : x \in Shifts /\ x \in Booked' /\ shifts'[x] = shifts[x]
    BY <1>3, <1>5, <1>7 DEF Booked
  <1>13. \A c \in Bookers : c # a /\ booking[c] # Idle => booking[c].id \in open
    OBVIOUS
  <1>14. \A x \in open : <<s, x>> \in raced' /\ <<x, s>> \in raced'
    BY <1>1
  <1> HIDE DEF open, s
  <1>15. Shape'
    BY <1>1, <1>5 DEF Shape
  <1>16. OwnRows'
    BY <1>6 DEF OwnRows
  <1>17. Bookings'
    <2> SUFFICES ASSUME NEW c \in Bookers, c # a, booking[c] # Idle PROVE OpenBooking(booking[c])'
      BY <1>6 DEF Bookings
    <2>1. OpenBooking(booking[c]) /\ booking'[c] = booking[c]
      BY <1>6 DEF Bookings
    <2>2. booking[c].id # s /\ booking[c].id \in Shifts
      BY <1>4, <1>13, <2>1 DEF OpenBooking
    <2>3. shifts'[booking[c].id] = NoShift
      BY <1>5, <2>1, <2>2 DEF OpenBooking
    <2>4. ASSUME NEW x \in Booked', Clashes(booking[c].row, x)'
          PROVE  <<booking[c].id, x>> \in raced' /\ <<x, booking[c].id>> \in raced'
      <3>1. CASE x = s
        BY <1>13, <1>14, <3>1
      <3>2. CASE x # s
        <4>1. x \in Booked /\ Clashes(booking[c].row, x)
          BY <1>7, <1>11, <2>1, <2>4, <3>2 DEF Clashes
        <4> QED
          BY <1>8, <2>1, <4>1 DEF OpenBooking, FreeOf
      <3> QED
        BY <3>1, <3>2
    <2> QED
      BY <2>1, <2>2, <2>3, <2>4 DEF OpenBooking, FreeOf
  <1>18. \A u, w : Fitting(u, w) => Fitting(u, w)'
    BY <1>11 DEF Fitting
  <1>19. \A u, w : Placed(u, w) => Placed(u, w)'
    BY <1>1, <1>8, <1>9, <1>10 DEF Placed
  <1>20. \A q : OpenRequest(q) => OpenRequest(q)'
    BY <1>11, <1>18, <1>19 DEF OpenRequest, Placing, Writing
  <1>21. Opened'
    BY <1>1, <1>20 DEF Opened
  <1>22. Seen'
    <2> SUFFICES ASSUME NEW c \in Planners, NEW q, q = placing[c], q # Idle, Clean(q.id)'
                 PROVE  tasks[q.id] = q.old
      BY <1>1 DEF Seen, StillThere
    <2>1. q.id \in Tasks
      BY DEF Opened, OpenRequest, Placing, Writing
    <2> QED
      BY <1>9, <2>1 DEF Seen, StillThere
  <1>23. Read' /\ Running' /\ Unknown' /\ StartedAgrees'
    BY <1>1, <1>8, <1>9 DEF Read, Running, Unknown, StartedAgrees
  <1>24. BookingsExplained'
    <2> SUFFICES ASSUME NEW x \in Booked', NEW y \in Booked', x # y,
                        shifts'[x].op = shifts'[y].op \/ shifts'[x].mach = shifts'[y].mach,
                        Overlaps(shifts'[x].from, shifts'[x].to, shifts'[y])
                 PROVE  <<x, y>> \in raced'
      BY DEF BookingsExplained
    <2>1. CASE x \in Booked /\ y \in Booked
      BY <1>8, <1>11, <2>1 DEF PlanExplained, BookingsExplained
    <2>2. CASE x = s /\ y \in Booked
      BY <1>3, <1>5, <1>8, <1>11, <2>2 DEF FreeOf, Clashes
    <2>3. CASE y = s /\ x \in Booked
      BY <1>3, <1>5, <1>8, <1>11, <2>3 DEF FreeOf, Clashes, Overlaps
    <2> QED
      BY <1>7, <2>1, <2>2, <2>3
  <1>25. SlotsExplained'
    BY <1>1, <1>8, <1>9, <1>10 DEF PlanExplained, SlotsExplained
  <1>26. PlanFits'
    <2> SUFFICES ASSUME NEW t \in Tasks, NEW w, w = tasks[t], Active(t), Undisturbed(t)
                 PROVE  Fitting(t, w)'
      BY <1>1, <1>9, <1>10 DEF PlanFits, Fitting
    <2>1. Fitting(t, w)
      BY DEF PlanExplained, PlanFits, Fitting
    <2> QED
      BY <1>18, <2>1
  <1> QED
    BY <1>15, <1>16, <1>17, <1>21, <1>22, <1>23, <1>24, <1>25, <1>26 DEF PlanExplained
-----------------------------------------------------------------------------
\* A request writes the task: a cancelled one, or a slot.
LEMMA WriteTaskStep ==
    ASSUME PlanInv, NEW a \in Planners, WriteTask(a) PROVE PlanInv'
  <1> USE DEF PlanInv
  <1> SUFFICES ASSUME NEW r, r = placing[a], NEW t, t = r.id PROVE PlanInv'
    OBVIOUS
  <1> DEFINE open == {placing[b].id : b \in IF r.kind = "cancel" THEN {} ELSE Looked(a)}
             self == OpenOn(t, a) # {} \/ applying[t] # NoTask
  <1>1. /\ r.step = "write" /\ r # Idle
        /\ tasks' = [tasks EXCEPT ![t] = Merge(tasks[t], r.old, r.new)]
        /\ raced' = raced \cup {<<t, u>> : u \in open} \cup {<<u, t>> : u \in open}
                          \cup (IF self THEN {<<t, t>>} ELSE {})
        /\ placing' = [placing EXCEPT ![a] = Idle]
        /\ UNCHANGED <<shifts, booking, conflict, edge, reports, applying>>
    BY DEF WriteTask, Idle
  <1>2. Writing(r) /\ StillThere(r) /\ t \in Tasks
    BY <1>1 DEF Opened, OpenRequest, Placing, Seen, Writing
  <1>3. DOMAIN tasks' = Tasks /\ \A u \in Tasks \ {t} : tasks'[u] = tasks[u]
    BY <1>1, <1>2 DEF Shape
  <1>4. tasks'[t] = Merge(tasks[t], r.old, r.new)
    BY <1>1, <1>2 DEF Shape
  <1>5. \A b \in Planners : placing'[b] = IF b = a THEN Idle ELSE placing[b]
    BY <1>1 DEF Shape
  <1>6. raced \subseteq raced' /\ \A u \in Tasks : Clean(u)' => Clean(u)
    BY <1>1 DEF Clean
  <1>7. \A u \in Tasks : (Undisturbed(u)' => Undisturbed(u)) /\ (Undisturbed(u)' => Clean(u)')
    BY <1>1, <1>6 DEF Undisturbed, Clean
  <1>8. Clean(t)' => ~self /\ tasks[t] = r.old
    BY <1>1, <1>2, <1>6 DEF Clean, StillThere
  <1>9. Clean(t)' => /\ tasks'[t].status = r.new.status /\ tasks'[t].shift = r.new.shift
                     /\ tasks'[t].skill = r.new.skill /\ tasks'[t].from = r.new.from
                     /\ tasks'[t].to = r.new.to
    BY <1>2, <1>4, <1>8, MergeKeeps DEF Shape
  <1>10. Booked' = Booked
    BY <1>1 DEF Booked
  <1>11. \A u \in Tasks \ {t} : Active(u)' <=> Active(u)
    BY <1>3 DEF Active
  <1>12. Clean(t)' /\ Active(t)' => Fitting(t, r.new) /\ Placed(t, r.new) /\ r.kind # "cancel"
    BY <1>2, <1>9 DEF Writing, Active
  <1>13. Clean(t)' => tasks'[t].status \in {"assigned", "cancelled"}
    BY <1>2, <1>9 DEF Writing
  <1>14. \A b \in Planners \ {a} :
            placing[b].step = "write" /\ placing[b].kind # "cancel" /\ r.kind # "cancel"
                => <<t, placing[b].id>> \in raced' /\ <<placing[b].id, t>> \in raced'
    BY <1>1 DEF Looked
  <1>15. \A b \in Planners \ {a} : placing[b] # Idle /\ placing[b].id = t => ~Clean(t)'
    BY <1>1, <1>8 DEF OpenOn
  <1>21. \A u \in Tasks : applying[u] # NoTask /\ Clean(u)' => u # t
    BY <1>8
  <1> HIDE DEF open, self
  <1>16. Shape'
    BY <1>1, <1>2, <1>3, <1>4, MergeDomain DEF Shape
  <1>17. Bookings' /\ OwnRows'
    BY <1>1, <1>6, <1>10 DEF Bookings, OpenBooking, FreeOf, Clashes, OwnRows
  <1>18. \A u, w : Fitting(u, w)' <=> Fitting(u, w)
    BY <1>1, <1>10 DEF Fitting
  <1>19. Opened'
    <2> SUFFICES ASSUME NEW b \in Planners, b # a, NEW q, q = placing[b], OpenRequest(q)
                 PROVE  OpenRequest(q)'
      BY <1>5 DEF Opened, OpenRequest
    <2>1. CASE q = Idle \/ Placing(q)
      BY <1>10, <2>1 DEF OpenRequest, Placing
    <2>2. CASE Writing(q)
      <3>1. ASSUME q.kind # "cancel" PROVE Placed(q.id, q.new)'
        <4>1. Placed(q.id, q.new) /\ q.id \in Tasks
          BY <2>2, <3>1 DEF Writing
        <4> SUFFICES ASSUME NEW u \in Tasks \ {q.id}, Active(u)', Undisturbed(u)',
                            tasks'[u].shift = q.new.shift, Overlaps(q.new.from, q.new.to, tasks'[u])
                     PROVE  <<q.id, u>> \in raced' /\ <<u, q.id>> \in raced'
          BY DEF Placed
        <4>2. CASE u = t
          BY <1>7, <1>12, <1>14, <2>2, <3>1, <4>2 DEF Writing
        <4>3. CASE u # t
          BY <1>3, <1>6, <1>7, <1>11, <4>1, <4>3 DEF Placed
        <4> QED
          BY <4>2, <4>3
      <3> QED
        BY <1>18, <2>2, <3>1 DEF OpenRequest, Writing
    <2> QED
      BY <2>1, <2>2 DEF OpenRequest
  <1>20. Seen'
    <2> SUFFICES ASSUME NEW b \in Planners, b # a, NEW q, q = placing[b], q # Idle, Clean(q.id)'
                 PROVE  tasks'[q.id] = q.old
      BY <1>5 DEF Seen, StillThere
    <2>1. q.id \in Tasks
      BY DEF Opened, OpenRequest, Placing, Writing
    <2>2. q.id # t
      BY <1>15
    <2> QED
      BY <1>3, <1>6, <2>1, <2>2 DEF Seen, StillThere
  <1>22. Read'
    BY <1>1, <1>3, <1>6, <1>21 DEF Read
  <1>23. Running'
    BY <1>1 DEF Running
  <1>24. Unknown'
    <2> SUFFICES ASSUME NEW u \in Tasks, tasks'[u].status = "none", Clean(u)'
                 PROVE  tasks'[u] = NoTask
      BY DEF Unknown
    <2>1. u # t
      BY <1>13
    <2> QED
      BY <1>3, <1>6, <2>1 DEF Unknown
  <1>25. StartedAgrees'
    <2> SUFFICES ASSUME NEW u \in Tasks, tasks'[u].status = "in_progress", Clean(u)'
                 PROVE  tasks'[u].shift = edge'[u].shift /\ edge'[u].status = "in_progress"
      BY DEF StartedAgrees, Clean
    <2>1. u # t
      BY <1>13
    <2> QED
      BY <1>1, <1>3, <1>6, <2>1 DEF StartedAgrees, Clean
  <1>26. BookingsExplained'
    BY <1>1, <1>6, <1>10 DEF PlanExplained, BookingsExplained
  <1>27. SlotsExplained'
    <2> SUFFICES ASSUME NEW u \in Tasks, NEW v \in Tasks, u # v, Active(u)', Active(v)',
                        tasks'[u].shift = tasks'[v].shift,
                        Overlaps(tasks'[u].from, tasks'[u].to, tasks'[v]),
                        Undisturbed(u)', Undisturbed(v)'
                 PROVE  <<u, v>> \in raced'
      BY DEF SlotsExplained
    <2>1. CASE u = t
      BY <1>3, <1>6, <1>7, <1>9, <1>11, <1>12, <2>1 DEF Placed
    <2>2. CASE v = t
      BY <1>3, <1>6, <1>7, <1>9, <1>11, <1>12, <2>2 DEF Placed, Overlaps
    <2>3. CASE u # t /\ v # t
      BY <1>3, <1>6, <1>7, <1>11, <2>3 DEF PlanExplained, SlotsExplained
    <2> QED
      BY <2>1, <2>2, <2>3
  <1>28. PlanFits'
    <2> SUFFICES ASSUME NEW u \in Tasks, NEW w, w = tasks'[u], Active(u)', Undisturbed(u)'
                 PROVE  Fitting(u, w)'
      BY DEF PlanFits, Fitting
    <2>1. CASE u = t
      <3>1. Fitting(t, r.new)
        BY <1>7, <1>12, <2>1
      <3>2. Fitting(t, w)
        BY <1>7, <1>9, <2>1, <3>1 DEF Fitting
      <3> QED
        BY <1>18, <2>1, <3>2
    <2>2. CASE u # t
      <3>1. Fitting(u, w)
        BY <1>3, <1>7, <1>11, <2>2 DEF PlanExplained, PlanFits, Fitting
      <3> QED
        BY <1>18, <3>1
    <2> QED
      BY <2>1, <2>2
  <1> QED
    BY <1>16, <1>17, <1>19, <1>20, <1>22, <1>23, <1>24, <1>25, <1>26, <1>27, <1>28
    DEF PlanExplained
-----------------------------------------------------------------------------
\* The worker writes the start it has read: it leaves the slot where it is, or it
\* is a conflict and brings back the one the edge works on.
LEMMA WriteReportStep ==
    ASSUME PlanInv, NEW t \in Tasks, WriteReport(t) PROVE PlanInv'
  <1> USE DEF PlanInv
  <1> DEFINE new == IF Conflicting(applying[t], t) THEN edge[t]
                    ELSE WithStatus(applying[t], "in_progress")
  <1>1. /\ applying[t] # NoTask
        /\ tasks' = [tasks EXCEPT ![t] = Merge(tasks[t], applying[t], new)]
        /\ conflict' = [conflict EXCEPT ![t] =
                           IF Conflicting(applying[t], t) THEN "open" ELSE conflict[t]]
        /\ raced' = raced \cup (IF \E a \in Planners : placing[a] # Idle /\ placing[a].id = t
                                THEN {<<t, t>>} ELSE {})
        /\ applying' = [applying EXCEPT ![t] = NoTask]
        /\ UNCHANGED <<shifts, booking, placing, edge, reports>>
    BY DEF WriteReport
  <1>2. /\ DOMAIN tasks' = Tasks /\ DOMAIN conflict' = Tasks /\ DOMAIN applying' = Tasks
        /\ \A u \in Tasks \ {t} : /\ tasks'[u] = tasks[u] /\ conflict'[u] = conflict[u]
                                  /\ applying'[u] = applying[u]
    BY <1>1 DEF Shape
  <1>3. /\ tasks'[t] = Merge(tasks[t], applying[t], new)
        /\ conflict'[t] = IF Conflicting(applying[t], t) THEN "open" ELSE conflict[t]
        /\ applying'[t] = NoTask
    BY <1>1 DEF Shape
  <1>4. edge[t].status = "in_progress"
    BY <1>1 DEF Running
  <1>5. raced \subseteq raced' /\ \A u \in Tasks : Clean(u)' => Clean(u)
    BY <1>1 DEF Clean
  <1>6. \A u \in Tasks : (Undisturbed(u)' => Undisturbed(u)) /\ (Undisturbed(u)' => Clean(u)')
    BY <1>1, <1>2, <1>3, <1>5 DEF Undisturbed, Clean
  <1>7. Clean(t)' => tasks[t] = applying[t]
    BY <1>1, <1>5 DEF Read
  <1>8. Clean(t)' => /\ tasks'[t].status = new.status /\ tasks'[t].shift = new.shift
                     /\ tasks'[t].skill = new.skill /\ tasks'[t].from = new.from
                     /\ tasks'[t].to = new.to
    BY <1>3, <1>7, MergeKeeps DEF Shape
  <1>9. new.status = "in_progress" /\ new.shift = edge[t].shift
    <2>1. CASE Conflicting(applying[t], t)
      BY <1>4, <2>1
    <2>2. CASE ~Conflicting(applying[t], t)
      BY <2>2 DEF Conflicting, WithStatus
    <2> QED
      BY <2>1, <2>2
  <1>10. ASSUME Undisturbed(t)'
         PROVE  /\ Active(t)
                /\ tasks'[t].shift = tasks[t].shift /\ tasks'[t].skill = tasks[t].skill
                /\ tasks'[t].from = tasks[t].from /\ tasks'[t].to = tasks[t].to
    <2>1. ~Conflicting(applying[t], t)
      BY <1>3, <1>10 DEF Undisturbed
    <2>2. Clean(t)' /\ Clean(t) /\ tasks[t] = applying[t]
      BY <1>5, <1>6, <1>7, <1>10
    <2>3. Active(t)
      BY <1>1, <2>1, <2>2 DEF Active, Conflicting, Unknown
    <2>4. new = WithStatus(tasks[t], "in_progress")
      BY <2>1, <2>2
    <2> HIDE DEF new
    <2> QED
      BY <1>8, <2>2, <2>3, <2>4 DEF WithStatus
  <1>11. \A u \in Tasks : Active(u)' /\ Undisturbed(u)' =>
            /\ Active(u) /\ Undisturbed(u)
            /\ tasks'[u].shift = tasks[u].shift /\ tasks'[u].skill = tasks[u].skill
            /\ tasks'[u].from = tasks[u].from /\ tasks'[u].to = tasks[u].to
    BY <1>2, <1>6, <1>10 DEF Active
  <1>12. \A a \in Planners : placing[a] # Idle /\ placing[a].id = t => ~Clean(t)'
    BY <1>1 DEF Clean
  <1> HIDE DEF new
  <1>13. Booked' = Booked
    BY <1>1 DEF Booked
  <1>14. Shape'
    BY <1>1, <1>2, <1>3, MergeDomain DEF Shape
  <1>15. Bookings' /\ OwnRows'
    BY <1>1, <1>5, <1>13 DEF Bookings, OpenBooking, FreeOf, Clashes, OwnRows
  <1>16. \A u, w : Fitting(u, w)' <=> Fitting(u, w)
    BY <1>1, <1>13 DEF Fitting
  <1>17. \A u, w : Placed(u, w) => Placed(u, w)'
    BY <1>5, <1>11 DEF Placed, Overlaps
  <1>18. Opened'
    BY <1>1, <1>13, <1>16, <1>17 DEF Opened, OpenRequest, Placing, Writing
  <1>19. Seen'
    <2> SUFFICES ASSUME NEW b \in Planners, NEW q, q = placing[b], q # Idle, Clean(q.id)'
                 PROVE  tasks'[q.id] = q.old
      BY <1>1 DEF Seen, StillThere
    <2>1. q.id \in Tasks
      BY DEF Opened, OpenRequest, Placing, Writing
    <2>2. q.id # t
      BY <1>12
    <2> QED
      BY <1>2, <1>5, <2>1, <2>2 DEF Seen, StillThere
  <1>20. Read' /\ Running'
    BY <1>1, <1>2, <1>3, <1>5 DEF Read, Running
  <1>21. Unknown'
    BY <1>2, <1>5, <1>8, <1>9 DEF Unknown
  <1>22. StartedAgrees'
    <2> SUFFICES ASSUME NEW u \in Tasks, tasks'[u].status = "in_progress", Clean(u)'
                 PROVE  tasks'[u].shift = edge[u].shift /\ edge[u].status = "in_progress"
      BY <1>1 DEF StartedAgrees, Clean
    <2>1. CASE u = t
      BY <1>4, <1>8, <1>9, <2>1
    <2>2. CASE u # t
      BY <1>2, <1>5, <2>2 DEF StartedAgrees, Clean
    <2> QED
      BY <2>1, <2>2
  <1>23. BookingsExplained'
    BY <1>1, <1>5, <1>13 DEF PlanExplained, BookingsExplained
  <1>24. SlotsExplained'
    BY <1>5, <1>11 DEF PlanExplained, SlotsExplained, Overlaps
  <1>25. PlanFits'
    <2> SUFFICES ASSUME NEW u \in Tasks, NEW w, w = tasks'[u], Active(u)', Undisturbed(u)'
                 PROVE  Fitting(u, w)'
      BY DEF PlanFits, Fitting
    <2>1. Fitting(u, w)
      BY <1>11 DEF PlanExplained, PlanFits, Fitting
    <2> QED
      BY <1>16, <2>1
  <1> QED
    BY <1>14, <1>15, <1>18, <1>19, <1>20, <1>21, <1>22, <1>23, <1>24, <1>25 DEF PlanExplained

-----------------------------------------------------------------------------
LEMMA PlanStep == PlanInv /\ [Next]_vars => PlanInv'
  <1> SUFFICES ASSUME PlanInv, [Next]_vars PROVE PlanInv'
    OBVIOUS
  <1>1. ASSUME NEW a \in Bookers, NEW s \in Shifts, NEW b \in Asked, CheckShift(a, s, b)
        PROVE  PlanInv'
    BY <1>1, CheckShiftStep
  <1>2. ASSUME NEW a \in Bookers, InsertShift(a) PROVE PlanInv'
    BY <1>2, InsertShiftStep
  <1>3. ASSUME NEW a \in Planners, NEW t \in Tasks, NEW s \in Shifts,
               BeginCreate(a, t, s) \/ BeginReassign(a, t, s)
        PROVE  PlanInv'
    BY <1>3, BeginStep
  <1>4. ASSUME NEW a \in Planners, NEW t \in Tasks, BeginCancel(a, t) PROVE PlanInv'
    BY <1>4, BeginStep
  <1>5. ASSUME NEW a \in Planners, NEW start \in Starts, PlaceTask(a, start) PROVE PlanInv'
    BY <1>5, PlaceTaskStep
  <1>6. ASSUME NEW a \in Planners, PlaceByDefault(a) PROVE PlanInv'
    BY <1>6, PlaceTaskStep DEF PlaceByDefault
  <1>7. ASSUME NEW a \in Planners, WriteTask(a) PROVE PlanInv'
    BY <1>7, WriteTaskStep
  <1>8. ASSUME NEW t \in Tasks, ResolveConflict(t) PROVE PlanInv'
    BY <1>8, ResolveStep
  <1>9. ASSUME NEW t \in Tasks, Deliver(t) \/ EdgeStart(t) \/ ReadReport(t) PROVE PlanInv'
    BY <1>9, EdgeSideStep
  <1>10. ASSUME NEW t \in Tasks, WriteReport(t) PROVE PlanInv'
    BY <1>10, WriteReportStep
  <1>11. CASE UNCHANGED vars
    <2>1. UNCHANGED <<shifts, tasks, booking, placing, conflict, edge, reports, applying, raced>>
      BY <1>11 DEF vars
    <2>2. PlanExplained' /\ Bookings' /\ OwnRows'
      BY <2>1, PlanFrame DEF PlanInv, Bookings, OpenBooking, OwnRows
    <2>3. Opened' /\ Seen'
      BY <2>1, PlanFrame DEF PlanInv, Opened, OpenRequest, Placing, Writing, Seen, StillThere
    <2> QED
      BY <2>1, <2>2, <2>3, PlanFrame DEF PlanInv, Shape, Read, Running, Unknown, StartedAgrees
  <1> QED
    BY <1>1, <1>2, <1>3, <1>4, <1>5, <1>6, <1>7, <1>8, <1>9, <1>10, <1>11 DEF Next

\* What an open request has read, and what its slot may still conflict with.
THEOREM PlanInvariant == Spec => []PlanInv
  <1>1. Init => PlanInv
    BY PlanInit
  <1>2. PlanInv /\ [Next]_vars => PlanInv'
    BY PlanStep
  <1> QED
    BY <1>1, <1>2, PTL DEF Spec

\* Without a lock (service.py checks, then inserts), a double booking, two tasks of
\* a shift that overlap or a task that does not fit its shift needs two
\* transactions that overlapped in time, or a conflict that put a task back.
THEOREM OnlyRacesMisplan == Spec => []PlanExplained
  <1>1. PlanInv => PlanExplained
    BY DEF PlanInv
  <1> QED
    BY <1>1, PlanInvariant, PTL

\* A task the cloud has as started is on the shift the edge works on, unless two
\* transactions wrote the row at once.
THEOREM OnlyRacesUnseatStarted == Spec => []StartedAgrees
  <1>1. PlanInv => StartedAgrees
    BY DEF PlanInv
  <1> QED
    BY <1>1, PlanInvariant, PTL
=============================================================================

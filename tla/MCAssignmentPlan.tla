-------------------------- MODULE MCAssignmentPlan --------------------------
EXTENDS AssignmentPlan, TLC

CONSTANTS o1, o2, m1, m2, s1, s2, t1, t2, a1, a2

MCTypeOf == m1 :> "excavator" @@ m2 :> "wheel_loader"
MCSkill == o1 :> [excavator |-> "expert", wheel_loader |-> "novice"]
           @@ o2 :> [wheel_loader |-> "expert"]
MCTaskType == t1 :> "excavation" @@ t2 :> "material_loading"
MCUnit == t1 :> "m3" @@ t2 :> "loads"

\* The windows of the first and third overlap, those of the first two meet.
MCAsked == {[op |-> o1, mach |-> m1, from |-> 0, to |-> 3],
            [op |-> o1, mach |-> m2, from |-> 3, to |-> 5],
            [op |-> o2, mach |-> m2, from |-> 2, to |-> 4]}
MCMinutes == [x \in Tasks \X Operators \X Machines |-> IF x[2] = o1 THEN 2 ELSE 1]
Handlers == Permutations({a1, a2})
=============================================================================

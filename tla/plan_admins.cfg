SPECIFICATION Spec
CONSTANTS
    o1 = o1
    o2 = o2
    m1 = m1
    m2 = m2
    s1 = s1
    s2 = s2
    t1 = t1
    t2 = t2
    a1 = a1
    a2 = a2
    Operators = {o1, o2}
    Machines = {m1, m2}
    Shifts = {s1, s2}
    Tasks = {t1, t2}
    Bookers = {a1, a2}
    Planners = {a1, a2}
    TypeOf <- MCTypeOf
    Skill <- MCSkill
    InMaintenance = {}
    TaskType <- MCTaskType
    Unit <- MCUnit
    Asked <- MCAsked
    Starts = {1}
    Minutes <- MCMinutes
    MaxRequests = 4
SYMMETRY Handlers
INVARIANT PlanExplained
INVARIANT StartedAgrees
CHECK_DEADLOCK FALSE

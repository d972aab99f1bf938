SPECIFICATION Spec
CONSTANTS
    m1 = m1
    m2 = m2
    m3 = m3
    e1 = e1
    e2 = e2
    Messages = {m1, m2}
    Entities = {e1}
    None = None
    EntityOf <- OneRow
    Workers = {"app"}
    Scripts = {"script"}
    Poison = {}
    Flaky = {m1}
    Batch = 2
    Window = 1
    ClockMayRegress = FALSE
    MaxTime = 1
    MaxSeq = 4
    MaxRetries = 1
    MaxCrashes = 1
    MaxToggles = 0
INVARIANT AppliedOnce
PROPERTY NothingLost
PROPERTY NoOvertaking
CHECK_DEADLOCK FALSE

SPECIFICATION FairSpec
CONSTANTS
    m1 = m1
    m2 = m2
    m3 = m3
    e1 = e1
    e2 = e2
    Messages = {m1, m2}
    Entities = {e1}
    None = None
    EntityOf <- OneRow
    Workers = {"app"}
    Scripts = {}
    Poison = {}
    Flaky = {m1}
    Batch = 2
    Window = 1
    ClockMayRegress = TRUE
    MaxTime = 1
    MaxSeq = 4
    MaxRetries = 1
    MaxCrashes = 1
    MaxToggles = 2
INVARIANT TypeOK
INVARIANT NewestApplied
PROPERTY EventuallySettled
CHECK_DEADLOCK FALSE

SPECIFICATION Spec
CONSTANTS
    A = A
    B = B
    Shifts = {A, B}
    Readings = {"off", "idle", "waiting", "incident"}
    Gaps = {2}
    Nominal = 1
    GapCap = 3
    IdleLimit = 2
    TravelLimit = 2
    Repeats = 2
    IdlePercent = 60
    Serial = TRUE
    MaxTicks = 3
    MaxEngines = 2
    MaxFailures = 1
    MaxDead = 1
INVARIANT MemoryCommitted
INVARIANT EventsExact
INVARIANT MeterExact
SYMMETRY ShiftSymmetry
CHECK_DEADLOCK FALSE

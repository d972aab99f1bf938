SPECIFICATION CabinSpec
CONSTANTS
    \* EtaAggregates
    TaskPool <- FinishedTasks
    ShiftPool <- ShiftSummaries
    MIN_SAMPLES = 2
    TrainDays = 3
    MaxReferences = 2
    \* EtaTask
    Tasks = {"A"}
    q1 = q1
    q2 = q2
    Requests = {q1, q2}
    Weather = {"forecast", "rain"}
    Target = 3
    UnitMinutes <- UnitTimes
    RateLimit = 1
    PaceAfter = 25
    Deviation = 20
    CycleSteps = 1
    RepositionEvery = 2
    RepositionSteps = 1
    MaxBack = 1
    MaxActions = 4
    MaxCycles = 2
    MaxMinute = 2
    \* SignIn
    Operators = {"o1", "o2"}
    Shifts <- PlannedShifts
    a1 = a1
    a2 = a2
    Admins = {a1, a2}
    Grace = 1
    MaxHour = 2
    \* StatePush
    Items = {"task", "incident"}
    Delivered = {"task"}
    Clients = {"c"}
    Writers = {"request", "tick"}
    MaxChanges = 2
    MaxConnects = 2
    \* ShiftRecords
    IncidentTypes = {"overloading", "tilt"}
    EventTypes = {"repeated_overloading"}
    Modules = {"load-limits", "slopes"}
    NoModule = "no module"
    Catalogs <- BothCatalogs
    Incidents = {1}
    Events = {1}
    Attempts = {1}
    MaxContents = 2
    \* IdleBaselines
    ClosedShifts <- IdleShifts
    BaselineSamples = 2
    MinShifts = 3
    Multiplier = 1
    MaxTables = 2
    \* BatchShift
    Drawn <- DrawnTasks
    NominalTicks = 2
    BufferTicks = 1
    Waits <- TruckWaits
    Breaks <- ShiftBreaks
    WindowStarts <- StartsOfKind
    WindowTicks <- TicksOfKind
    LegitTicks = 2
    ShiftTicks = 8
    OvertimeTicks = 2
    TaskGaps = {1, 2}
    IdleTicks = 4
    TravelTicks = 2
    MaxIdleRun = 1
SYMMETRY CabinSymmetry
INVARIANT HistoryRight
INVARIANT ElapsedIsWorked
INVARIANT NothingUndone
INVARIANT SignInReady
INVARIANT ViewCurrent
INVARIANT ReportsAgree
INVARIANT JudgedAlike
INVARIANT HistorySound
CHECK_DEADLOCK FALSE

SPECIFICATION Spec
CONSTANTS
    Kind = "seatbelt"
    SensorFails = FALSE
    Debounce = 0
    GraceWarning = 1
    GraceCritical = 2
    ClearingHold = 1
    Cooldown = 2
    RepeatCount = 3
    RepeatWindow = 12
    Steps = {1}
    Longest = 1
    MaxTime = 25
INVARIANT NoticedInTime
INVARIANT SeverityExplained

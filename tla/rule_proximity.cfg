SPECIFICATION Spec
CONSTANTS
    Kind = "hysteresis"
    SensorFails = TRUE
    Debounce = 2
    GraceWarning = 0
    GraceCritical = 0
    ClearingHold = 2
    Cooldown = 3
    RepeatCount = 0
    RepeatWindow = 0
    Steps = {1, 2}
    Longest = 2
    MaxTime = 14
INVARIANT RuleInv
PROPERTY OpensAfterHold
PROPERTY ClosesAfterClear
PROPERTY ImplementsLifecycle

SPECIFICATION FairSpec
CONSTANTS
    m1 = m1
    m2 = m2
    Streams <- TwoStreams
    None = None
    Scenarios = {"overload"}
    Duration = 2
    StepQueueSize = 2
    Callers = 2
    MaxStarts = 2
    MaxScenarios = 1
    MaxTime = 3
INVARIANT PromptIsRight
PROPERTY FloorRises
PROPERTY TimePasses
CHECK_DEADLOCK FALSE

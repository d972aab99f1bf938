SPECIFICATION FairSpec
CONSTANTS
    Machines = {"a", "b"}
    Minutes = {1}
    MaxRecords = 1
    LowWater = 0
    BatchSize = 2
    MaxSeq = 3
    MaxFaults = 1
CONSTRAINT FirstFromA
INVARIANT Accounted
INVARIANT TablesExact
PROPERTY EventuallyStored
CHECK_DEADLOCK FALSE

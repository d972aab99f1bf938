SPECIFICATION FairSpec
CONSTANTS
    NumRules = 2
    Serial = TRUE
    MaxIncidents = 2
    MaxContexts = 2
    MaxFailures = 1
    MaxDegraded = 1
INVARIANT BeliefsCommitted
INVARIANT AutoSlowExact
INVARIANT IncidentsSettled
INVARIANT AnnouncedCommitted
PROPERTY AutoSlowEnds
CHECK_DEADLOCK FALSE

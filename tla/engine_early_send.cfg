SPECIFICATION Spec
CONSTANTS
    NumRules = 2
    Serial = FALSE
    MaxIncidents = 2
    MaxContexts = 1
    MaxFailures = 1
    MaxDegraded = 0
INVARIANT AnnouncedCommitted
CHECK_DEADLOCK FALSE

SPECIFICATION FairSpec
CONSTANTS
    s1 = s1
    s2 = s2
    s3 = s3
    Shifts = {s1, s2, s3}
    Moves <- Onward
    Serial = TRUE
    ConsoleOnly = TRUE
    ClockMayRegress = FALSE
    MayFail = {"reassigned", "cancelled", "status"}
    MaxTime = 1
    MaxChanges = 3
    MaxReports = 3
    MaxCycles = 1
    MaxDead = 2
INVARIANT Reconciled
INVARIANT ReportsRight
PROPERTY EdgeOwnsStarted
PROPERTY EventuallyAgree
CHECK_DEADLOCK FALSE

SPECIFICATION Spec
CONSTANTS
    MaxFiles = 2
    BatchSize = 1
    PurgeAfter = 1
    Lapses = FALSE
    TextLimit = FALSE
    MaxAdmin = 2
    MaxOutages = 3
    MaxFaults = 0
    MaxCrashes = 1
INVARIANT TypeOK
INVARIANT PauseIsKept
INVARIANT QuotaToldOnce
\* A source an administrator paused rests until somebody resumes it.
CHECK_DEADLOCK FALSE

SPECIFICATION FairSpec
CONSTANTS
    MaxFiles = 2
    BatchSize = 1
    PurgeAfter = 1
    Lapses = TRUE
    TextLimit = FALSE
    MaxAdmin = 1
    MaxOutages = 0
    MaxFaults = 0
    MaxCrashes = 0
PROPERTY LicencePurge
\* A source an administrator paused rests until somebody resumes it.
CHECK_DEADLOCK FALSE

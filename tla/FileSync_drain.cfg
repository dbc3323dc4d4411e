SPECIFICATION FairSpec
CONSTANTS
    MaxFiles = 2
    BatchSize = 1
    PurgeAfter = 1
    Lapses = TRUE
    TextLimit = TRUE
    MaxAdmin = 1
    MaxOutages = 1
    MaxFaults = 1
    MaxCrashes = 1
INVARIANT RunRowClosed
INVARIANT ContinuationReopens
INVARIANT SelectionIsListed
INVARIANT SyncingIsContinued
PROPERTY Drains
\* A source an administrator paused rests until somebody resumes it.
CHECK_DEADLOCK FALSE

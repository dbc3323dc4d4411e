SPECIFICATION FairSpec
CONSTANTS
    Tools = 2
    Prefixes = 2
    MaxScans = 2
    MaxLooks = 1
    Slots = 1
    MaxEdits = 2
    MaxCalls = 2
    MaxRequests = 3
    MaxFaults = 1
INVARIANTS TypeOK CancelStops ActiveIsKept SourceHasTools
PROPERTIES FailedStays EditsKept ScanEnds
CHECK_DEADLOCK FALSE

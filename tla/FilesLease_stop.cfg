SPECIFICATION Spec
CONSTANTS
    a = a
    b = b
    c = c
    o1 = o1
    o2 = o2
    NoWorker = NoWorker
    Workers = {w1, w2}
    Sources = {a, b}
    Workspaces = {o1}
    Org <- MCOrg2
    Concurrency = 1
    LeaseTerm = 3
    MaxFaults = 1
    Stopping = TRUE
    SlowSlices = TRUE
INVARIANTS
    OneLivePerWorkspace
    LeasesAccounted
    RunningHoldsLease
PROPERTY
    TakesTurns

SPECIFICATION FairSpec
CONSTANTS
    a = a
    b = b
    c = c
    o1 = o1
    o2 = o2
    NoWorker = NoWorker
    Workers = {w1, w2}
    Sources = {a, b, c}
    Workspaces = {o1, o2}
    Org <- MCOrg3
    Concurrency = 1
    LeaseTerm = 2
    MaxFaults = 0
    Stopping = FALSE
    SlowSlices = FALSE
INVARIANTS
    TypeOK
    OneRunPerWorkspace
    WithinConcurrency
PROPERTY
    DueIsClaimed

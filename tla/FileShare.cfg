SPECIFICATION FairSpec
CONSTANTS
    stuck = stuck
    conn = conn
    keep = keep
    w1 = w1
    Links = {stuck, conn, keep}
    Workers = {w1}
    FromConnector = {conn}
    Forever = {keep}
    Undeletable = {stuck}
    MaxStored = 1
    MaxRequests = 2
    SweepLimit = 2
    MaxFailures = 2
    None = None
INVARIANTS TypeOK OrphansCounted WorkingHasFile QuotaHolds
PROPERTY FilesGo
CHECK_DEADLOCK FALSE

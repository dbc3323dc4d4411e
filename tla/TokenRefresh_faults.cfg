SPECIFICATION FairSpec
CONSTANTS
    a = a
    b = b
    Procs = {a, b}
    MaxAuths = 1
    MaxGen = 1
    Faults = {"connection", "slow", "lost", "read", "write", "crash"}
    MaxFaults = 1
    NoTok = NoTok
    NoProc = NoProc
INVARIANTS TypeOK TokenKept BlockedRightly SpentOnce
PROPERTIES RenewalsEnd RenewalsAreChained
\* A renewal that waits for ever is what RenewalsEnd is about.
CHECK_DEADLOCK FALSE

SPECIFICATION Spec
CONSTANTS
    a = a
    b = b
    Procs = {a, b}
    MaxAuths = 1
    MaxGen = 2
    Faults = {}
    MaxFaults = 0
    NoTok = NoTok
    NoProc = NoProc
SYMMETRY Symmetric
INVARIANT NeverSpentTwice
CHECK_DEADLOCK FALSE

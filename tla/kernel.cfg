CONSTANTS
    Threads = {t1, t2, t3}
    NumFilters = 2
    Callers = {c1, c2, c3}
    Entries = {"version", "profile"}
SPECIFICATION FairSpec
INVARIANTS
    UnlockMatchesLock
    OnlyReturnsInFreedCode
    UnloadedLeavesNothing
PROPERTIES
    KernelProgress
CHECK_DEADLOCK FALSE

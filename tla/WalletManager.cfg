SPECIFICATION WMFairSpec
CONSTANTS
    Worker = {p1, p2, p3}
    Wallet = {w1, w2}
    Faults = {"redis", "crash"}
    LockTTL = 3
    HoldLimit = 2
    Free = Free
    Orphaned = Orphaned
INVARIANTS ExclusiveAccess KeyAgesWithHolder ReleasesOwnLock
PROPERTIES ImplementsPool LockIsFreed

\* Three operations, no faults; a lease of two renewal intervals.
SPECIFICATION LockSpec
CONSTANTS
    o1 = o1
    o2 = o2
    o3 = o3
    None = None
    Operations = {o1, o2, o3}
    LockLease = 2
    RenewInterval = 1
    LockTTL = 6
    MaxLockTime = 6
    LockFaultKinds = {}
    MaxLockFaults = 0
INVARIANTS
    OperationsAreExclusive
SYMMETRY Symmetry
CHECK_DEADLOCK FALSE

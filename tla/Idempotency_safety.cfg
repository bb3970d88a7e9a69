\* Requests: times are short, so that records lapse and expire.  Operations: a
\* lease outlasts the first renewal and one that fails.
SPECIFICATION TableSpec
CONSTANTS
    r1 = r1
    r2 = r2
    r3 = r3
    r4 = r4
    o1 = o1
    o2 = o2
    o3 = o3
    None = None
    Requests = {r1, r2, r3, r4}
    Payload <- OtherPayload
    Modes = {"plain", "atomic", "renewed"}
    Lease = 2
    TTL = 3
    Backoff = 1
    MaxTime = 4
    FaultKinds = {"crash", "error", "stall"}
    MaxFaults = 1
    Operations = {o1, o2, o3}
    LockLease = 6
    RenewInterval = 2
    LockTTL = 8
    MaxLockTime = 10
    LockFaultKinds = {"crash", "error"}
    MaxLockFaults = 1
INVARIANTS
    AppliedOnce
    ExecutesAlone
    AnswersAreApplied
    OverlapNeedsOverrun
SYMMETRY Symmetry
CHECK_DEADLOCK FALSE

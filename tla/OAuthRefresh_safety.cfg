\* Two callers in two processes, one operation of an administrator, one fault.
SPECIFICATION Spec
CONSTANTS
    p1 = p1
    p2 = p2
    None = None
    Processes = {p1, p2}
    Refreshers <- MCRefreshers
    LockTTL = 2
    LockMargin = 1
    AttemptTimeout = 2
    RequestTimeout = 1
    MaxCredentials = 3
    MaxEdits = 1
    FaultKinds = {"crash", "leave", "redis", "db", "provider"}
    MaxFaults = 1
INVARIANTS
    TypeOK
    RefreshesAreExclusive
    SuccessorIsStored
    QuarantineIsDeserved
    RefreshCleansTheCache
CHECK_DEADLOCK FALSE

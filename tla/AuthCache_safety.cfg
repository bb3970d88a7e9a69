\* Two processes, one change, one fault of any kind.
SPECIFICATION AuthFairSpec
CONSTANTS
    p1 = p1
    p2 = p2
    Procs = {p1, p2}
    Editors = {p1}
    MaxChanges = 1
    Nothing = Nothing
    AuthFaultKinds = {"db", "redis", "answer", "net", "slow", "crash"}
    MaxAuthFaults = 1
INVARIANTS
    StaleIsPending
PROPERTIES
    ChangesReachAll
CHECK_DEADLOCK FALSE

CONSTANTS
    Workers = {w1, w2}
    OrderTypes = {"balance"}
    FaultKinds = {"crash", "error", "stall"}
    MaxFaults = 1
SPECIFICATION FairSpec
CHECK_DEADLOCK FALSE
PROPERTIES
    PaidIsCompleted

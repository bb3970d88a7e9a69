CONSTANTS
    Admins = {a1}
    OrderTypes = {"balance"}
    Credit = 1
    MaxExtra = 0
    MaxAttempts = 2
    FaultKinds = {}
    MaxFaults = 0
SPECIFICATION Spec
INVARIANTS
    HeldDeductionIsFinalizable
CHECK_DEADLOCK FALSE

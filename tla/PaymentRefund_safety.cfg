CONSTANTS
    Admins = {a1, a2}
    OrderTypes = {"balance", "subscription"}
    Credit = 2
    MaxExtra = 1
    MaxAttempts = 2
    FaultKinds = {"stop", "error", "audit", "tail", "answer"}
    MaxFaults = 1
SYMMETRY Symmetry
SPECIFICATION Spec
INVARIANTS
    TypeOK
    BooksBalance
    PaidBackOnce
CHECK_DEADLOCK FALSE

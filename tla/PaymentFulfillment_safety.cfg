CONSTANTS
    Workers = {w1, w2}
    OrderTypes = {"balance", "subscription", "other"}
    FaultKinds = {"crash", "error", "read", "query", "stall"}
    MaxFaults = 2
SPECIFICATION Spec
SYMMETRY WorkerSymmetry
CHECK_DEADLOCK FALSE
INVARIANTS
    TypeOK
    GrantedAtMostOnce
    NoGrantWithoutPayment
    CompletedIsGranted
PROPERTIES
    StatusNeverRegresses
    ImplementsPaymentOrder

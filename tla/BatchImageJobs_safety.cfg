\* Two workers, a batch of the user beside another one, every kind of fault.
SPECIFICATION FairSpec
CONSTANTS
    w1 = w1
    w2 = w2
    None = None
    Lost = Lost
    Workers = {w1, w2}
    Hold = 2
    Other = 2
    Owned = {1, 2}
    Costs = {1, 3}
    MaxCopies = 2
    MaxRetries = 2
    FaultKinds = {"db", "redis", "commit", "provider", "crash", "worker", "lapse", "early"}
    MaxFaults = 1
INVARIANTS
    TypeOK
    FrozenIsOpenHolds
    ChargedIffCompleted
    RunningIsNotRefunded
PROPERTIES
    EveryHoldEnds
CHECK_DEADLOCK FALSE

\* Two requests of one user, a balance that covers one of them, or both.
SPECIFICATION FairSpec
CONSTANTS
    r1 = r1
    r2 = r2
    Requests = {r1, r2}
    Mandatory = {r2}
    Amount <- MCAmount2
    InitBalances = {1, 3}
    QueueSize = 1
    None = None
    FaultKinds = {"db", "redis", "commit", "crash", "slow"}
    MaxFaults = 1
INVARIANTS
    OverdrawnByOneAtMost
    CachedIsCovered
    ReservedIffInUse
PROPERTIES
    EveryReservationEnds
    MandatoryIsCharged
CHECK_DEADLOCK FALSE

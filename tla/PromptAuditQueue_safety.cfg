\* Two prompts for a queue with room for one, two workers, every kind of fault.
SPECIFICATION FairSpec
CONSTANTS
    j1 = j1
    j2 = j2
    w1 = w1
    w2 = w2
    None = None
    Jobs = {j1, j2}
    Workers = {w1, w2}
    Capacity = 1
    MaxAttempts = 2
    MaxChunks = 2
    FaultKinds = {"db", "redis", "commit", "crash", "panic", "slow"}
    MaxFaults = 1
INVARIANTS
    TypeOK
    PayloadOutlivesJob
PROPERTIES
    OnlyTheHolderEnds
    ImplementsAuditJobs
    EveryJobEnds
CHECK_DEADLOCK FALSE

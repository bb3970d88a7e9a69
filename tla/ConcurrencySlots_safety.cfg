SPECIFICATION Spec
CONSTANTS
    i1 = i1
    i2 = i2
    r1 = r1
    r2 = r2
    r3 = r3
    r4 = r4
    Requests = {r1, r2, r3, r4}
    Instances = {i1}
    Home <- OneServer
    MaxSlots = 2
    MaxWait = 2
    FaultKinds = {"crash", "lostReply", "release", "count", "index", "cleanup",
                  "outlive"}
    MaxFaults = 3
INVARIANTS TypeOK CapRespected WaitersAreCounted QuiescentIsClean
SYMMETRY Symmetry

CONSTANTS
    r1 = r1
    r2 = r2
    r3 = r3
    Requests = {r1, r2}
    Bodies <- AnyBodies
    MaxDecoded = 3
    MaxConcurrent = 1
    MaxUploadPacks = 1
    PipeCap = 1
    PackLen = 1
    Faults = {"gone", "spawn", "child", "kill"}
SPECIFICATION FairSpec
INVARIANTS TypeOK PacksCapped NothingLeftPacking AttentiveNotKilled RequestWhole
PROPERTIES Answered PermitReturns
CHECK_DEADLOCK FALSE

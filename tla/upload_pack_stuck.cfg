CONSTANTS
    r1 = r1
    r2 = r2
    r3 = r3
    Requests = {r1}
    Bodies <- LargeBodies
    MaxDecoded = 3
    MaxConcurrent = 1
    MaxUploadPacks = 1
    PipeCap = 1
    PackLen = 1
    Faults = {}
SPECIFICATION Spec
INVARIANT NeverStuck
CHECK_DEADLOCK FALSE

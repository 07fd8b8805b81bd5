CONSTANTS
    i1 = i1
    i2 = i2
    i3 = i3
    u1 = u1
    InfoRefs = {i1, i2}
    UploadPacks = {}
    Ttl = 1
    MaxRetries = 1
    MaxTime = 1
    MaxPush = 1
    Faults <- LateFaults
    Free = Free
    Evictor = Evictor
SPECIFICATION FairSpec
INVARIANTS Serialised CloneStartsClean LeftoverHarmless
PROPERTY Answered
CHECK_DEADLOCK FALSE

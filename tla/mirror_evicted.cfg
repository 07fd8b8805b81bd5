CONSTANTS
    i1 = i1
    i2 = i2
    i3 = i3
    u1 = u1
    InfoRefs = {i1}
    UploadPacks = {u1}
    Ttl = 1
    MaxRetries = 1
    MaxTime = 1
    MaxPush = 1
    Faults = {"evict"}
    Free = Free
    Evictor = Evictor
SPECIFICATION Spec
INVARIANT EvictionHarmless
CHECK_DEADLOCK FALSE

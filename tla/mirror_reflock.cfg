CONSTANTS
    i1 = i1
    i2 = i2
    i3 = i3
    u1 = u1
    InfoRefs = {i1, i2, i3}
    UploadPacks = {}
    Ttl = 1
    MaxRetries = 1
    MaxTime = 2
    MaxPush = 1
    Faults = {"drop"}
    Free = Free
    Evictor = Evictor
SPECIFICATION Spec
INVARIANT HealthyNeverFails
CHECK_DEADLOCK FALSE

CONSTANTS
    i1 = i1
    i2 = i2
    i3 = i3
    u1 = u1
    InfoRefs = {i1, i2}
    UploadPacks = {u1}
    Ttl = 1
    MaxRetries = 1
    MaxTime = 2
    MaxPush = 1
    Faults <- PromptFaults
    Free = Free
    Evictor = Evictor
SPECIFICATION Spec
SYMMETRY Symmetry
INVARIANTS TypeOK MirrorWhole Fresh
PROPERTIES Coalesced Promised
CHECK_DEADLOCK FALSE

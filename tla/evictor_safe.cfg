CONSTANTS
    m1 = m1
    m2 = m2
    b1 = b1
    Mirrors = {m1}
    Blobs = {b1}
    MaxBytes = 2
    MaxSize = 2
    BlobBytes = 1
    Faults = {"drop", "operator", "disk", "crash"}
SPECIFICATION Spec
INVARIANTS TypeOK IndexSound NoWorkLost MirrorsTracked 
CHECK_DEADLOCK FALSE

CONSTANTS
    m1 = m1
    m2 = m2
    b1 = b1
    Mirrors = {m1}
    Blobs = {b1}
    MaxBytes = 1
    MaxSize = 2
    BlobBytes = 1
    Faults = {"operator"}
SPECIFICATION FairSpec
PROPERTIES Settles PhantomsDropped Stops
CHECK_DEADLOCK FALSE

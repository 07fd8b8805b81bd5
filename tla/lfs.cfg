CONSTANTS
    r1 = r1
    r2 = r2
    r3 = r3
    Requests = {r1, r2, r3}
    Oids = {"o1"}
    BatchPaths <- Endpoints
    Repo <- TheRepo
    Faults = {"drop", "upstream", "corrupt", "disk", "evict", "crash"}
    Free = Free
SPECIFICATION FairSpec
INVARIANTS TypeOK OnlyVerified LinksLead TempsOwned
PROPERTIES OneDownload Answered
CHECK_DEADLOCK FALSE

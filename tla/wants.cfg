CONSTANTS
    r1 = r1
    r2 = r2
    r3 = r3
    Requests = {r1, r2}
    Bodies <- SomeBodies
    Oids = {1, 2, 3, 4}
    Offered = {1, 2, 3}
    MaxWants = 1
    Faults = {"drop", "upstream", "local"}
    Free = Free
SPECIFICATION FairSpec
INVARIANTS TypeOK WantsParsed PinsCapped WantsServed
PROPERTIES PrunedAreOldest Answered
CHECK_DEADLOCK FALSE

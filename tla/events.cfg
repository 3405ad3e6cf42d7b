SPECIFICATION StoreSpec
CONSTANTS
    e1 = e1
    e2 = e2
    e3 = e3
    e4 = e4
    NoTime = NoTime
    Events <- FourEvents
    Size <- Sizes
    Readers = {"policy"}
    TTL = 1
    MaxBytes = 3
    MaxTime = 3
CHECK_DEADLOCK FALSE
INVARIANTS StoreExact NotEvictedEarly
PROPERTIES ExpiredGone

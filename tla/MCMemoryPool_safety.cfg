\* All faults; five addresses for at most four chunks, so that the limit is
\* the code's and not the instance's; the pool is still growing while the client
\* claims, unclaims and releases.
CONSTANTS
    c1 = c1
    c2 = c2
    c3 = c3
    c4 = c4
    c5 = c5
    Chunks <- FiveChunks
    MinReserve = 2
    MaxReserve = 3
    MaxChunks = 4
    Faults <- AllFaults
SPECIFICATION FairSpec
INVARIANTS
    OnePlace
    Accounted
    Bounded
    RoomToPush
PROPERTIES
    ImplementsAllocator
    Replenished
    ReleaseReturns

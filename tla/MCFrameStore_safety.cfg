\* All faults, chunks for the current frame and two more, any captures with a
\* clock that goes back and forth.
CONSTANTS
    c1 = c1
    c2 = c2
    c3 = c3
    c4 = c4
    Chunks <- FourChunks
    MaxChunks = 3
    VideoBytes = 6
    DepthBytes = 4
    MetaBytes = 1
    TimestampBytes = 2
    Timestamps <- Clock
    MaxRepeat = 2
    MaxFrames = 3
    Faults <- AllFaults
SPECIFICATION Spec
SYMMETRY ChunkSymmetry
INVARIANTS
    WholeFrames
    HandedPrivate
    NothingLost
PROPERTIES
    FramesStable
    StoredOnce

\* Up to four frames, a loop of one or two, two layers that share it, and the
\* live picture.
CONSTANTS
    c1 = c1
    c2 = c2
    c3 = c3
    c4 = c4
    l1 = l1
    l2 = l2
    Chunks <- FourChunks
    MaxChunks = 4
    VideoBytes = 6
    DepthBytes = 4
    MetaBytes = 1
    TimestampBytes = 2
    Timestamps <- Clock
    MaxRepeat = 2
    MaxFrames = 4
    MaxTime = 4
    Loops <- TwoLoops
    MaxLayers = 2
    TEXTURE_CAPACITY = 3
    MinFrames = 1
    Patience = 0
    DOWNSAMPLE = 2
    Faults <- NoFaults
SPECIFICATION FairGhosts
INVARIANTS
    PicturesWhole
PROPERTIES
    PairsUp
    PicturesFollow
    GhostsAppear

\* A loop that is too short is freed; its frames are not removed.
CONSTANTS
    c1 = c1
    c2 = c2
    c3 = c3
    c4 = c4
    c5 = c5
    l1 = l1
    l2 = l2
    l3 = l3
    Chunks <- ThreeChunks
    MaxChunks = 3
    VideoBytes = 6
    DepthBytes = 4
    MetaBytes = 1
    TimestampBytes = 2
    Timestamps <- Clock
    MaxRepeat = 1
    MaxFrames = 3
    Loops <- TwoLoops
    MaxLayers = 1
    MinFrames = 2
    Patience = 0
    Faults <- NoFaults
SPECIFICATION Spec
INVARIANTS
    CleansUp

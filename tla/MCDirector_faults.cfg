\* Everything may fail: loops of one frame or two, up to two of them published.
CONSTANTS
    c1 = c1
    c2 = c2
    c3 = c3
    c4 = c4
    c5 = c5
    l1 = l1
    l2 = l2
    l3 = l3
    Chunks <- FourChunks
    MaxChunks = 4
    VideoBytes = 6
    DepthBytes = 4
    MetaBytes = 1
    TimestampBytes = 2
    Timestamps <- Clock
    MaxRepeat = 1
    MaxFrames = 5
    Loops <- ThreeLoops
    MaxLayers = 2
    MinFrames = 1
    Patience = 0
    Faults <- AllFaults
SPECIFICATION Spec
SYMMETRY Symmetry
INVARIANTS
    LoopFramesHeld
    Playable
PROPERTIES
    UsesStore
    PublishedStable

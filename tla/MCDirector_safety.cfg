\* Only the store's own shortage of chunks: recording with a patience of one
\* invalid frame, loops too short and loops long enough, playback.
CONSTANTS
    c1 = c1
    c2 = c2
    c3 = c3
    c4 = c4
    c5 = c5
    l1 = l1
    l2 = l2
    l3 = l3
    Chunks <- FiveChunks
    MaxChunks = 5
    VideoBytes = 6
    DepthBytes = 4
    MetaBytes = 1
    TimestampBytes = 2
    Timestamps <- Clock
    MaxRepeat = 1
    MaxFrames = 6
    Loops <- ThreeLoops
    MaxLayers = 2
    MinFrames = 3
    Patience = 1
    Faults <- NoFaults
SPECIFICATION Spec
SYMMETRY Symmetry
INVARIANTS
    LoopsWhole
    FramesAccounted
    LoopOwnership
    RecordingConsistent

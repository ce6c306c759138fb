\* Up to three pictures; the ring goes round while they are filtered.
CONSTANTS
    Elements <- AllPictures
    Capacity = 3
    ShapeX = 3
    ShapeY = 3
    Width = 2
    Height = 2
    Channels = 2
    Values <- Bits
    Inputs <- SomePictures
    Junk <- White
    MaxFrames = 3
SPECIFICATION FilterSpec
INVARIANTS
    WindowOriginal
PROPERTIES
    ReturnsFiltered
    ImplementsRecent
    InPlace

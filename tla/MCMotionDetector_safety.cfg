\* Four pixels in words of three bits: a full word and the beginning of another.
CONSTANTS
    PixelCount = 4
    WordBits = 3
    Depths <- NoneNearFar
    Cutoffs <- TwoCutoffs
    SkipInvalid = TRUE
    MinMotion <- Third
    MinPresence <- Half
    NoFrame = NoFrame
SPECIFICATION Spec
PROPERTIES
    StillNotValid
    ImplementsDifference

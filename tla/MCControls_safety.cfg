\* Lines of up to six keys: enough to be indented too far for a target of one.
CONSTANTS
    Space = " "
    Delim = "="
    Nul = "NUL"
    Keys <- FiveKeys
    Digits <- Ones
    Target <- D
    SizeBits = 3
    MAX_COMMAND_LENGTH = 7
    min_camera_angle <- Lowest
    max_camera_angle = 1
    DeviceFails = TRUE
SPECIFICATION Spec
INVARIANT
    LineBounded
PROPERTIES
    CutoffObeys
    AngleTracks

\* A name with a space behind it.
CONSTANTS
    Space = " "
    Delim = "="
    Nul = "NUL"
    Keys <- FiveKeys
    Digits <- Ones
    Target <- D
    SizeBits = 3
    MAX_COMMAND_LENGTH = 5
    min_camera_angle <- Lowest
    max_camera_angle = 1
    DeviceFails = TRUE
SPECIFICATION FairSpec
PROPERTY
    LineHandled

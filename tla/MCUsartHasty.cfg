SPECIFICATION UsartSpec
CONSTANTS
    RingSize = 2
    LowMark = 1
    HighMark = 2
    PutMax = 1
    Modes = {{"w"}}
    Handshake = TRUE
    Hasty = TRUE
PROPERTIES
    DisabledUnused
CHECK_DEADLOCK FALSE

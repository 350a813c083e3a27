SPECIFICATION UsartFairSpec
CONSTANTS
    RingSize = 2
    LowMark = 1
    HighMark = 2
    PutMax = 1
    Modes = {{"r"}}
    Handshake = TRUE
    Hasty = FALSE
PROPERTIES
    RemoteEnabled
CHECK_DEADLOCK FALSE

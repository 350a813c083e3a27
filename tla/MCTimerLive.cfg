SPECIFICATION FairSpec
CONSTANTS
    Timer = {h1, h2}
    Ms = {1, 2}
    Callback = {"NutEventTimeout", "NutMsgQTimerCb"}
    Flags = {"TM_ONESHOT", "periodic"}
    TickClock = 1
    Second = 1
    Word = 4
    MaxPend = 1
PROPERTIES
    StoppedFreed

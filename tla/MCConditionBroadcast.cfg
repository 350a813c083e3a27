SPECIFICATION CondSpec
CONSTANTS
    Thread = {c1, p1, p2}
    Consumer = {c1}
    NoThread = NoThread
    Word = 8
    MaxDepth = 1
    StrayUnlock = FALSE
    MaxItems = 2
    UseBroadcast = TRUE
INVARIANTS
    NoLostSignal

SPECIFICATION CondSpec
CONSTANTS
    Thread = {c1, c2, p1}
    Consumer = {c1, c2}
    NoThread = NoThread
    Word = 8
    MaxDepth = 1
    StrayUnlock = FALSE
    MaxItems = 2
    UseBroadcast = FALSE
INVARIANTS
    NoLostSignal

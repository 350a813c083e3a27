SPECIFICATION OsSpec
CONSTANTS
    Thread = {c1, p1, p2, p3}
    Consumer = {c1}
    NoThread = NoThread
    Word = 8
    MaxDepth = 2
    StrayUnlock = FALSE
    MaxItems = 2
    UseBroadcast = FALSE
    Initial = 1
    MaxPosts = 4
    Region <- Regions
    Sizes = {1, 2, 3, 4, 6}
    Overhead = 1
    Node = 2
    HeapWord = 64
    Banks = 2
    Size = 3
    RingSize = 2
    LowMark = 1
    HighMark = 2
    PutMax = 2
    Modes = {{"r"}, {"w"}}
    Handshake = TRUE
    Hasty = FALSE
INVARIANTS
    MutualExclusion
    NoLostWakeup
    NoLostSignal
    UnitsConserved
    MemoryPartitioned
    FreeMerged
    QueueKept
    RingsKept
    SleepersTold
CHECK_DEADLOCK FALSE

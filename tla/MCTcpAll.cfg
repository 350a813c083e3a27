SPECIFICATION Spec
CONSTANTS
    Client = Client
    Server = Server
    SeqSpace = 14
    Isn <- MCIsn
    Mss = 2
    WinSize = 2
    WinSpace = 16
    NarrowInt = FALSE
    AdvMax = 1
    RetriesMax = 0
    TimeWaitMax = 0
    SynRcvdMax = 0
    BacklogTime = 0
    Syns = 1
    Data <- ServerSendsMore
    Closers = {Server}
    NetFails = FALSE
    Timeouts = TRUE
INVARIANTS
    StreamInOrder
    WindowKept
    Retransmittable
    NobodyForgotten
CHECK_DEADLOCK FALSE

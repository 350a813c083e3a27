SPECIFICATION Spec
CONSTANTS
    Client = Client
    Server = Server
    SeqSpace = 12
    Isn <- MCIsn
    Mss = 1
    WinSize = 2
    WinSpace = 16
    NarrowInt = FALSE
    AdvMax = 1
    RetriesMax = 0
    TimeWaitMax = 0
    SynRcvdMax = 1
    BacklogTime = 0
    Syns = 1
    Data <- ClientSends
    Closers = {Server}
    NetFails = FALSE
    Timeouts = FALSE
INVARIANTS
    StreamInOrder
CHECK_DEADLOCK FALSE

SPECIFICATION FairSpec
CONSTANTS
    Client = Client
    Server = Server
    SeqSpace = 8
    Isn <- MCIsn
    Mss = 1
    WinSize = 2
    WinSpace = 16
    NarrowInt = FALSE
    AdvMax = 1
    RetriesMax = 0
    TimeWaitMax = 0
    SynRcvdMax = 1
    BacklogTime = 0
    Syns = 1
    Data <- NoData
    Closers = {Client, Server}
    NetFails = TRUE
    Timeouts = FALSE
PROPERTIES
    ClosedDestroyed
    ConnectReturns
CHECK_DEADLOCK FALSE

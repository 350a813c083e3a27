SPECIFICATION Spec
CONSTANTS
    large = large
    small = small
    MsgQ = {large, small}
    Size <- Sizes
    Data = {d1}
    Timer = {m1}
    MsgNull = MsgNull
    Thread = {t1}
    Reader = {t1}
    FlushWhen = "careful"
    Timed = {large}
INVARIANTS
    EventForMessages
    MessageForEvent
    TimerMessagesOwned
    OneShotsReturn
PROPERTIES
    ChannelsImplemented

SPECIFICATION Spec
CONSTANTS
    large = large
    small = small
    MsgQ = {large}
    Size <- Sizes
    Data = {d1}
    Timer = {}
    MsgNull = MsgNull
    Thread = {t1}
    Reader = {t1}
    FlushWhen = "waiting"
    Timed = {large}
INVARIANTS
    MessageForEvent

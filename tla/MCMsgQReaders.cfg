SPECIFICATION Spec
CONSTANTS
    large = large
    small = small
    MsgQ = {large}
    Size <- Sizes
    Data = {d1}
    Timer = {}
    MsgNull = MsgNull
    Thread = {t1, t2}
    Reader = {t1, t2}
    FlushWhen = "careful"
    Timed = {large}
INVARIANTS
    MessageForEvent

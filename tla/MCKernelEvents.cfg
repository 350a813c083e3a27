SPECIFICATION Spec
CONSTANTS
    NULL = NULL
    SIGNALED = SIGNALED
    Idle = idle
    Main = main
    Thread = {idle, main, t1, t2}
    Queue = {q1}
    Timer = {h1, h2}
    Priority = {100}
    Delay = {1}
    Calls = {"NutEventWait", "NutEventWaitNext", "NutEventPostAsync",
             "NutEventBroadcastAsync", "NutThreadSetPriority", "NutSleep",
             "NutThreadCreate"}
    HeapMayFail = TRUE
    MaxPend = 1
    MaxPost = 2
PROPERTIES
    EventsImplemented
SYMMETRY BlockSymmetry

SPECIFICATION FairSpec
CONSTANTS
    NULL = NULL
    SIGNALED = SIGNALED
    Idle = idle
    Main = main
    Thread = {idle, main, t1}
    Queue = {q1}
    Timer = {h1, h2}
    Priority = {64}
    Delay = {1}
    Calls = {"NutEventWait", "NutEventPostAsync", "NutThreadYield",
             "NutSleep", "NutThreadCreate"}
    HeapMayFail = FALSE
    MaxPend = 1
    MaxPost = 1
PROPERTIES
    EventsDelivered
    TimedWaitReturns
    RoundRobin

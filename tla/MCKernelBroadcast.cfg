SPECIFICATION Spec
CONSTANTS
    NULL = NULL
    SIGNALED = SIGNALED
    Idle = idle
    Main = main
    Thread = {idle, main, t1}
    Queue = {q1}
    Timer = {h1, h2}
    Priority = {100}
    Delay = {1, 2}
    Calls = {"NutEventWait", "NutEventWaitNext", "NutEventPostAsync",
             "NutEventPost", "NutEventBroadcastAsync", "NutEventBroadcast",
             "NutThreadYield", "NutSleep", "NutThreadSetPriority",
             "NutThreadCreate", "NutThreadExit"}
    HeapMayFail = FALSE
    MaxPend = 2
    MaxPost = 2
PROPERTIES
    BroadcastClears

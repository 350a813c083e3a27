SPECIFICATION Spec
CONSTANTS
    Timer = {h1, h2, h3}
    Ms = {1, 2, 3}
    Callback = {"NutEventTimeout"}
    Flags = {"TM_ONESHOT", "periodic"}
    TickClock = 1
    Second = 1
    Word = 8
    MaxPend = 3
INVARIANTS
    DueKept
PROPERTIES
    TimersImplemented
    KernelView
SYMMETRY TimerSymmetry

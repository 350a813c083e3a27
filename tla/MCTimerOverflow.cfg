SPECIFICATION Spec
CONSTANTS
    Timer = {h1}
    Ms = {3, 5}
    Callback = {"NutEventTimeout"}
    Flags = {"TM_ONESHOT", "periodic"}
    TickClock = 4
    Second = 4
    Word = 16
    MaxPend = 3
PROPERTIES
    NeverEarly
SYMMETRY TimerSymmetry

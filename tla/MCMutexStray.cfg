SPECIFICATION Spec
CONSTANTS
    Thread = {t1, t2}
    NoThread = NoThread
    Word = 8
    MaxDepth = 2
    StrayUnlock = TRUE
INVARIANTS
    UnlocksOwed

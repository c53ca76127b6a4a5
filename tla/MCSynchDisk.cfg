CONSTANTS
    Threads = {t1, t2}
    NULL = NULL
    Sectors = {s1, s2}
    Values = {v0, v1}
    Blank = v0
SPECIFICATION SynchFairSpec
INVARIANTS
    OneRequest
    ReturnsCurrent
PROPERTIES
    CallsReturn

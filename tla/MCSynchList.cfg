CONSTANTS
    NULL = NULL
    Callers = {"t1", "t2", "t3", "t4"}
    MaxItems = 3
SPECIFICATION SynchListFairSpec
CHECK_DEADLOCK FALSE
INVARIANTS
    EachItemAwaited
    FirstInFirstOut
PROPERTIES
    ItemTaken

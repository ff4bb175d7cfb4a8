CONSTANTS
    t1 = t1
    t2 = t2
    t3 = t3
    NoThread = NoThread
    NumLocks = 2
    NESTING_DEPTH = 8
    Threads <- MCThreads
    Pri <- MCPri
SPECIFICATION Spec
INVARIANT NoPriorityInversion

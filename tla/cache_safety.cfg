CONSTANTS
    t1 = t1
    t2 = t2
    t3 = t3
    Threads <- MCThreads
    NumSectors = 3
    MAX_CACHE_SIZE = 2
    MaxWrites = 1
    WriteBehind = TRUE
    WB = WB
    NoHolder = NoHolder
SPECIFICATION Spec
INVARIANT TypeOK
INVARIANT PinnedBufferHoldsSector
INVARIANT OneBufferPerSector
PROPERTY FetchCompletes

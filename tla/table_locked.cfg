CONSTANTS
    t1 = t1
    t2 = t2
    n1 = n1
    n2 = n2
    NoThread = NoThread
    BLOCK_SECTOR_SIZE = 2
    NUM_DIRECT_BLOCKS = 2
    NUM_INDIRECT_BLOCKS = 1
    NUM_INDIRECT_BLOCK_PTRS = 2
    NumDiskSectors = 6
    SIZE_T_MOD = 256
    Threads <- MCThreads
    Names <- MCNames
    MemSlots <- MCSlots
    Lengths <- MCTableLengths
    FileLock = TRUE
    MaxCreates = 2
    FdBase = 2
    MaxFd = 4
SPECIFICATION Spec
INVARIANT TypeOK
INVARIANT OneInodePerSector
INVARIANT OpenCountIsOpeners
INVARIANT DenyCountIsDeniers
INVARIANT OpenFileNotFreed
PROPERTY RegistryRefinement

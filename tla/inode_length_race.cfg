CONSTANTS
    BLOCK_SECTOR_SIZE = 2
    NUM_DIRECT_BLOCKS = 2
    NUM_INDIRECT_BLOCKS = 1
    NUM_INDIRECT_BLOCK_PTRS = 2
    NumDiskSectors = 12
    SIZE_T_MOD = 256
    t1 = t1
    t2 = t2
    Threads <- MCThreads2
    Offsets <- MCOffsets
    Sizes <- MCSizes
SPECIFICATION Spec
PROPERTY LengthNeverShrinks

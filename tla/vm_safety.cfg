CONSTANTS
    p1 = p1
    p2 = p2
    f1 = f1
    f2 = f2
    NoProc = NoProc
    NoFrame = NoFrame
    NoEntry = NoEntry
    NoPTE = NoPTE
    NumSwapSlots = 1
    MaxMapId = 2
    AllocMayFail = TRUE
    Procs <- MCProcs
    Frames <- MCFrames
    Pages <- MCPages
    MapLens <- MCMapLens
SYMMETRY MCSymmetry
SPECIFICATION Spec
INVARIANT TypeOK
INVARIANT MmapEntriesTracked
CHECK_DEADLOCK FALSE

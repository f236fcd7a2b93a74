CONSTANTS
    NSegments = 5
    SegBlocks = 3
    NDirect = 2
    NIndirect = 2
    BlockSize = 1
    Interval = 2
    UIntBlocks = 16
    Data <- MCData
    Extents <- MCExtents
    Sizes <- MCSizes
    Modes <- MCModes
    MaxINum = 2
    MaxRequests = 6
    CleaningStart = 3
    CleaningEnd = 4
    d1 = d1
    d2 = d2
    Zero = Zero
    NO_INUM = NO_INUM
    NoAddress = NoAddress
    Dead = Dead
    NoFile = NoFile
    Unknown = Unknown
SPECIFICATION ViewedSpec
SYMMETRY MCSymmetry
INVARIANTS
    CleaningKeepsFiles
CHECK_DEADLOCK FALSE

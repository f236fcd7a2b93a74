CONSTANTS
    NSegments = 3
    SegBlocks = 3
    NDirect = 1
    NIndirect = 2
    BlockSize = 2
    Interval = 2
    UIntBlocks = 16
    Data <- MCData
    Extents <- MCExtents
    Sizes <- MCSizes
    Modes <- MCModes
    MaxINum = 3
    MaxRequests = 7
    d1 = d1
    d2 = d2
    Zero = Zero
    NO_INUM = NO_INUM
    NoAddress = NoAddress
    Dead = Dead
    NoFile = NoFile
    Unknown = Unknown
SPECIFICATION Spec
SYMMETRY MCSymmetry

CHECK_DEADLOCK FALSE
INVARIANT WrittenIsReadBack

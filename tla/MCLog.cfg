SPECIFICATION Spec
CONSTANTS
    CkptSegment = 2
    FlashSize = 5
    SegBlocks = 2
    EraseBlocks = 1
    BlockSectors = 2
    WearLimit = 3
    CacheSize = 2
    Interval = 1
    UIntBlocks = 4
    o1 = o1
    o2 = o2
    d1 = d1
    d2 = d2
    Owners = {o1, o2}
    Data = {d1}
    Formatted <- OneBlock
    NO_INUM = NO_INUM
    NoAddress = NoAddress
INVARIANTS
    TypeOK
    UsageCoversLive
    LiveStored
    SettledReadsSeeWrites
VIEW WithoutRecoveryData
CHECK_DEADLOCK FALSE

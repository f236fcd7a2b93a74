SPECIFICATION AppendSpec
CONSTANTS
    CkptSegment = 2
    FlashSize = 6
    SegBlocks = 2
    EraseBlocks = 1
    BlockSectors = 3
    WearLimit = 3
    CacheSize = 1
    Interval = 2
    UIntBlocks = 4
    o1 = o1
    o2 = o2
    d1 = d1
    d2 = d2
    Owners = {o1, o2}
    Data = {d1}
    Formatted <- OneBlock
    NO_INUM = NO_INUM
    NoAddress = NoAddress
INVARIANTS
    TypeOK
    SavedRootIntact
    RecoveredUsageCoversLive
    RecoveredLiveStored
VIEW OnlyFlashWhenDown
CHECK_DEADLOCK FALSE

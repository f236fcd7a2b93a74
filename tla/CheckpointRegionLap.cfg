SPECIFICATION Spec
CONSTANTS
    CkptSegment = 2
    EraseBlocks = 2
    BlockSectors = 2
    ErasesMayFail = FALSE
    Times = {1, 2, 3, 4, 5, 6, 7}
    MaxCheckpoints = 7
INVARIANT WrittenCircularly
CHECK_DEADLOCK FALSE

SPECIFICATION Spec
CONSTANTS
    CkptSegment = 2
    EraseBlocks = 2
    BlockSectors = 2
    ErasesMayFail = TRUE
    Times = {1, 2, 3, 4, 5, 6, 7}
    MaxCheckpoints = 7
INVARIANTS
    TypeOK
    CheckpointIsValid
    RecoversNewest
PROPERTIES
    ImplementsStore
CHECK_DEADLOCK FALSE

SPECIFICATION FairSpec
CONSTANTS
    Blocks = 2
    SectorsPerBlock = 2
    WearLimit = 1
    Data = {d1, d2}
    Blank = Blank
INVARIANTS
    TypeOK
    AckedReadable
    WearCharged
PROPERTIES
    ProgramOnlyEmpty
    CallsReturn

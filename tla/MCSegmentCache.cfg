SPECIFICATION Spec
CONSTANTS
    Segments = {s1, s2, s3, s4}
    Objects = {m1, m2, m3, m4}
    cache_size = 3
INVARIANTS
    TypeOK
    NoDuplicates
    OneOwner
PROPERTIES
    ImplementsLRU
CHECK_DEADLOCK FALSE

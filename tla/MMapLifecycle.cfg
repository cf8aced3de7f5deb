\* Buffers are closed, freed or lost in any order; mmap may fail.
SPECIFICATION FairSpec
CONSTANTS
    Map = {m1, m2, m3}
    Addr = {x1, x2}
    FAILED = minusOne
    Size = {1, 2}
    None = none
INVARIANTS
    OnlyFreedBuffersInterfere
    EveryMappingIsTracked
    TotalIsMapped
PROPERTIES
    LostMappingsGoAway

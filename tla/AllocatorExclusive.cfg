\* Clients own their objects exclusively; three objects share two addresses.
SPECIFICATION FairSpec
CONSTANTS
    Thread = {t1, t2}
    Collector = gc
    Mem = {m1, m2, m3}
    Addr = {a1, a2}
    Size = {0, 8, 16}
    Garbage = {0}
    None = none
    Aliasing = FALSE
    AllReleasers = {}
INVARIANTS
    TypeOK
    UsableMemoryIsIntact
    TotalIsExact
PROPERTIES
    CollectorSparesLiveObjects
    ServiceRefinement
    AbandonedBlocksAreFreed

\* Any client: shared objects, repeated releases, releaseAll at any moment.
SPECIFICATION Spec
CONSTANTS
    Thread = {t1, t2}
    Collector = gc
    Mem = {m1, m2, m3}
    Addr = {a1, a2}
    Size = {8}
    Garbage = {8}
    None = none
    Aliasing = TRUE
    AllReleasers = {t1, t2}
SYMMETRY Symmetry
CONSTRAINT TotalBound
INVARIANTS
    FreesOnlyAllocated
    EveryBlockIsTracked
    EveryEntryCanBeCollected

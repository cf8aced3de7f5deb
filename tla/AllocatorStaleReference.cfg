\* releaseAll leaves references in the queue; the collector acts on them.
SPECIFICATION Spec
CONSTANTS
    Thread = {t1}
    Collector = gc
    Mem = {m1, m2}
    Addr = {a1}
    Size = {8}
    Garbage = {0}
    None = none
    Aliasing = FALSE
    AllReleasers = {t1}
PROPERTIES
    CollectorSparesLiveObjects

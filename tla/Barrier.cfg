\* Three JVMs, with or without a file left by an earlier run.
SPECIFICATION Spec
CONSTANTS
    numJVMs = 3
    File = {f1, f2}
    None = none
    SleepSuffices = TRUE
    AtomicOpen = TRUE
INVARIANTS
    TypeOK
    NobodyPassesEarly
PROPERTIES
    EveryoneGetsThrough

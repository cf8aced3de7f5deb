\* Two processes open a region of the same file at the same time.
SPECIFICATION Spec
CONSTANTS
    Buffer = {b1, b2}
    PageSize = 2
    MaxFile = 4
    InitialSize = 1
    Offset = {0, 1, 2}
    Size = {1, 2}
    OneAtATime = FALSE
    ClearsUnaligned = FALSE
SYMMETRY Symmetry
INVARIANTS
    FileHoldsWhatWasPut

\* Regions at any offset over one file, opened one after another.
SPECIFICATION Spec
CONSTANTS
    Buffer = {b1, b2}
    PageSize = 2
    MaxFile = 4
    InitialSize = 1
    Offset = {0, 1, 2}
    Size = {1, 2}
    OneAtATime = TRUE
    ClearsUnaligned = FALSE
SYMMETRY Symmetry
INVARIANTS
    TypeOK
    NoFault
    FileHoldsWhatWasPut
    FlushedDataSurvives

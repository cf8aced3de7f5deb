\* Builders of one- and two-byte elements, fed with whole elements by clients
\* and with chunks of files by loadFrom; streams over what was loaded.
SPECIFICATION StreamSpec
CONSTANTS
    ElementSize = {1, 2}
    Chunk = {1, 6}
    Count = {1, 4}
    MaxBytes = 34
    Array = {a1, a2, a3}
    None = none
    SplitsElements = FALSE
    FileLength = {0, 6, 34}
    SaveLength = {8}
    MaxTransfer = 7
    TransferSize = 3
    MaxWrite = 8
    ReadLength = {1, 4}
    WideStreams = FALSE
    ReadsBlindly = FALSE
INVARIANTS
    StreamTypeOK
    StaysInsideArray
    HoldsWhatWasAdded
    LoadedIsFile
    ReadsStayInside
    EndMeansEnd
PROPERTIES
    ResultsAreComplete
    OnlyClearTakesBack
    NoStaleRelease

\* Mappings inside and at the limits of a DWORD; flushes race with close.
SPECIFICATION NativeSpec
CONSTANTS
    Thread = {t1, t2}
    MaxFile = 5
    Offset = {1, 4}
    Size = {1}
    PageSize = 2
    Granularity = 4
    Dword = 2
    MaxVersion = 1
    ArrayLength = 1
    AlignsToGranule = TRUE
    FitsDword = TRUE
    SharesArray = FALSE
INVARIANTS
    NativeTypeOK
    ViewShowsRegion
    FlushedIsDurable
    CloseSparesFlush
    ArrayHoldsCopies
PROPERTIES
    MsyncReturns

\* Arrays of up to two blocks; iterators used in any order but one.
SPECIFICATION BitIterSpec
CONSTANTS
    W = 3
    MaxBits = 6
    Hint = {1, 5}
    Appends = FALSE
    LateLeading = FALSE
INVARIANTS
    BitIterTypeOK
    BitsHaveRoom
    NothingIsLost
PROPERTIES
    IsBitSequence
    EachIsAStream

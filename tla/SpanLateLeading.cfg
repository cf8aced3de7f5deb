\* Clients go back to the leading iterator of span.
SPECIFICATION BitIterSpec
CONSTANTS
    W = 3
    MaxBits = 6
    Hint = {1, 5}
    Appends = FALSE
    LateLeading = TRUE
INVARIANTS
    EachGetsItsShare

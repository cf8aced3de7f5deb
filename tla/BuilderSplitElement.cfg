\* Buffers that end in the middle of an element.
SPECIFICATION Spec
CONSTANTS
    ElementSize = {2}
    Chunk = {1, 4}
    Count = {2}
    MaxBytes = 8
    Array = {a1, a2, a3}
    None = none
    SplitsElements = TRUE
INVARIANTS
    StaysInsideArray

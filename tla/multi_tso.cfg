CONSTANTS
    Producers = {p1, p2}
    Readers = {r1}
    Size = 2
    MaxCursor = 3
    WordMod = 64
    StoreBuffers = TRUE
SPECIFICATION Spec
CHECK_DEADLOCK FALSE
INVARIANTS NothingLeftBehind

CONSTANTS
    b1 = b1  b2 = b2  b3 = b3
    Blocks = {b1, b2, b3}
    First = {b1, b2}
    NRunners = 2
    Batch <- Dealt
    Hash <- Hashed
    MaxMessages = 1
    LateStart = FALSE
SPECIFICATION Spec
CHECK_DEADLOCK FALSE
INVARIANTS EveryBlockServed

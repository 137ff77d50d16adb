CONSTANTS
    Producers = {p1, p2}
    Readers = {r1}
    Size = 2
    MaxCursor = 3
    WordMod = 64
    StoreBuffers = TRUE
    ChunkReaders = {c1}
    Capacity = 2
    Fit = 2
    MaxChunks = 2
    KeepResident = 1
    MaxStores = 4
    Values = {0, 1}
    Zero = 0
    Capacities = {1, 2, 3}
    FirstCapacity = 3
    Rounded = TRUE
SPECIFICATION BuffersSpec
CHECK_DEADLOCK FALSE
INVARIANTS UnreadIntact NothingLost BlobIntact SpansHoldHistory
PROPERTIES CallsReturn

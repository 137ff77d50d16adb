CONSTANTS
    Keys = {"a", "b", "k"}
    Spilled = {"k"}
    KeyLength = 35
    Values <- SomeValues
    Sources <- AnyRecords
    FirstEntries = 2
    FirstPool = 0
    ChildSize = 80
    MaxUsed = 144
    MaxOps = 5
SPECIFICATION Spec
CHECK_DEADLOCK FALSE
INVARIANTS RecordsApart

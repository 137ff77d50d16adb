CONSTANTS
    Prims = {a, b, c}
    Groups = {g, h}
    None = none
    MaxEdges = 2
    Keys = {"a", "b", "k"}
    Spilled = {"k"}
    KeyLength = 35
    Values <- SomeValues
    Sources <- WholeRecords
    FirstEntries = 2
    FirstPool = 0
    ChildSize = 80
    MaxUsed = 144
    MaxOps = 5
SPECIFICATION StructuresSpec
CHECK_DEADLOCK FALSE
INVARIANTS WiringMatchesEdges RegionsApart
PROPERTIES FlowKept
SYMMETRY Symmetry

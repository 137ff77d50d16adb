CONSTANTS
    Clients = {c1, c2}
    Cases <- SomeCases
    MaxChunk = 2
    Room = 2
    TagRoom = 2
    SetRoom = 1
    Params = {"gain", "rate"}
    Values = {0, 1}
    Names = {"", "beam"}
    Default = ""
    Forwarded = {"rate"}
    Factory = 0
    Expiries = {2, 9}
    Never = 9
    Fallbacks <- FallbackToDefault
    Initial <- GainByHand
    Requests <- SomeRequests
    MaxTime = 3
    MaxCalls = 3
SPECIFICATION BothSpec
CHECK_DEADLOCK FALSE
INVARIANTS StreamsAreWhole WindowsAreWhole LookupsSurviveRemoval 
PROPERTIES EndReachesClients ManualIsKept NothingDropped

CONSTANTS
    Params = {"gain", "rate"}
    Values = {0, 1}
    Names = {"", "beam"}
    Default = ""
    Fallbacks <- FallbackToDefault
    Forwarded = {"rate"}
    Initial <- GainByHand
    Factory = 0
    Expiries = {9}
    Never = 9
    MaxTime = 3
    Requests <- SomeRequests
    MaxCalls = 3
SPECIFICATION Spec
CHECK_DEADLOCK FALSE
PROPERTIES OnlyAutomaticFollowTags

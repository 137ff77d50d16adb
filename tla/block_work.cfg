CONSTANTS
    Configs <- Kinds
    Length = 4
    MaxTags = 2
    OutCapacity = 2
    Unlimited = 40
    MaxRefusals = 1
    Stoppable = TRUE
SPECIFICATION FairSpec
CHECK_DEADLOCK FALSE
INVARIANTS ChunkIsLawful TagsForwardedOnce
PROPERTIES EndIsPassedOn

CONSTANTS
    N = 2
    K = 2
    i1 = i1
    i2 = i2
    Item <- Items2
    CreateRanks <- Root
    MayAbort <- AllRanks
    SplitEqual = TRUE
    InOrder = TRUE
SPECIFICATION FairSpec
CHECK_DEADLOCK FALSE
PROPERTIES
    AbortHonoured

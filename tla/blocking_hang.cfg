CONSTANTS
    N = 2
    K = 1
    i1 = i1
    Item <- Items1
    CreateRanks <- Root
    MayAbort = {}
    SplitEqual = FALSE
    ReduceEnabled = FALSE
    Rendezvous = TRUE
    MaxRounds = 0
SPECIFICATION FairReduceSpec
CHECK_DEADLOCK FALSE
PROPERTIES
    AllReturn

CONSTANTS
    N = 3
    K = 1
    i1 = i1
    Item <- Items1
    CreateRanks <- Root
    MayAbort = {}
    SplitEqual = FALSE
    ReduceEnabled = TRUE
    Rendezvous = FALSE
    MaxRounds = 2
SPECIFICATION ReduceWorkerSpec
INVARIANTS
    RoundsNest
    NoRoundPastBarrier
    FinalExact
PROPERTIES
    ResultExact

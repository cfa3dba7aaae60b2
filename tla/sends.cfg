CONSTANTS
    N = 2
    K = 1
    i1 = i1
    i2 = i2
    i3 = i3
    Item <- Items3
    CreateRanks <- Root
    MayAbort <- Root
    SplitEqual = FALSE
    BacklogPerRank = 1
    MaxSends = 3
SPECIFICATION SendSpec
INVARIANTS
    SendsMatched
    NothingTorn
    BuffersHeld
    SendsReceivable
SYMMETRY Symmetric

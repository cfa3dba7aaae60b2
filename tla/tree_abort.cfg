CONSTANTS
    N = 3
    K = 1
    i1 = i1
    i2 = i2
    i3 = i3
    Item <- Items1
    CreateRanks <- Root
    MayAbort <- AllRanks
    SplitEqual = FALSE
SPECIFICATION Spec
SYMMETRY Symmetric
INVARIANTS
    TermRounds
    AnySourceIsChild
    NothingLost
    AbortAgreement
    CleanExit

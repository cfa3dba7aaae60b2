CONSTANTS
    N = 3
    K = 2
    i1 = i1
    i2 = i2
    i3 = i3
    Item <- Items3
    CreateRanks <- AllRanks
    MayAbort = {}
    SplitEqual = FALSE
SPECIFICATION Spec
SYMMETRY Symmetric
INVARIANTS
    TypeOK
    WorkConserved
    RoundSound
    SplitKeepsOne
    OneConversation
    ReceiptsBalance
    TerminationSafe
    NothingLeftOver
PROPERTIES
    ImplementsPool

CONSTANTS
    N = 3
    K = 2
    i1 = i1
    i2 = i2
    Item <- Items2
    CreateRanks = {2}
    MayAbort <- Root
    SplitEqual = TRUE
    InOrder = FALSE
SPECIFICATION Spec
CHECK_DEADLOCK FALSE
SYMMETRY Symmetric
INVARIANTS
    TypeOK
    WorkConserved
    SplitKeepsOne
    OneToken
    RingSafeUnlessOverlap

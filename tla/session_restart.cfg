CONSTANTS
    N = 2
    K = 1
    i1 = i1
    i2 = i2
    Item <- Items2
    CreateRanks <- Root
    MayAbort <- AllRanks
    SplitEqual = FALSE
    MaxSessions = 2
    Reuse = FALSE
SPECIFICATION FairSessionSpec
INVARIANTS
    NeverLost
    SessionsApart
    FilesAreTheRest
    BeginCompletes
PROPERTIES
    AbortSticks
    CallsReturn

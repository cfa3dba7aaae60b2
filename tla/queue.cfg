CONSTANTS
    r1 = r1
    r2 = r2
    s1 = s1
    s2 = s2
    s3 = s3
    Ranks <- TwoRanks
    Strings <- ThreeStrings
    Size <- Sizes
    MAX_STRING_LEN = 2
    INITIAL_SIZE = 1
    StringStep = 1
    ByteStep = 2
    MaxTransfer = 3
    MaxItems = 4
    Junk = Junk
SPECIFICATION QueueSpec
CHECK_DEADLOCK FALSE
SYMMETRY Symmetric
INVARIANTS
    InBounds
    Laid
PROPERTIES
    ImplementsStacks

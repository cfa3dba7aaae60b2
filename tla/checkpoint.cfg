CONSTANTS
    x = x
    Newline = Newline
    Char <- Chars
    Strings <- AllStrings
    MAX_STRING_LEN = 3
    MaxItems = 3
SPECIFICATION CheckpointSpec
INVARIANTS
    FileRestores

SPECIFICATION FairSpec
CONSTANTS
    Base = 10
    MaxSize = 13
    Usize = 100000000
    Messages <- MCMessages
    Piece = 12
    BufLen = 5
    MaxSent = 2
INVARIANTS
    TypeOK
    NoPanic
PROPERTIES
    ImplementsBlocks
    AllRead
CHECK_DEADLOCK FALSE

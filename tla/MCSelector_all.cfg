CONSTANTS
    Len = 4
    Proposer = {p1, p2}
    Shipped = 5
    MaxDescriptor = 5
    MaxFlips = 2
    MaxStarts = 1
    Unknown = Unknown
    Garbage = {0, 9}

SPECIFICATION FairSpec
INVARIANTS
    TypeOK
    CountBounds
    FileIsLastCount
    QuorumsMeet
PROPERTIES
    SettlesOrEnds
CHECK_DEADLOCK FALSE

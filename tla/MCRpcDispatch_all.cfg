CONSTANTS
    c1 = c1
    c2 = c2
    v1 = v1
    Client = {c1, c2}
    Thread = {t1, t2}
    InitPuts <- OnePut
    Typed <- Anything
    MaxCalls <- Calls
    MaxOverlaps = 1
    JunkKeys = {0}
    Junk = Junk
    TableSize = 1
    Value = {v1}
    Blank = Blank
    InvalidKey = InvalidKey
    None = None

SPECIFICATION FairSpec
INVARIANTS
    TypeOK
PROPERTIES
    EveryCallReturns
    ServesUntilOverlap
CHECK_DEADLOCK FALSE

CONSTANTS
    v1 = v1
    v2 = v2
    InitPuts <- ThreePuts
    Length <- Lengths
    Typed <- Anything
    SendLimit = 3
    MaxCommands = 5
    TableSize = 3
    Value = {v1, v2}
    Blank = Blank
    InvalidKey = InvalidKey
    Mangled = Mangled
    None = None

SPECIFICATION FairSpec
INVARIANTS
    TypeOK
    OutOfStepOnlyAfterInit
    NoMangledValue
PROPERTIES
    ServesUntilTimeout
    ServerEnds
CHECK_DEADLOCK FALSE

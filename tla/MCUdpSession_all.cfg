CONSTANTS
    v1 = v1
    v2 = v2
    InitPuts <- TwoPuts
    Typed <- Anything
    SendLimit = 3
    MaxCommands = 4
    TableSize = 2
    Value = {v1, v2}
    Blank = Blank
    InvalidKey = InvalidKey
    None = None

SPECIFICATION Spec
INVARIANTS
    TypeOK
    OutOfStepOnlyAfterInit
    AnsweredOnce
PROPERTIES
    ServesUntilTimeout
CHECK_DEADLOCK FALSE

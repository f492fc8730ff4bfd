CONSTANTS
    h1 = h1
    h2 = h2
    s1 = s1
    s2 = s2
    n01 = n01
    n02 = n02
    v1 = v1
    v2 = v2
    Handler = {h1, h2}
    Server = {s1}
    Home <- OneServer
    Peer = {n01, n02}
    First = n01
    Shared = {s1}
    Leftover = Leftover
    Torn = Torn
    Request <- AllOps
    TableSize = 1
    Value = {v1, v2}
    Blank = Blank
    InvalidKey = InvalidKey
    MaxCalls = 2
    Backlog = 1
    Mortal = {}
    StaleBuffer = FALSE
    None = None

SPECIFICATION FairSpec
PROPERTIES
    EveryCallAnswered
CHECK_DEADLOCK FALSE

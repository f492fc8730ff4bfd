CONSTANTS
    h1 = h1
    h2 = h2
    s1 = s1
    s2 = s2
    n01 = n01
    n02 = n02
    n03 = n03
    n04 = n04
    n05 = n05
    v1 = v1
    v2 = v2
    nfs = nfs
    Handler = {h1, h2}
    Server = {s1, s2}
    Home <- TwoServers
    Acceptor = {n01, n02}
    First = n01
    Disk = {nfs}
    DiskOf <- SharedDisk
    AliveCounts = {2}
    InitialId = 0
    Garbage = {0, 5}
    LogSize = 5
    Leftover = Leftover
    Torn = Torn
    Request <- WriteAndRead
    TableSize = 1
    Value = {v1, v2}
    Blank = Blank
    InvalidKey = InvalidKey
    MaxCalls = 1
    MaxId = 6
    MaxRestarts = 0
    MaxMixes = 1
    Backlog = 2
    Down = {}
    Mortal = {s1}
    None = None

SPECIFICATION Spec
INVARIANTS
    TypeOK
    QuorumBeforeAccept
    LearntIsAccepted
    AnsweredOnItsWay
    ReadAfterWrite
    GetLagsByOne
    MessagesMatch
CHECK_DEADLOCK FALSE

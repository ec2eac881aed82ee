SPECIFICATION FairSpec
CONSTANTS
    a = a
    b = b
    q = q
    c1 = c1
    c2 = c2
    none = none
    Res <- MCRes
    Queue = q
    Active = {a}
    Conn <- MCConn
    NoConn = none
    KeepLatest = 0
    MaxDelete = 2
    PageSize = 1
    SyncPage = 1
    Capacity = 1
    MaxSubscribers = 1
    MaxSeq = 2
    MaxEpoch = 2
    MaxFaults = 1
INVARIANTS
    NothingIsLost
    StreamsAreSound
PROPERTIES
    Converges
CHECK_DEADLOCK FALSE

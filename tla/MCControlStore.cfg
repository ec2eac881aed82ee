CONSTANTS
    j1 = j1
    j2 = j2
    s1 = s1
    Ops <- MCOps
    Kind <- MCKind
    MaxRevision <- MCMaxRevision
    MaxQueueRevision = 4
SPECIFICATION StoreSpec
INVARIANTS
    TypeOK
    SlotCoherence
    FlagsMatchStatus
    OrderIsStrict
PROPERTIES
    HistoryIsLawful
    KeepsPromise
CHECK_DEADLOCK FALSE

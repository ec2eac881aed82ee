CONSTANTS
    j1 = j1
    g1 = g1
    NoJob = NoJob
    Ops <- OneJob
    Guis <- OneGui
    Quitters <- NoQuitter
    Kind <- MCKind
    MaxRevision <- NoCommands
    MaxQueueRevision = 4
    MaxUnclear = 0
SPECIFICATION FairSpec
PROPERTIES
    RestartLiftsRecovery
CHECK_DEADLOCK FALSE

CONSTANTS
    j1 = j1
    g1 = g1
    NoJob = NoJob
    Ops <- OneJob
    Guis <- OneGui
    Quitters <- OneGui
    Kind <- MCKind
    MaxRevision <- NoCommands
    MaxQueueRevision = 4
    MaxUnclear = 0
SPECIFICATION Spec
INVARIANTS
    StopAsksTheAttempt
CHECK_DEADLOCK FALSE

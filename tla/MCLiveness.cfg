CONSTANTS
    j1 = j1
    g1 = g1
    NoJob = NoJob
    Ops <- OneJob
    Guis <- OneGui
    Quitters <- OneGui
    Kind <- MCKind
    MaxRevision <- UntilLaunched
    MaxQueueRevision = 5
    MaxUnclear = 1
    MaxProgress = 2
SPECIFICATION LiveSpec
INVARIANTS
    BothAgreeOnTheEnd
PROPERTIES
    CancelIsAnswered
    RecoveryFreesSlot
    NeverBlocksHeld
    RecoverIsIdempotent
    CancelEndsRun
CHECK_DEADLOCK FALSE

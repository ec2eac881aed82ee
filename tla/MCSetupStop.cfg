CONSTANTS
    s1 = s1
    s2 = s2
    g1 = g1
    g2 = g2
    p1 = p1
    a1 = a1
    NoJob = NoJob
    NoId = NoId
    Ops <- OneSetup
    Guis <- OneGui
    Quitters <- OneGui
    Plans <- OnePlan
    Approvals <- OneApproval
    Gated = FALSE
    Kind <- MCKind
    MaxRevision <- UntilStarted
    MaxQueueRevision = 5
    MaxUnclear = 0
    MaxDrift = 0
SPECIFICATION FairExecutorSpec
PROPERTIES
    SetupCancelIsAnswered
INVARIANTS
    SuccessHasFreshEvidence
CHECK_DEADLOCK FALSE

CONSTANTS
    s1 = s1
    s2 = s2
    g1 = g1
    g2 = g2
    p1 = p1
    a1 = a1
    NoJob = NoJob
    NoId = NoId
    Ops <- TwoSetups
    Guis <- OneGui
    Quitters <- NoQuitter
    Plans <- OnePlan
    Approvals <- OneApproval
    Gated = TRUE
    Kind <- MCKind
    MaxRevision <- Early
    MaxQueueRevision = 5
    MaxUnclear = 0
    MaxDrift = 1
SPECIFICATION ExecutorSpec
PROPERTIES
    CancelWins
INVARIANTS
    NoStrayChild
    StepsAreCoherent
    ApprovalIsOneUse
CHECK_DEADLOCK FALSE

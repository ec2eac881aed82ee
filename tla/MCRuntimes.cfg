CONSTANTS
    j1 = j1
    j2 = j2
    g1 = g1
    g2 = g2
    NoJob = NoJob
    Ops = {j1, j2}
    Guis = {g1, g2}
    Quitters = {g1, g2}
    Kind <- MCKind
    MaxRevision <- UntilLaunched
    MaxQueueRevision = 5
    MaxUnclear = 0
SPECIFICATION RuntimesSpec
SYMMETRY Symmetry
INVARIANTS
    WorkerHoldsLease
    LiveOwnerKeepsLease
    LaunchFailedMeansNoWorker
    DeactivatedOwnsNothing
CHECK_DEADLOCK FALSE

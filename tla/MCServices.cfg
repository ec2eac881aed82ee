SPECIFICATION ServicesSpec
SYMMETRY Symmetry
CONSTANTS
    Procs = {p1, p2, p3}
    Launches <- SomeLaunches
    Overlap = FALSE
    Reused = {p1}
    LastId = 3
    PostKeys = {"k1", "k2"}
    PostBodies = {"b1"}
    Senders = {c1, c2}
    PageLimit = 1
    MaxGen = 4
    Threads = {t1, t2}
    Keys = {"k1", "k2"}
    Tokens = {"r1"}
    Bodies <- TokenBodies
    MaxEnv = 2
    Jobs = {j1, j2}
    Clients = {canceller}
    Runtimes = {r1, r2}
    Shutdown = Shutdown
    Handlers = {h1, h2}
    Scenes <- SomeScenes
    Machines = {"as resolved", "changed"}
    MaxRevision = 4
    MaxMade = 2
    o1 = o1
    o2 = o2
    Pages = {onePage}
    Profiles = {"cpu", "intel"}
    Native = {"intel"}
    MaxJobs = 6
    MaxMishaps = 2
    Openers = {o1, o2}
    Layout <- TwoLayouts
    Copying = {o2}
    Found <- SomeFiles
    MaxWrites = 2
    MaxCrashes = 2
    Writes = {0, 1, 2, 3}
    Limit = 2
    Recipes <- SomeRecipes
    Deployments <- SomeDeployments
    Preset <- TheDefaults
    Common <- NoCommonOnes
    Files <- SomeOverrides
    Policies <- SomePolicies
    Reports <- SomeReports
    Paths = {"worker", "cli"}
    MaxTime = 2
INVARIANTS
    ResumeIsSafe
    
    ListIsASnapshot
    HandOverIsSafe
    AnswerIsWhole
    DoneIsEarned
PROPERTIES
    CompletedStagesAreKept
    StoreIsSafe
    CommandsAreOnce
    ChosenIsProven
CHECK_DEADLOCK FALSE

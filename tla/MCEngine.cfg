SPECIFICATION Spec
CONSTANTS
    Callers = {c1, c2}
    Machine <- TwoMachines
    Found <- SomeFound
    Asked <- SomeAsked
    Surroundings <- SomeSurroundings
    MaxChanges = 1
    MaxFailures = 1
    Settings <- BatchSettings
    Minutes <- SomeMinutes
    Readings <- SomeReadings
    Releases = {1, 2}
    Requests <- SomeRequests
    MaxBuilds = 2
    Processes = {p1, p2}
    Quantisations <- SomeQuantisations
    Cached = {"q8"}
    BadHeads = TRUE
    MaxCommands = 4
    MaxEncoders = 2
    MaxCrashes = 1
INVARIANTS
    BatchIsSound
    TranscriptIsWhole
    RunnableIsCurrent
    VerifiedEncoderIsCurrent
PROPERTIES
    ChoosesWhatIsThere
CHECK_DEADLOCK FALSE

SPECIFICATION DirectorySpec
CONSTANTS
    Procs = {p1, p2}
    Launches <- AutoWords
    Overlap = FALSE
    Reused = {}
INVARIANT ResultIsOfItsConfig
CHECK_DEADLOCK FALSE

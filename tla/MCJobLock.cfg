SPECIFICATION DirectorySpec
CONSTANTS
    Procs = {p1, p2}
    Launches <- Resumes
    Overlap = TRUE
    Reused = {}
INVARIANT OneWorksAtATime
CHECK_DEADLOCK FALSE

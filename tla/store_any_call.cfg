SPECIFICATION FairSpec
CONSTANTS
    f1 = f1
    f2 = f2
    f3 = f3
    Finds = {f1, f2}
    Prunes = {}
    Inits = {i1}
    Nobody = Nobody
    NoFile = NoFile
    Absent = Absent
    StateRoot <- TwoRoots
    Stamp <- OneStamp
    FileSize <- Sizes
    NFiles = 2
    Keep = 1
    MaxBytes = 4
    PruneKeeps = {0}
    MaxSuffix = 3
    MaxFaults = 1
    CleanupMayFail = TRUE
INVARIANTS
    RunsOfOneWriter
PROPERTIES
    EveryInvocationEnds
CHECK_DEADLOCK FALSE

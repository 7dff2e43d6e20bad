SPECIFICATION Spec
CONSTANTS
    f1 = f1
    f2 = f2
    f3 = f3
    Finds = {f1, f2, f3}
    Prunes = {}
    Inits = {i1}
    Nobody = Nobody
    NoFile = NoFile
    Absent = Absent
    StateRoot <- OneRoot
    Stamp <- TwoStamps
    FileSize <- Sizes
    NFiles = 2
    Keep = 2
    MaxBytes = 4
    PruneKeeps = {0, 1}
    MaxSuffix = 3
    MaxFaults = 1
    CleanupMayFail = FALSE
INVARIANTS
    LatestSurvives
CHECK_DEADLOCK FALSE

SPECIFICATION Spec
CONSTANTS
    f1 = f1
    f2 = f2
    f3 = f3
    Finds = {f1, f2}
    Prunes = {}
    Inits = {}
    Nobody = Nobody
    NoFile = NoFile
    Absent = Absent
    StateRoot <- TwoRoots
    Stamp <- TwoStamps
    FileSize <- Sizes
    NFiles = 2
    Keep = 2
    MaxBytes = 4
    PruneKeeps = {0, 1}
    MaxSuffix = 3
    MaxFaults = 0
    CleanupMayFail = FALSE
INVARIANTS
    LatestWhole
CHECK_DEADLOCK FALSE

SPECIFICATION Spec
CONSTANTS
    f1 = f1
    f2 = f2
    f3 = f3
    Finds = {f1, f2, f3}
    Prunes = {p1}
    Inits = {}
    Nobody = Nobody
    NoFile = NoFile
    Absent = Absent
    StateRoot <- OneRoot
    Stamp <- OneStamp
    FileSize <- Sizes
    NFiles = 2
    Keep = 2
    MaxBytes = 100
    PruneKeeps = {1}
    MaxSuffix = 3
    MaxFaults = 0
    CleanupMayFail = FALSE
INVARIANTS
    PruneKeepsNewest
CHECK_DEADLOCK FALSE

SPECIFICATION Spec
CONSTANTS
    f1 = f1
    f2 = f2
    f3 = f3
    Finds = {f1, f2, f3}
    Prunes = {p1}
    Inits = {}
    Nobody = Nobody
    NoFile = NoFile
    Absent = Absent
    StateRoot <- OneRoot
    Stamp <- TwoStamps
    FileSize <- Sizes
    NFiles = 2
    Keep = 2
    MaxBytes = 4
    PruneKeeps = {1}
    MaxSuffix = 3
    MaxFaults = 2
    CleanupMayFail = FALSE
INVARIANTS
    TypeOK
    LatestWhole
    LatestSurvives
    SuccessLeavesOwnReport
    SuccessLeavesBoundedRuns
PROPERTIES
    RegisterSpec
CHECK_DEADLOCK FALSE

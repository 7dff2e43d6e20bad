SPECIFICATION FairSpec
CONSTANTS
    w1 = w1
    w2 = w2
    w3 = w3
    Writers = {w1, w2, w3}
    Prunes = {p1}
    RunId <- Ids
    Nobody = Nobody
    NoFile = NoFile
    Absent = Absent
    MaxFaults = 2
INVARIANTS
    LatestPaired
    SuccessLeavesNothing
    RunsPaired
PROPERTIES
    RegisterSpec
    EveryWriterEnds
CHECK_DEADLOCK FALSE

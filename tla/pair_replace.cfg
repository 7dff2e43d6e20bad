SPECIFICATION PairSpec
CONSTANTS
    w1 = w1
    w2 = w2
    w3 = w3
    Writers = {w1, w2}
    Replace = {w1, w2}
    Original = Original
    Absent = Absent
    MaxFaults = 1
INVARIANT OriginalsSurvive
CHECK_DEADLOCK FALSE

SPECIFICATION XtaskSpec
CONSTANTS
    Patches = {p}
    RunEnabled = TRUE
    MaxAttempts = 2
    MaxMoves = 2
    MaxCrashes = 1
    Plans = {p1, p2}
    Ops = {o1, o2}
    MaxRuns = 3
    MaxJobs = 4
    w1 = w1
    w2 = w2
    w3 = w3
    Writers = {w1, w2, w3}
    Replace = {w3}
    Original = Original
    MaxFaults = 2
    MaxPublishes = 2
    MaxReruns = 1
    MaxReleases = 2
    MaxHands = 2
    MaxInvocations = 2
    ReleaseRepetitions = 2
    ReviewRepetitions = 2
    Structured = 5
    Accuracy = 5
    Peak = 16
    MaxFlaws = 1
    MaxEdits = 1
    Project <- FourCommits
    FirstMain = 3
    Cases <- OneCase
    Efforts <- TwoEfforts
    Options <- TwoOptions
    Hosts <- TwoHosts
    None = None
    Nil = Nil
    Absent = Absent
INVARIANTS
    PublishedIsOwnAndTested
    NothingReplayed
    PlansApplied
    PairKept
    ReleaseExact
    BenchmarkHonest
PROPERTIES
    ForeignCommitsKept
    OnlyApprovedApplied
    WrittenStays
CHECK_DEADLOCK FALSE

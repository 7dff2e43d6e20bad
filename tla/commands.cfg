SPECIFICATION CommandsSpec
CONSTANTS
    Writers = {1, 2}
    Names = {n}
    Reports = {r1, r2, r3}
    Unready = {r3}
    Packers = {1, 2}
    Strays = {f}
    None = None
    MaxRuns = 3
    MaxCheckouts = 2
    Paths <- TwoPaths
    Trees <- TwoCommits
    Contents = {c1, c2}
    TwoFiles = {1, 2}
    Scores = {0, 4, 6}
    FileLimit = 1
    ScoreDelta = 1
    f1 = f1
    f2 = f2
    c1 = c1
    c2 = c2
    MaxEdits = 2
    MaxMoves = 1
    Heartbeat = 2
    Timeout = 8
    Maximum = 2
    Words = {a, b, c}
    Caps = {2, 4}
    Sinces = {1, 3}
    MaxLog = 4
    CachedFiles <- OneText
    PayloadSize <- SmallSizes
    CacheEntries = 2
    CacheBytes = 3
    Tokenizers = {t1, t2}
    MaxScans = 2
    MaxDamage = 1
INVARIANTS
    OutputsKept
    GatesSound
    MixedOnlyByReturn
    RelationsTold
    InventoryTold
    VerificationSound
    PressureAgreed
    EvidenceKept
    AdviceBounded
    PoliciesSound
    CacheKept
    ConfigKept
    ContractKept
PROPERTIES
    CurrentOnlyForAnalyzed
CHECK_DEADLOCK FALSE

SPECIFICATION Spec
CONSTANTS
    a = a
    b = b
    a1 = a1
    a2 = a2
    b1 = b1
    Procs = {p1, p2, p3}
    Digests = {a1, a2, b1}
    IdOf <- Packs
    Commands <- Several
    None = None
    MaxFaults = 2
SYMMETRY Interchangeable
INVARIANTS
    TypeOK
    IndexNeverDangles
    OnlyLockedContent
    LockFollowsSelection
CHECK_DEADLOCK FALSE

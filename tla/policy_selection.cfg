SPECIFICATION Spec
CONSTANTS
    a = a
    b = b
    a1 = a1
    a2 = a2
    b1 = b1
    Procs = {p1, p2}
    Digests = {a1, a2, b1}
    IdOf <- Packs
    Commands <- SelectAndAdvise
    None = None
    MaxFaults = 1
PROPERTIES
    SelectionIsHonoured
CHECK_DEADLOCK FALSE

CONSTANTS
    Slots = {a, b}
    Stamps = {t1}
    Posts = {p1, p2, p3}
    NoRec = NoRec
    NoPost = NoPost
    HasFile = TRUE
    DiskMayFail = TRUE
    MaxRevocations = 2
    MaxCrashes = 0
SPECIFICATION Spec
CHECK_DEADLOCK FALSE
INVARIANTS AckedEnforced

CONSTANTS
    Slots = {a, b, c}
    Stamps = {t1, t2}
    Posts = {h1, h2, h3}
    NoRec = NoRec
    NoPost = NoPost
    HasFile = TRUE
    DiskMayFail = FALSE
    MaxRevocations = 2
    MaxCrashes = 1
    Attaches = {p1}
    Revokes = {p2}
    Dialers = {p1}
    Machines = {m1, m2}
    Elsewhere = {m1}
    None = None
    TTL = 1
    Margin = 2
    Lifetime = 3
    Timeout = 1
    MaxTime = 4
    MaxFaults = 1
SPECIFICATION RevocationsSpec
CHECK_DEADLOCK FALSE
INVARIANTS AckedEnforced DecidedFresh
PROPERTIES DroppedWriteCovered KeepsPromise

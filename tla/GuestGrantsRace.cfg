CONSTANTS
    g1 = g1
    g2 = g2
    o1 = o1
    o2 = o2
    Gids = {g1, g2}
    Owners = {o1, o2}
    OwnerOf <- MCOwnerOf
    NB <- MCNB
    NA <- MCNA
    Skew = 1
    Attaches = {a1}
    Revokers = {r1}
    ReAdd = FALSE
    NoGid = NoGid
    Torn = Torn
    MaxTime = 2
    MaxRestarts = 0
SPECIFICATION Spec
CHECK_DEADLOCK FALSE
INVARIANTS RevokedNotServed

CONSTANTS
    g1 = g1
    g2 = g2
    o1 = o1
    o2 = o2
    Gids = {g1, g2}
    Owners = {o1, o2}
    OwnerOf <- MCOwnerOf
    NB <- MCNB
    NA <- MCNA
    Skew = 1
    Attaches = {a1}
    Revokers = {r1, r2}
    ReAdd = FALSE
    NoGid = NoGid
    Torn = Torn
    MaxTime = 3
    MaxRestarts = 1
    Sessions = {s1, s2}
    MaxRelaunches = 1
    Senders = {x1, x2}
    QueueSize = 2
    Grace = 2
    MaxFrames = 4
    MaxBlips = 2
SPECIFICATION AttachSpec
CHECK_DEADLOCK FALSE
INVARIANTS NoAttachAfterRevoke EscapesOnlyInHandshake NoPumpOutlives HooksWhileHeld GapEndsSession
PROPERTIES GuestEnds BothReturn  LinkSettles

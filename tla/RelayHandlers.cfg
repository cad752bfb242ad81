CONSTANTS
    Handlers = {h1, h2, h3, h4}
    Rooms = {r1, r2}
    Nobody = Nobody
    MaxRooms = 1
    MaxBridges = 1
    Budget = 3
    FrameSizes = {1, 2}
    Slots = {a, b}
    Stamps = {t1, t2}
    Posts = {p1, p2, p3}
    NoRec = NoRec
    NoPost = NoPost
    HasFile = TRUE
    DiskMayFail = TRUE
    MaxRevocations = 1
    MaxCrashes = 1
SPECIFICATION HandlersSpec
CHECK_DEADLOCK FALSE
INVARIANTS RoomsSound DiskSound
PROPERTIES HandlersReturn

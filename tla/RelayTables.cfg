CONSTANTS
    Keys = {k1, k2, k3}
    Secrets = {x, y}
    Unstored = {none}
    NoEntry = NoEntry
    MaxProofs = 2
    MaxClock = 7
    Calls = {c1, c2}
    Addresses = {k1, k2, k3}
    Limit = 2
    Window = 2
    MaxEntries = 2
    Lag = 1
    Unseen = Unseen
    Idle = Idle
    LimiterTime = 4
    LimiterClock = 5
    Threshold = 2
    MaxSlots = 2
    NoSlot = NoSlot
    FlapWindow = 3
    FlapTime = 5
    MaxBurst = 2
    Slots = {s1}
    Conns = {c3}
    Browsers = {b1, b2}
    Proofs = {x, y}
    NoConn = NoConn
    NoProof = NoProof
    MaxAgents = 1
    MaxSessions = 1
    BrowserOutCap = 1
SPECIFICATION TablesSpec
CHECK_DEADLOCK FALSE
SYMMETRY Symmetry
INVARIANTS SessionsTold
PROPERTIES TablesSound LimitsExact

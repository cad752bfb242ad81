CONSTANTS
    N = 3
    Windows = {1, 3}
    MaxResizes = 1
    MaxCommands = 1
    MaxFailures = 4
    Cap = 5
    Procs = {a1, a2}
    Refs = {k1, k2, k3, k4}
    Phrases = {w1}
    None = None
    MaxFaults = 2
SPECIFICATION ClientSpec
CHECK_DEADLOCK FALSE
INVARIANTS FocusNotStranded ScreenIsFocus RetriesSound RefResolves
PROPERTIES DisconnectedReturns RedialGivesUp IdentityKept

CONSTANTS
    Clients = {c1, c2}
    Machine = Machine
    Other = Other
    None = None
    MaxCodes = 2
    MaxLinks = 2
    MaxTries = 1
    RoomWait = 1
    CodeWindow = 2
    ClientWindow = 1
    ma = ma
    mb = mb
    Gids = {g1}
    Names = {"a", "b"}
    Dir0 <- MCDir
    NoMachine = NoMachine
    MaxRenames = 2
SPECIFICATION SharingSpec
CHECK_DEADLOCK FALSE
INVARIANTS RevokedIsEnded

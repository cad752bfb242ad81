CONSTANTS
    Clients = {c1, c2}
    Machine = Machine
    Other = Other
    None = None
    MaxCodes = 2
    MaxLinks = 2
    MaxTries = 1
    RoomWait = 1
    CodeWindow = 2
    ClientWindow = 1
    ma = ma
    mb = mb
    Gids = {g1, g2}
    Names = {"a", "b"}
    Dir0 <- MCDir
    NoMachine = NoMachine
    MaxRenames = 1
SPECIFICATION SharingSpec
CHECK_DEADLOCK FALSE
SYMMETRY Symmetry
INVARIANTS PinnedMeant 

CONSTANTS
    m1 = m1
    m2 = m2
    m3 = m3
    None = None
    Ids = {m1, m2, m3}
    Named0 <- MCNamed
    Stored0 <- MCStored
    Shares = {m3}
    Bytes = {"esc", "[", "B", "k", "enter", "ctrlC", "q", "r", "x", "s", "y", "ctrlO"}
    Answers <- MCAnswers
    MaxChanges = 2
    Devices = {d1, d2}
    MaxRenames = 1
    MaxClock = 1
    MaxLinks = 2
    MaxStarts = 1
    Nothing = Nothing
    Viewers = {v1, v2}
    Windows = {w1, w2}
    Base = Base
    Extra = Extra
    Nowhere = Nowhere
    MaxCommands = 2
SPECIFICATION CommandsSpec
CHECK_DEADLOCK FALSE
INVARIANTS HighlightTrue  
PROPERTIES ViewsApart

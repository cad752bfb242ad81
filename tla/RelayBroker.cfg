CONSTANTS
    Slots = {s1}
    Conns = {c1, c2}
    Browsers = {b1}
    Proofs = {x, y}
    NoConn = NoConn
    NoProof = NoProof
    MaxAgents = 1
    MaxSessions = 1
    BrowserOutCap = 1
SPECIFICATION FairSpec
CHECK_DEADLOCK FALSE
INVARIANTS RevokedNotLive SlotOwnedByProof AnswerFromOwnAgent
PROPERTIES NobodyHangs

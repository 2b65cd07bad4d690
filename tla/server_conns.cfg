SPECIFICATION Spec
CONSTANTS
    c1 = c1
    c2 = c2
    h1 = h1
    h2 = h2
    h3 = h3
    Listen = Listen
    Conns = {c1, c2}
    Chans = {h1}
    ConnOf <- One
    ChanBuf = 1
    InboxBuf = 1
    Sent <- Replies
    Drained = {}
INVARIANTS
    KillReachesAll
    StopComplete
PROPERTIES
    AddBeforeWait
    RootReaper
CHECK_DEADLOCK FALSE

SPECIFICATION FairSpec
CONSTANTS
    c1 = c1
    c2 = c2
    h1 = h1
    h2 = h2
    h3 = h3
    Listen = Listen
    Conns = {c1}
    Chans = {h1, h2}
    ConnOf <- TwoOnOne
    ChanBuf = 1
    InboxBuf = 1
    Sent = {}
    Drained = {}
PROPERTIES
    StopReturnsOnceAllLeft
CHECK_DEADLOCK FALSE

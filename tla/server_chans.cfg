SPECIFICATION Spec
CONSTANTS
    c1 = c1
    c2 = c2
    h1 = h1
    h2 = h2
    h3 = h3
    Listen = Listen
    Conns = {c1}
    Chans = {h1, h2, h3}
    ConnOf <- ThreeOnOne
    ChanBuf = 2
    InboxBuf = 1
    Sent = {}
    Drained = {}
INVARIANTS
    ExecuteLeavesNothing
PROPERTIES
    ConnReapers
SYMMETRY Alike
CHECK_DEADLOCK FALSE

SPECIFICATION Spec
CONSTANTS
    c1 = c1
    c2 = c2
    Channels = {c1, c2}
    Opened = {c1}
    Global = Global
    None = None
    Requesters = {"client"}
    Requests = 2
INVARIANTS
    SameChannels
    ForTheRightOne
    Settled
CHECK_DEADLOCK FALSE

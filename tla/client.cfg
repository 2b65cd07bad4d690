SPECIFICATION ClientSpec
CONSTANTS
    n1 = n1
    p1 = p1
    p2 = p2
    Conns = {n1}
    Callers = {p1, p2}
    ConnOf <- Share
    Keys = {k1, k2}
    Rsa = {k1}
    Passphrases = {w}
    MaxKeys = 2
    None = None
    a1 = a1
    l1 = l1
    l2 = l2
    c1 = c1
    c2 = c2
    c3 = c3
    Listeners = {l1, l2}
    Addrs = {a1}
    Addr <- Wanted
    Channels = {c1, c2, c3}
    Bad = bad
    Buffer = 1
    Writes = 1
    Reads = 1
    Statuses = {0, 1}
    Signals = {"KILL"}
    Number <- Numbers
INVARIANTS
    ListExact
    WaitTrue
    AnswersRight
PROPERTIES
    EveryoneServed
    CallsReturn
CHECK_DEADLOCK FALSE

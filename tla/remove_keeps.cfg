SPECIFICATION Spec
CONSTANTS
    n1 = n1
    p1 = p1
    p2 = p2
    Conns = {n1}
    Callers = {p1, p2}
    ConnOf <- Share
    Keys = {k1, k2}
    Rsa = {k1}
    Passphrases = {w}
    MaxKeys = 2
    None = None
PROPERTIES
    RemoveRemoves
CHECK_DEADLOCK FALSE

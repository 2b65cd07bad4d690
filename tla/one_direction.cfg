SPECIFICATION Spec
CONSTANTS
    Kexes = {x1, x2}
    HostKeys = {h1}
    Ciphers = {c1, c2, c3}
    Modes = {c1, c2}
    Longest = 2
    None = None
INVARIANTS
    DirectionsMatch
CHECK_DEADLOCK FALSE

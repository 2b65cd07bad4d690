SPECIFICATION TransportSpec
CONSTANTS
    Threshold = 1
    Cap = 1
    ClientSupply = 3
    ServerSupply = 1
    Askers = {"client"}
    Faults = {"lost", "refused"}
    Users = {u1, u2}
    Self = u1
    Keys = {k1, odd}
    Odd = {odd}
    CacheSize = 1
    Rounds = 1
    None = None
INVARIANTS
    KeysRight
    Delivered
    Vouched
    OutcomeTrue
PROPERTIES
    WritesReturn
    LoginEnds
CHECK_DEADLOCK FALSE

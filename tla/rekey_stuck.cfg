SPECIFICATION FairSpec
CONSTANTS
    Threshold = 1
    Cap = 1
    ClientSupply = 3
    ServerSupply = 1
    Askers = {"client"}
    Faults = {}
PROPERTIES
    ChangeEnds
CHECK_DEADLOCK FALSE

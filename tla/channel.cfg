SPECIFICATION FairSpec
CONSTANTS
    Window = 2
    MaxPacket = 2
    MaxWin = 3
    Supply = 3
INVARIANTS
    Accepted
    WindowsAgree
PROPERTIES
    Streaming
    OperationsFinish
CHECK_DEADLOCK FALSE

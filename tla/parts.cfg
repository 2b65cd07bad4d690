SPECIFICATION PartsSpec
CONSTANTS
    Chans = {h1, h2}
    MaxLen = 6
    Routes <- MixedRoutes
    MaxRegistrations = 4
    ParamLimit = 2
    None = None
    Kexes = {"x1", "x2"}
    HostKeys = {"h1"}
    Ciphers = {"c1", "c2", "c3"}
    Modes = {"c1", "c2"}
    Longest = 2
    Half = 2
    Names = {"n1", "n2"}
    Signers = {"s1", "s2"}
    Authorities = {"s1"}
    Options = {"o1", "o2", "o3"}
    Supported = {"o1"}
    SourceAddress = "o2"
    Multiple = 16
    MaxPacket = 64
    MaxVersion = 3
    SeqWrap = 2
    IVWrap = 2
    Lengths = {1, 7, 8, 10, 11, 12, 14, 15, 16}
    Packets = 3
    Changes = 2
    Chars = {"a", " "}
    Width = 2
    Prompt <- OneLetter
    MaxLine = 3
    MaxHistory = 2
    MaxRows = 5
    MaxEntered = 3
    MaxKept = 1
INVARIANTS
    Correct
    EveryChannelDecided
    Truthful
    RegisteredRightly
    WellKept
    Exact
    FixedHonestly
    DecodesExactly
    InStep
    SameChoice
    AcceptsTheValid
    EditorTrue
PROPERTIES
    Lives
CHECK_DEADLOCK FALSE

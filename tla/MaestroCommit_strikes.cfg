SPECIFICATION Spec
CONSTANTS
    Cuebots = {c1}
    NoCuebot = NoCuebot
    Frames = {f1, f2, f3}
    Hosts = {h1, h2, h3}
    Cores = 1
    FolderMax = 3
    ChunkFrames = 2
    SplitMaxTx = 4
    ProbeStrikes = 2
    Rejected = {f1}
    Events = {"lost"}
    MaxFaults = 1
    MaxVersion = 1
CHECK_DEADLOCK FALSE
PROPERTIES
    LostLeaderStops

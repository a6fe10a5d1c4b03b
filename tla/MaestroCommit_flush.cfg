SPECIFICATION Spec
CONSTANTS
    Cuebots = {c1}
    NoCuebot = NoCuebot
    Frames = {f1, f2}
    Hosts = {h1, h2}
    Cores = 2
    FolderMax = 2
    ChunkFrames = 2
    SplitMaxTx = 4
    ProbeStrikes = 1
    Rejected = {f1}
    Events = {}
    MaxFaults = 0
    MaxVersion = 1
SYMMETRY Sym
CHECK_DEADLOCK FALSE
INVARIANTS
    FailureContained

SPECIFICATION Spec
CONSTANTS
    Cuebots = {c1, c2}
    NoCuebot = NoCuebot
    Frames = {f1, f2, f3, f4}
    Hosts = {h1, h2}
    Cores = 2
    FolderMax = 3
    ChunkFrames = 2
    SplitMaxTx = 4
    ProbeStrikes = 1
    Rejected = {f1}
    Events = {"lost", "crash", "shutdown", "abort", "corpse", "eat", "fail"}
    MaxFaults = 1
    MaxVersion = 2
SYMMETRY Sym
CHECK_DEADLOCK FALSE
INVARIANTS
    TypeOK
    HostLedger
    FolderLedger
    OneProcPerRun
    FolderCapHeld
    TickContained

SPECIFICATION Spec
CONSTANTS
    Frames = {f1}
    Hosts = {h1, h2}
    Procs = {p1, p2}
    NoFrame = NoFrame
    NoHost = NoHost
    NoProc = NoProc
    Actors = {"lostProc", "verify", "retry", "eat"}
    Faults = {"cut", "die"}
    MaxFaults = 2
    MaxRequests = 1
    MaxTrouble = 2
SYMMETRY Sym
CHECK_DEADLOCK FALSE
INVARIANTS
    TypeOK
    HolderStartedRun
    CorpseOnlyFromLost
    DrainStopsOwnRun
    LostStopsOwnRun
    LostReleasesNoRender
PROPERTIES
    SucceededStays

SPECIFICATION Spec
CONSTANTS
    Frames = {f1}
    Hosts = {h1, h2}
    Procs = {p1, p2, p3}
    NoFrame = NoFrame
    NoHost = NoHost
    NoProc = NoProc
    Actors = {"lostProc"}
    Faults = {"cut"}
    MaxFaults = 2
    MaxRequests = 0
    MaxTrouble = 9
SYMMETRY Sym
CHECK_DEADLOCK FALSE
INVARIANTS
    RenderExclusive

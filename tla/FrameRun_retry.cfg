SPECIFICATION Spec
CONSTANTS
    Frames = {f1}
    Hosts = {h1}
    Procs = {p1, p2}
    NoFrame = NoFrame
    NoHost = NoHost
    NoProc = NoProc
    Actors = {"retry"}
    Faults = {}
    MaxFaults = 0
    MaxRequests = 1
    MaxTrouble = 1
SYMMETRY Sym
CHECK_DEADLOCK FALSE
INVARIANTS
    RetryKilledTheRender

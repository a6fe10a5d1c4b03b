SPECIFICATION Spec
CONSTANTS
    Frames = {f1}
    Hosts = {h1, h2}
    Procs = {p1, p2}
    NoFrame = NoFrame
    NoHost = NoHost
    NoProc = NoProc
    Actors = {"sweep"}
    Faults = {"unknown", "refuse", "cut", "die", "resend", "stop"}
    MaxFaults = 3
    MaxRequests = 0
    MaxTrouble = 3
SYMMETRY Sym
CHECK_DEADLOCK FALSE
INVARIANTS
    RollbackStopsOwnRun
    RenderExclusive
    FinalizeFreesNoOtherRender

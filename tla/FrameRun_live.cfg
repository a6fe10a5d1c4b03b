SPECIFICATION FairSpec
CONSTANTS
    Frames = {f1}
    Hosts = {h1}
    Procs = {p1}
    NoFrame = NoFrame
    NoHost = NoHost
    NoProc = NoProc
    Actors = {"lostProc", "sweep"}
    Faults = {"unknown", "refuse", "cut", "die", "stop", "stall"}
    MaxFaults = 2
    MaxRequests = 0
    MaxTrouble = 2
CHECK_DEADLOCK FALSE
PROPERTIES
    RunEnds
    BookingReleased

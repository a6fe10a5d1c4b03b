SPECIFICATION FairTreeSpec
CONSTANTS
    p = p
    g = g
    g2 = g2
    o = o
    Failed = Failed
    Plain = {}
    Guarded = {g, g2}
    Elsewhere = {}
    Callers = {g, g2}
    ClassOf <- ByKind
    Workers = 2
    MaxQueue = 1
    MaxActions = 1
    MaxTicks = 2
    MaxTurns = 0
CHECK_DEADLOCK FALSE
PROPERTIES
    InFlightEnds

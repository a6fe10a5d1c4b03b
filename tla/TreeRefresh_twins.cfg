SPECIFICATION FairTreeSpec
CONSTANTS
    p = p
    g = g
    g2 = g2
    o = o
    Failed = Failed
    Plain = {p, p2}
    Guarded = {}
    Elsewhere = {}
    Callers = {}
    ClassOf <- ByKind
    Workers = 2
    MaxQueue = 1
    MaxActions = 1
    MaxTicks = 1
    MaxTurns = 0
CHECK_DEADLOCK FALSE
PROPERTIES
    ActionShown

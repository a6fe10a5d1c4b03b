SPECIFICATION TreeSpec
CONSTANTS
    p = p
    g = g
    g2 = g2
    o = o
    Failed = Failed
    Plain = {p}
    Guarded = {}
    Elsewhere = {}
    Callers = {}
    ClassOf <- ByKind
    Workers = 2
    MaxQueue = 1
    MaxActions = 1
    MaxTicks = 2
    MaxTurns = 1
CHECK_DEADLOCK FALSE
PROPERTIES
    NeverGoesBack

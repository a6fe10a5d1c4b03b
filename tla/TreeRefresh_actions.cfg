SPECIFICATION FairTreeSpec
CONSTANTS
    p = p
    g = g
    g2 = g2
    o = o
    Failed = Failed
    Plain = {p}
    Guarded = {g}
    Elsewhere = {o}
    Callers = {g, o}
    ClassOf <- ByKind
    Workers = 2
    MaxQueue = 1
    MaxActions = 2
    MaxTicks = 1
    MaxTurns = 1
CHECK_DEADLOCK FALSE
INVARIANTS
    TreeTypeOK
    ActionsInOrder
    QuitRunsAll
PROPERTIES
    ActionShown
    InFlightEnds

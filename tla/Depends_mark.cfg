SPECIFICATION Spec
CONSTANTS
    a1 = a1
    a2 = a2
    b1 = b1
    aOnB = aOnB
    anyA = anyA
    late = late
    Frames = {a1, a2, b1}
    Layers <- FarmLayers
    Deps = {aOnB, anyA, late}
    Row <- FarmRow
    Launches = {{late}}
    Outcomes <- FarmOutcomes
    Nothing = Nothing
    Requests = {"mark"}
    MaxRequests = 1
    Faults = {}
    MaxFaults = 0
    MaxTrouble = 1
    Retried = {}
    DependTries = 2
CHECK_DEADLOCK FALSE
PROPERTIES
    DependHasDepend

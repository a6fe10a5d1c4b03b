SPECIFICATION FairSpec
CONSTANTS
    a1 = a1
    a2 = a2
    b1 = b1
    aOnB = aOnB
    anyA = anyA
    late = late
    Frames = {a1, a2, b1}
    Layers <- FarmLayers
    Deps = {aOnB, anyA, late}
    Row <- FarmRow
    Launches = {{aOnB}, {anyA}, {late}}
    Outcomes <- FarmOutcomes
    Nothing = Nothing
    Requests = {"create", "retry", "eat", "drop", "unsatisfy", "mark"}
    MaxRequests = 1
    Faults = {"satisfy", "check", "stop"}
    MaxFaults = 2
    MaxTrouble = 2
    Retried = {a1}
    DependTries = 2
CHECK_DEADLOCK FALSE
INVARIANTS
    TypeOK
    HeldBack
    FollowedUp
    CompletionHasTask
PROPERTIES
    StartsAfterDepends
    NoneStranded

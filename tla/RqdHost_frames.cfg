SPECIFICATION Spec
CONSTANTS
    r1 = r1
    r2 = r2
    r3 = r3
    f1 = f1
    f2 = f2
    Runs = {r1, r2, r3}
    FrameIds = {f1, f2}
    Want <- SmallFarm
    Physical = {k1, k2}
    CoreUnits = 2
    Gpus = {1}
    NoRun = NoRun
    Commands = {"lock", "unlock"}
    MaxCommands = 2
    MaxFaults = 0
    LockSizes = {3}
    UserLoggedIn = {FALSE}
SYMMETRY SymCores
CHECK_DEADLOCK FALSE
INVARIANTS
    HostTypeOK
    CoresAccounted
    LockedNotIdle
    NoCoreLost
    LiveIsCached
PROPERTIES
    GpusExclusive

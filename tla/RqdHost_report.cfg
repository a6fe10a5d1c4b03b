SPECIFICATION Spec
CONSTANTS
    r1 = r1
    r2 = r2
    r3 = r3
    f1 = f1
    f2 = f2
    Runs = {r1}
    FrameIds = {f1, f2}
    Want <- SmallFarm
    Physical = {1, 2}
    CoreUnits = 2
    Gpus = {1}
    NoRun = NoRun
    Commands = {}
    MaxCommands = 0
    MaxFaults = 1
    LockSizes = {3}
    UserLoggedIn = {FALSE}
CHECK_DEADLOCK FALSE
INVARIANTS
    UnreportedIsKept

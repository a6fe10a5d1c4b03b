SPECIFICATION Spec
CONSTANTS
    r1 = r1
    r2 = r2
    r3 = r3
    f1 = f1
    f2 = f2
    Runs = {r1}
    FrameIds = {f1, f2}
    Want <- SmallFarm
    Physical = {1, 2}
    CoreUnits = 2
    Gpus = {1}
    NoRun = NoRun
    Commands = {"kill"}
    MaxCommands = 1
    MaxFaults = 0
    LockSizes = {3}
    UserLoggedIn = {FALSE}
CHECK_DEADLOCK FALSE
INVARIANTS
    KillSparesRqd

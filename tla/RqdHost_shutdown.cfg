SPECIFICATION FairSpec
CONSTANTS
    r1 = r1
    r2 = r2
    r3 = r3
    f1 = f1
    f2 = f2
    Runs = {r2}
    FrameIds = {f1, f2}
    Want <- SmallFarm
    Physical = {1, 2}
    CoreUnits = 2
    Gpus = {1}
    NoRun = NoRun
    Commands = {"lockAll", "unlock", "unlockAll", "shutdownIdle", "rebootIdle", "shutdownNow", "rebootNow", "kill"}
    MaxCommands = 3
    MaxFaults = 1
    LockSizes = {2}
    UserLoggedIn = {TRUE, FALSE}
CHECK_DEADLOCK FALSE
PROPERTIES
    LaunchAnswered
    IdleShutdownExits

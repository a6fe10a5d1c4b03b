SPECIFICATION DesktopSpec
CONSTANTS
    r1 = r1
    f1 = f1
    Runs = {r1}
    FrameIds = {f1}
    Want <- PlainFrame
    Physical = {1, 2}
    CoreUnits = 2
    Gpus = {1}
    NoRun = NoRun
    Commands = {}
    MaxCommands = 2
    MaxFaults = 0
    LockSizes = {2}
    UserLoggedIn = {FALSE}
    Listeners = {"mouse"}
    MaxVisits = 1
CHECK_DEADLOCK FALSE
INVARIANTS
    ActiveUserLocked

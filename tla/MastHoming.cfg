CONSTANTS
    Travel = 14
    Margin = 4
    Starts <- MiddleStart
    MinSwitch = "ok"
    MaxSwitch = "ok"
    Commands = {"STOP", "POS", "JOG", "H"}
    Targets <- SomeTargets
    Backoff = 2
    HomingMax = 20
    StepCap = 40
    PosTol = 1
    RelayTicks = 1
    VelTicks = 2
    FdcTicks = 3
    AssertTicks = 1
    ReleaseTicks = 5
SPECIFICATION FairSpec
INVARIANTS PosErrorBounded HomedCourse MoveInCourse
PROPERTIES Settles

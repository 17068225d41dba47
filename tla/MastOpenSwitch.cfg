CONSTANTS
    Travel = 4
    Margin = 2
    Starts <- MiddleStart
    MinSwitch = "ok"
    MaxSwitch = "open"
    Commands = {"STOP", "BRAKE", "FDC", "H"}
    Targets <- NoTargets
    Backoff = 1
    HomingMax = 9
    StepCap = 8
    PosTol = 1
    RelayTicks = 2
    VelTicks = 2
    FdcTicks = 3
    AssertTicks = 1
    ReleaseTicks = 3
SPECIFICATION FairSpec
INVARIANTS TypeOK OpenSwitchNoReference
PROPERTIES Settles

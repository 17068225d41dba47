CONSTANTS
    Travel = 4
    Margin = 4
    Starts <- AllStarts
    MinSwitch = "ok"
    MaxSwitch = "ok"
    Commands = {"STOP", "BRAKE", "VEL", "JOG", "FDC"}
    Targets <- NoTargets
    Backoff = 1
    HomingMax = 10
    StepCap = 0
    PosTol = 1
    RelayTicks = 2
    VelTicks = 3
    FdcTicks = 4
    AssertTicks = 1
    ReleaseTicks = 2
SPECIFICATION FairSpec
INVARIANTS IInv BrakeDiscipline VelWatchdog NoOverrun
PROPERTIES Settles ImplementsInterlock

CONSTANTS
    N = 1
    Full = 2
    Timeout = 2
    Payloads = {"drive"}
    ClockStep = 1
    Sigint = TRUE
SPECIFICATION Spec
INVARIANTS Halts ResetClearsRamp
CHECK_DEADLOCK FALSE

CONSTANTS
    N = 2
    Full = 1
    Timeout = 2
    Payloads = {"drive", "bad"}
    ClockStep = 0
    Sigint = FALSE
SPECIFICATION FairSpec
INVARIANTS TypeOK LatchMatchesMotors ExitDisables
PROPERTIES Rearms ImplementsEmergencyStop
CHECK_DEADLOCK FALSE

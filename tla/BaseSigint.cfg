CONSTANTS
    N = 1
    Full = 1
    Timeout = 1
    Payloads = {"rest", "drive"}
    ClockStep = 0
    Sigint = TRUE
SPECIFICATION FairSpec
PROPERTIES SigintDisables
CHECK_DEADLOCK FALSE

CONSTANTS
    LastIndex = 2
    Loose = {1}
SPECIFICATION FairSpec
INVARIANTS TypeOK
PROPERTIES OneCapture Streams ListFollows
CHECK_DEADLOCK FALSE

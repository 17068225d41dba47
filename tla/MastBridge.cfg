CONSTANTS
    Requests <- AllRequests
    BootTime = 2
    Silence = 2
SPECIFICATION FairSpec
INVARIANTS TypeOK HandleSafe LinkHonest
PROPERTIES LinkFollows
CHECK_DEADLOCK FALSE

CONSTANTS
    Hands <- SomeHands
    Conns = {c1, c2}
    NoConn = NoConn
    Both = FALSE
    Delay = 1
    Stall = 2
    Timeout = 2
SPECIFICATION FairSpec
INVARIANTS TypeOK Halts
PROPERTIES Obeys
CHECK_DEADLOCK FALSE

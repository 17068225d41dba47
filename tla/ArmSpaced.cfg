CONSTANTS
    Positions = {p1, p2}
    NoLine = NoLine
    Hurried = FALSE
SPECIFICATION FairSpec
INVARIANTS TypeOK Released OneStrayAction ExitReleases
PROPERTIES Follows
CHECK_DEADLOCK FALSE

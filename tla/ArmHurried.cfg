CONSTANTS
    Positions = {p1, p2}
    NoLine = NoLine
    Hurried = TRUE
SPECIFICATION Spec
INVARIANTS Released
CHECK_DEADLOCK FALSE

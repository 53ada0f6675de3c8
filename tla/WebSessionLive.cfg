CONSTANTS
    Conns = {c1, c2}
    None = none
    OutCap = 1
    MayIdle = FALSE
SPECIFICATION FairSpec
PROPERTIES
    LoopEndsAfterLast
    HearsOfTheEnd
CHECK_DEADLOCK FALSE

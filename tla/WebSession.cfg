CONSTANTS
    Conns = {c1, c2}
    None = none
    OutCap = 2
    MayIdle = TRUE
SPECIFICATION Spec
SYMMETRY ConnSymmetry
INVARIANTS
    OneLoop
    CountsConnections
    NeverAbandoned
    InstalledOrTold
CHECK_DEADLOCK FALSE

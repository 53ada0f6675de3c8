CONSTANTS
    Sockets = {s1, s2, s3, s4}
    First = s1
    NoSocket = none
SPECIFICATION FairTabSpec
INVARIANTS
    NeverStranded
PROPERTIES
    Reconnects
CHECK_DEADLOCK FALSE

\* Three handles so that two drops can overlap under a third; a full queue
\* (Capacity 2) overflows several times within four messages.
CONSTANTS
    Handles = {h1, h2, h3}
    First = h1
    Capacity = 2
    MaxSend = 4
SPECIFICATION FairChannelSpec
INVARIANTS
    LastDropCloses
PROPERTIES
    FifoSpec
    NoStuckMessage
CHECK_DEADLOCK FALSE

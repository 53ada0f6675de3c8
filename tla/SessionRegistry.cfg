\* The reaper may meet a reattach; a session of the WebSocket outlives its
\* connection, so that an SSH channel and a WebSocket can go for the last slot
\* while it exists, and three ids let an off-by-one show.
CONSTANTS
    Ssh = {s1}
    Web = {w1}
    Reapers = {r}
    Nobody = nobody
    MaxSessions = 1
    MaxIds = 3
    Video = {0}
SPECIFICATION FairRegistrySpec
INVARIANTS
    MapsAgree
    SshSessionRegistered
    BoundedOvershoot
PROPERTIES
    OnlyLockOrderHangs
CHECK_DEADLOCK FALSE

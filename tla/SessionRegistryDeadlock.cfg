CONSTANTS
    Ssh = {}
    Web = {w1, w2}
    Reapers = {r}
    Nobody = nobody
    MaxSessions = 2
    MaxIds = 2
    Video = {}
SPECIFICATION FairRegistrySpec
PROPERTIES
    ReattachReturns
CHECK_DEADLOCK FALSE

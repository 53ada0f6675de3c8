\* One key that a page shows as a text and as a list, another as a list only; a
\* queue of two overflows while an answer, a pushed patch and the user meet.
CONSTANTS
    k1 = k1
    Keys = {k1}
    Values = {x, l}
    Lists = {l}
    NoValue = none
    Pages <- OneKeyPages
    Tokens = {t1}
    Issued = {t1}
    NoToken = notoken
    Askers = {a}
    Routes = {r}
    Loop = loop
    QueueCap = 2
    MaxInputs = 3
SPECIFICATION FairSpec
INVARIANTS
    StaleIsDirty
    PatchesReachTemplates
PROPERTIES
    BoundConverges
    SyncSettles
CHECK_DEADLOCK FALSE

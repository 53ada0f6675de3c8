\* Two attributes, so that one moves while the other is changed, dragged or has
\* its change taken by a StatePatched; four inputs retarget a moving one twice.
CONSTANTS
    Attrs = {a1, a2}
    Values = {v1, v2}
    Unset = Unset
    MaxInputs = 4
SPECIFICATION Spec
INVARIANTS
    FollowsState
PROPERTIES
    StartsWhereShown
    RetargetsInFlight
    GoesIdle
CHECK_DEADLOCK FALSE

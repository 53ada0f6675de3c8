\* Two cells, so that a difference can paint one and leave the other; two
\* frames of room, so that a clear and a difference can wait together.
CONSTANTS
    Cells = {c1, c2}
    Glyphs = {g0, g1}
    Blank = g0
    OutCap = 2
    Batch = 2
SPECIFICATION FairSpec
INVARIANTS
    FrontIsShown
    NoForgottenRender
    TerminalRestored
PROPERTIES
    ScreenConverges
CHECK_DEADLOCK FALSE

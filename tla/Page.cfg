\* A screen of seven columns and four rows, of which the status bar takes one:
\* pages are longer, words wider, and wide characters fall on the last column.
\* The alphabet has a wide, a zero-width and an ambiguous character.
CONSTANTS
    WideChars = {"W"}
    ZeroWidth = {"Z", "nul"}
    Ambiguous = {"-"}
    Cols = 7
    Rows = 4
    Files <- MCFiles
    Sources <- MCSources
    Profiles = {"web", "kitty", "block"}
    LeadsTo <- MCLeadsTo
    Typed <- MCTyped
    Offsets = {0, 2}
    MaxReconnects = 1
SPECIFICATION Spec
INVARIANTS
    TreesMatch
    StylesCascade
    TextHasRoom
    HitsTopmost
    ClientShowsFront
    PicturesFollow

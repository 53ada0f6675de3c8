\* Three pages, one of them in two variants; a terminal that shows all of a page,
\* or less than half of the longest; one token for page loads.
CONSTANTS
    home = home
    list_page = list_page
    gone = gone
    Pages = {home, list_page, gone}
    Tree <- Files
    File <- FileOf
    NoFile = NoFile
    Start = home
    Heights = {3, 6}
    Capacity = 1
    MaxItems = 1
    MaxInputs = 4
SPECIFICATION Spec
INVARIANTS
    NothingOfTheOldPage
    FocusAtRest
    HitsWhatIsDrawn
PROPERTIES
    FocusRevealed
    KeepsManualScroll
CHECK_DEADLOCK FALSE

SPECIFICATION Spec
CONSTANTS
    Urls = {u1, u2}
    None = None
    SelfLinks = {None, u2}
    Base = 1
    Limit = 4
    Reset = 6
    FixedPages = FALSE
    Redirects = TRUE
    MaxCount = 3
    MaxRelocations = 1
    MaxCrashes = 1
INVARIANTS MoveInv ReturnsAreRare
PROPERTIES ReturnIsStatedAnew
CHECK_DEADLOCK FALSE

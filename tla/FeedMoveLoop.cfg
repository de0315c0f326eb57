SPECIFICATION Spec
CONSTANTS
    Urls = {u1, u2, u3}
    None = None
    SelfLinks = {None, u1, u2, u3}
    Base = 1
    Limit = 2
    Reset = 3
    FixedPages = TRUE
    Redirects = TRUE
    MaxCount = 2
    MaxRelocations = 1
    MaxCrashes = 1
PROPERTIES LoopsStop
CHECK_DEADLOCK FALSE

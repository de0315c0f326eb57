SPECIFICATION Spec
CONSTANTS
    None = None
    MaxActive = 1
    MaxEnded = 1
    MaxUnrelayed = 2
    EndMargin = 1
    StartMargin = 1
    Rows = {1, 2, 3}
    Dates = {1, 2}
    TrackGuid <- MCTrackGuid
    FeedHits = {2}
    LiveFeed <- MCLiveFeed
    Offers <- MCOffers
    Limits = {0, 3}
    LimitMax = 2
    Batch = 2
    ScanMax = 3
    MaxWrites = 1
    MaxNow = 5
INVARIANTS PagesInv NothingMissed UnrelayedLeaves
PROPERTY WalkEnds
CHECK_DEADLOCK FALSE

SPECIFICATION Spec
CONSTANTS
    Feeds = {f1}
    Tracks = {t1}
    Families = {}
    NoChild = NoChild
    MaxLog = 3
    PageLimit = 2
    MaxDrainPages = 2
    MaxPushEvents = 2
    PushAttempts = 2
    Subscribed = TRUE
    MaxAborts = 1
    MaxRestarts = 1
INVARIANTS TypeOK CursorIsEarned RowsComeFromRecordedEvents NoOrphanRows
PROPERTIES SyncStateOnlyGrows RedeliveryChangesNothing

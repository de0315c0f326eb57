SPECIFICATION FairSpec
CONSTANTS
    Feeds = {f1}
    Tracks = {t1}
    Families = {r1}
    NoChild = NoChild
    MaxLog = 5
    PageLimit = 2
    MaxDrainPages = 2
    MaxPushEvents = 2
    PushAttempts = 1
    Subscribed = FALSE
    MaxAborts = 0
    MaxRestarts = 1
INVARIANTS PollSkipsOnlyRecorded
PROPERTIES RefinesPrefixReplica CatchesUp TablesConverge

SPECIFICATION FairSessions
CONSTANTS
    MaxRefs = 3
    MaxEvents = 2
    MaxHave = 3
    Foreign = {x1}
    MaxLog = 5
INVARIANTS ReconcileInv
PROPERTIES SessionEnds
CHECK_DEADLOCK FALSE

SPECIFICATION FairSpec
CONSTANTS
    Urls = {u1, u2}
    Guid = Guid
    None = None
    Revs = {r1}
    RetireAfter = 2
    Seeds = {u2}
    MaxSubs = 1
INVARIANTS LifecycleInv
PROPERTIES HeldGuidReturnsThroughItsUrl ReleaseLasts OneAnswerNeverRetires GoneForGoodIsRetired
CHECK_DEADLOCK FALSE

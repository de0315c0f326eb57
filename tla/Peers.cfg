SPECIFICATION FairSpec
CONSTANTS
    Nodes = {n1, n2}
    Urls = {u1}
    None = None
    Threshold = 3
    Attempts = 2
    Slots = 1
    StoreErrors = TRUE
    MaxBatches = 2
    MaxStarts = 2
    MaxRestarts = 1
INVARIANTS PeersInv
PROPERTIES EvictionIsBacked SpentNodesAreEvicted EveryDeliveryEnds
CHECK_DEADLOCK FALSE

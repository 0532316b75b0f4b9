SPECIFICATION FairSpec
CONSTANTS
    i1 = i1
    i2 = i2
    Instance = {i1, i2}
    MaxSessions = 2
    MaxOps = 7
INVARIANTS TypeOK RowFollowsStripe QuantityMatches NoFreeRide
PROPERTIES PaidKeepsRunning UnpaidIsStopped
CHECK_DEADLOCK FALSE

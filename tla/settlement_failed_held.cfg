\* One replica, no fault.
CONSTANTS
    Orders = {o1}
    Replicas = {r1}
    Keys <- MCKeys
    Free = Free
    NoOrder = NoOrder
    MaxBroadcasts = 2
    MaxCrashes = 0
    RequireLocks = TRUE
    RedisFaults = FALSE
    MaxMissed = 0
    RpcFaults = FALSE
    LostReplies = FALSE
    DbFaults = FALSE
SPECIFICATION FairSpec
PROPERTIES
    EventuallyReleased

\* One replica, two orders; Redis may throw and locks are not required.
CONSTANTS
    Orders = {o1, o2}
    Replicas = {r1}
    Keys <- MCKeys
    Free = Free
    NoOrder = NoOrder
    MaxBroadcasts = 2
    MaxCrashes = 0
    RequireLocks = FALSE
    RedisFaults = TRUE
    MaxMissed = 0
    RpcFaults = FALSE
    LostReplies = FALSE
    DbFaults = FALSE
SPECIFICATION FairSpec
PROPERTIES
    EventuallyTerminal
    EventuallyConsumed
    ImplementsPayout

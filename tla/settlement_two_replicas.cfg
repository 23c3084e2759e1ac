\* Two replicas, no fault.
CONSTANTS
    Orders = {o1}
    Replicas = {r1, r2}
    Keys <- MCKeys
    Free = Free
    NoOrder = NoOrder
    MaxBroadcasts = 2
    MaxCrashes = 0
    RequireLocks = TRUE
    RedisFaults = FALSE
    MaxMissed = 0
    RpcFaults = FALSE
    LostReplies = FALSE
    DbFaults = FALSE
SPECIFICATION Spec
INVARIANTS
    FailedIsUnpaid

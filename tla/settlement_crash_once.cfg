\* Two replicas, one may crash.
CONSTANTS
    Orders = {o1}
    Replicas = {r1, r2}
    Keys <- MCKeys
    Free = Free
    NoOrder = NoOrder
    MaxBroadcasts = 2
    MaxCrashes = 1
    RequireLocks = TRUE
    RedisFaults = TRUE
    MaxMissed = 1
    RpcFaults = TRUE
    LostReplies = TRUE
    DbFaults = TRUE
SPECIFICATION Spec
SYMMETRY ReplicaSymmetry
INVARIANTS
    TypeOK
    Exclusive
    CompletedIsPaid
    RecordedPayoutKept
    BroadcastOnce
PROPERTIES
    OnlyHolderReleases

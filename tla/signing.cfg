\* Two processes, three orders, one crash, one missed renewal.
CONSTANTS
    o1 = o1
    Orders = {o1, o2, o3}
    Replicas = {r1, r2}
    Keys <- MCKeys
    Free = Free
    NoOrder = NoOrder
    Amount <- MCAmount
    Limit = 3
    RequireLocks = TRUE
    RedisFaults = TRUE
    MaxMissed = 1
    MaxCrashes = 1
SPECIFICATION Spec
SYMMETRY ReplicaSymmetry
INVARIANTS
    TypeOK
    SequenceSection
    OvershootIsInFlight
CHECK_DEADLOCK FALSE

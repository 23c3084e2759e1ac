\* Three transactions at once, at most one of them on each order.
CONSTANTS
    o1 = o1
    Orders = {o1, o2}
    Tx = {t1, t2, t3}
    NoTx = NoTx
    NoOrder = NoOrder
    Amount <- MCAmount
    InitialTotal = 4
    AdjustAmounts = {1}
    MaxTotal = 5
SPECIFICATION FairSerialSpec
INVARIANTS
    TypeOK
    PoolBalanced
    NeverOverReserved
    ExactAccounting
    LedgerExplainsTotal
PROPERTIES
    ImplementsPool
    EveryTransactionEnds

\* Two requests for one quote, with the same key, different ones or none, two
\* connections, and a pool that can serve one of the requests at a time.
CONSTANTS
    Orders = {o1, o2}
    Tx = {t1, t2}
    NoTx = NoTx
    NoOrder = NoOrder
    Amount <- MCAmount
    InitialTotal = 3
    AdjustAmounts = {}
    MaxTotal = 3
    Quotes = {q1}
    Keys = {k1}
    NoKey = NoKey
SPECIFICATION FairOrdersSpec
INVARIANTS
    OrdersTypeOK
    NeverOverReserved
    NoStrandedCapacity
    OneOrderPerKey
PROPERTIES
    SpentQuoteRefused
    EveryRequestAnswered
CHECK_DEADLOCK FALSE

\* Two overlapping requests for one quote and a pool that can serve both.
CONSTANTS
    Orders = {o1, o2}
    Tx = {t1, t2}
    NoTx = NoTx
    NoOrder = NoOrder
    Amount <- MCAmount
    InitialTotal = 4
    AdjustAmounts = {}
    MaxTotal = 4
    Quotes = {q1}
    Keys = {k1}
    NoKey = NoKey
SPECIFICATION OrdersSpec
INVARIANT OneOrderPerQuote
CHECK_DEADLOCK FALSE

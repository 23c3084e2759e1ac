------------------------- MODULE OrderCreationProofs -------------------------
(***************************************************************************)
(* Proofs about OrderCreation, for any number of requests, connections,    *)
(* quotes and keys.                                                        *)
(***************************************************************************)
EXTENDS OrderCreation, LiquidityProofs

\* A transaction that reserves belongs to the request it creates the order of,
\* no other one does, and it locks the pool only after the insert.
OwnTransactions ==
    /\ \A t \in Tx : job[t].op = "reserve" =>
           /\ job[t].order \in Orders
           /\ Creating(job[t].order)
           /\ pc[t] = "locked" => step[job[t].order] = "inserted"
    /\ \A t, u \in Tx : t # u /\ job[t].op = "reserve" /\ job[u].op = "reserve"
                            => job[t].order # job[u].order

\* An order that is inserted, committed or not, keeps its key from the others.
KeyTaken ==
    \A o, p \in Orders :
        o # p /\ step[o] \in {"inserted", "placed"} /\ step[p] \in {"inserted", "placed"}
            => key[o] = NoKey \/ key[o] # key[p]

\* The quote of an order is closed, though not always as USED.
QuoteClosed == \A o \in Orders : step[o] = "placed" => quote[uses[o]] \in {"USED", "EXPIRED"}

RequestInv == OrdersTypeOK /\ OwnTransactions /\ KeyTaken /\ QuoteClosed

\* The steps of a request before its transaction, and those of the quotes.
OutsideTransaction ==
    \/ \E q \in Quotes : CreateQuote(q) \/ QuoteFallsDue(q) \/ ViewQuote(q) \/ ExpireQuote(q)
    \/ \E o \in Orders : CheckKey(o) \/ GetQuote(o) \/ PreCheck(o) \/ RequestFails(o)

\* createOrder uses the pool as LiquidityService lets it: each step is one of
\* the pool's or leaves the pool alone.
LEMMA StepUsesPool == ASSUME [OrdersNext]_allVars PROVE [Next]_vars
<1>1. CASE UNCHANGED allVars
  BY <1>1 DEF allVars
<1>2. CASE OutsideTransaction
  BY <1>2 DEF OutsideTransaction, CreateQuote, QuoteFallsDue, ViewQuote, ExpireQuote,
     CheckKey, GetQuote, PreCheck, RequestFails
<1>3. CASE \E t \in Tx, o \in Orders : MarkQuoteUsed(t, o)
  BY <1>3 DEF MarkQuoteUsed, Next, Operation
<1>4. ASSUME NEW t \in Tx,
             \/ InsertOrder(t) \/ LockPoolInTurn(t) \/ PlaceOrder(t) \/ AbortRequest(t)
             \/ OtherOperation(t)
      PROVE  [Next]_vars
  BY <1>4 DEF InsertOrder, LockPoolInTurn, PlaceOrder, AbortRequest, OtherOperation,
     Next, Operation, Commit
<1>5. QED
  BY <1>1, <1>2, <1>3, <1>4 DEF OrdersNext, OutsideTransaction

\* So everything proved of the pool holds while orders are created.
LEMMA OrdersUsePool == OrdersSpec => Spec
<1>1. OrdersInit => Init
  BY DEF OrdersInit
<1>2. QED
  BY <1>1, StepUsesPool, PTL DEF OrdersSpec, Spec

\* When one transaction moves, every other one stays where it is.
LEMMA OthersGoOn ==
    ASSUME TypeOK, NEW t \in Tx, NEW s, NEW j,
           pc' = [pc EXCEPT ![t] = s], job' = [job EXCEPT ![t] = j]
    PROVE  /\ job'[t] = j /\ pc'[t] = s
           /\ \A u \in Tx : u # t => job'[u] = job[u] /\ pc'[u] = pc[u]
BY DEF TypeOK

\* What is neither a transaction of createOrder nor a step of a request leaves
\* the transactions of createOrder as they are.
LEMMA OtherFrame ==
    ASSUME TypeOK, NEW t \in Tx, OtherOperation(t)
    PROVE  \A u \in Tx : job'[u].op = "reserve" => job'[u] = job[u] /\ pc'[u] = pc[u]
<1>1. ASSUME NEW j, NEW s, j.op # "reserve", Begin(t, j, s)
      PROVE  \A u \in Tx : job'[u].op = "reserve" => job'[u] = job[u] /\ pc'[u] = pc[u]
  BY <1>1, OthersGoOn DEF Begin
<1>2. ASSUME Finish(t)
      PROVE  \A u \in Tx : job'[u].op = "reserve" => job'[u] = job[u] /\ pc'[u] = pc[u]
  <2>1. pc' = [pc EXCEPT ![t] = "idle"] /\ job' = [job EXCEPT ![t] = Idle]
    BY <1>2 DEF Finish
  <2>2. job'[t] = Idle /\ \A u \in Tx : u # t => job'[u] = job[u] /\ pc'[u] = pc[u]
    BY <2>1, OthersGoOn
  <2>3. QED BY <2>2 DEF Idle
<1>3. CASE \E o \in Orders : BeginConfirm(t, o) \/ BeginConsume(t, o) \/ BeginRelease(t, o)
  BY <1>1, <1>3 DEF BeginConfirm, BeginConsume, BeginRelease, JobOf
<1>4. CASE CommitConfirm(t) \/ CommitConsume(t) \/ CommitRelease(t) \/ Abort(t)
  BY <1>2, <1>4 DEF CommitConfirm, CommitConsume, CommitRelease, Abort
<1>5. QED
  BY <1>3, <1>4 DEF OtherOperation

\* Steps of quotes, and of requests that have no transaction yet.
LEMMA OutsideStep ==
    ASSUME RequestInv, TypeOK', OutsideTransaction
    PROVE  RequestInv'
<1> USE DEF RequestInv, OrdersTypeOK, OwnTransactions, KeyTaken, QuoteClosed, Creating
<1>1. ASSUME NEW q \in Quotes,
             CreateQuote(q) \/ QuoteFallsDue(q) \/ ViewQuote(q) \/ ExpireQuote(q)
      PROVE  RequestInv'
  <2>1. UNCHANGED <<pc, job, key, uses, step>>
    BY <1>1 DEF CreateQuote, QuoteFallsDue, ViewQuote, ExpireQuote, vars
  <2>2. /\ quote' \in [Quotes -> QuoteStatus \union {"NONE"}]
        /\ \A r \in Quotes : quote[r] \in {"USED", "EXPIRED"} => quote'[r] \in {"USED", "EXPIRED"}
    BY <1>1 DEF CreateQuote, QuoteFallsDue, ViewQuote, ExpireQuote, QuoteStatus
  <2>3. due' \subseteq Quotes /\ expiring' \subseteq Quotes
    BY <1>1 DEF CreateQuote, QuoteFallsDue, ViewQuote, ExpireQuote
  <2>4. QED BY <2>1, <2>2, <2>3
<1>2. ASSUME NEW o \in Orders,
             CheckKey(o) \/ GetQuote(o) \/ PreCheck(o) \/ RequestFails(o)
      PROVE  RequestInv'
  <2>1. UNCHANGED <<pc, job, quote, due, key, uses>> /\ expiring' \subseteq Quotes
    BY <1>2 DEF CheckKey, GetQuote, PreCheck, RequestFails, vars
  <2>2. PICK s \in {"duplicate", "checked", "valid", "ready", "refused"} :
            step' = [step EXCEPT ![o] = s]
    BY <1>2 DEF CheckKey, GetQuote, PreCheck, RequestFails, Answer
  <2>3. step[o] \notin {"marked", "inserted", "placed"}
    BY <1>2 DEF CheckKey, GetQuote, PreCheck, RequestFails
  <2>4. step' \in [Orders -> RequestSteps \union Answers]
    BY <2>2 DEF RequestSteps, Answers
  <2>5. \A p \in Orders : p # o => step'[p] = step[p]
    BY <2>2
  <2>6. step'[o] \notin {"marked", "inserted", "placed"}
    BY <2>2
  <2>7. OwnTransactions'
    BY <2>1, <2>3, <2>5
  <2>8. KeyTaken' /\ QuoteClosed'
    BY <2>1, <2>5, <2>6
  <2>9. QED BY <2>1, <2>4, <2>7, <2>8
<1>3. QED BY <1>1, <1>2 DEF OutsideTransaction

\* The transaction of a request begins.
LEMMA MarkStep ==
    ASSUME RequestInv, TypeOK', NEW t \in Tx, NEW o \in Orders, MarkQuoteUsed(t, o)
    PROVE  RequestInv'
<1> USE DEF RequestInv, OrdersTypeOK
<1>1. /\ step[o] = "ready"
      /\ step' = [step EXCEPT ![o] = "marked"]
      /\ UNCHANGED <<quote, due, expiring, key, uses>>
      /\ pc' = [pc EXCEPT ![t] = "wait"]
      /\ job' = [job EXCEPT ![t] = JobOf("reserve", o)]
  BY DEF MarkQuoteUsed, BeginReserve, Begin, Answer
<1>2. step' \in [Orders -> RequestSteps \union Answers]
  BY <1>1 DEF RequestSteps, Answers
<1>3. /\ job'[t] = JobOf("reserve", o) /\ pc'[t] = "wait"
      /\ \A u \in Tx : u # t => job'[u] = job[u] /\ pc'[u] = pc[u]
  BY <1>1, OthersGoOn
<1>4. step'[o] = "marked" /\ \A p \in Orders : p # o => step'[p] = step[p]
  BY <1>1
<1>5. \A u \in Tx : job[u].op = "reserve" => job[u].order # o
  BY <1>1 DEF OwnTransactions, Creating
<1>6. OwnTransactions'
  BY <1>3, <1>4, <1>5 DEF OwnTransactions, Creating, JobOf
<1>7. KeyTaken' /\ QuoteClosed'
  BY <1>1, <1>4 DEF KeyTaken, QuoteClosed
<1>8. QED BY <1>1, <1>2, <1>6, <1>7

\* The insert takes the key, which nobody else has.
LEMMA InsertStep ==
    ASSUME RequestInv, TypeOK', NEW t \in Tx, InsertOrder(t)
    PROVE  RequestInv'
<1> USE DEF RequestInv, OrdersTypeOK
<1> DEFINE o == job[t].order
<1>1. o \in Orders
  BY DEF InsertOrder, OwnTransactions
<1>2. /\ step' = [step EXCEPT ![o] = "inserted"]
      /\ UNCHANGED <<pc, job, quote, due, expiring, key, uses>>
      /\ ~KeyLocked(key[o]) /\ Existing(o) = {}
  BY DEF InsertOrder, Answer, vars
<1>3. step' \in [Orders -> RequestSteps \union Answers]
  BY <1>1, <1>2 DEF RequestSteps, Answers
<1>4. PICK oo \in Orders : oo = o
  BY <1>1
<1>5. step'[oo] = "inserted" /\ \A p \in Orders : p # oo => step'[p] = step[p]
  BY <1>1, <1>2, <1>4
<1>6. OwnTransactions'
  BY <1>2, <1>5 DEF OwnTransactions, Creating
<1>7. \A p \in Orders : step[p] \in {"inserted", "placed"} => key[oo] = NoKey \/ key[oo] # key[p]
  BY <1>2, <1>4 DEF KeyLocked, Existing
<1>8. KeyTaken'
  BY <1>2, <1>5, <1>7 DEF KeyTaken
<1>9. QuoteClosed'
  BY <1>2, <1>5 DEF QuoteClosed
<1>10. QED BY <1>2, <1>3, <1>6, <1>8, <1>9

\* The transaction of a request ends, with an order or without.
LEMMA EndStep ==
    ASSUME RequestInv, TypeOK', NEW t \in Tx, PlaceOrder(t) \/ AbortRequest(t)
    PROVE  RequestInv'
<1> USE DEF RequestInv, OrdersTypeOK
<1>1. job[t].op = "reserve" /\ Finish(t) /\ UNCHANGED <<due, expiring, key, uses>>
  BY DEF PlaceOrder, AbortRequest, CommitReserve, Abort
<1>2. PICK o \in Orders : o = job[t].order
  BY <1>1 DEF OwnTransactions
<1>3. PICK s \in {"placed", "refused"} :
        /\ step' = [step EXCEPT ![o] = s]
        /\ s = "placed" => /\ step[o] = "inserted"
                           /\ quote' = [quote EXCEPT ![uses[o]] = "USED"]
        /\ s = "refused" => UNCHANGED quote
  <2>1. CASE PlaceOrder(t)
    <3>1. step[o] = "inserted"
      BY <1>2, <2>1 DEF PlaceOrder, CommitReserve, OwnTransactions
    <3>2. QED BY <1>2, <2>1, <3>1 DEF PlaceOrder, Answer
  <2>2. CASE AbortRequest(t)
    BY <1>2, <2>2 DEF AbortRequest, Answer
  <2>3. QED BY <2>1, <2>2
<1>4. step'[o] = s /\ \A p \in Orders : p # o => step'[p] = step[p]
  BY <1>3
<1>5. step' \in [Orders -> RequestSteps \union Answers]
  BY <1>3 DEF Answers
<1>6. /\ quote' \in [Quotes -> QuoteStatus \union {"NONE"}]
      /\ \A q \in Quotes : quote[q] \in {"USED", "EXPIRED"} => quote'[q] \in {"USED", "EXPIRED"}
      /\ s = "placed" => quote'[uses[o]] = "USED"
  BY <1>3 DEF QuoteStatus
<1>7. job'[t] = Idle /\ \A u \in Tx : u # t => job'[u] = job[u] /\ pc'[u] = pc[u]
  BY <1>1, OthersGoOn DEF Finish
<1>8. OwnTransactions'
  BY <1>1, <1>2, <1>4, <1>7 DEF OwnTransactions, Creating, Idle
<1>9. KeyTaken'
  BY <1>1, <1>3, <1>4 DEF KeyTaken
<1>10. QuoteClosed'
  BY <1>1, <1>4, <1>6 DEF QuoteClosed
<1>11. QED BY <1>1, <1>5, <1>6, <1>8, <1>9, <1>10

\* Locking the pool and the other operations on it leave the requests alone.
LEMMA PoolStep ==
    ASSUME RequestInv, TypeOK', NEW t \in Tx, LockPoolInTurn(t) \/ OtherOperation(t)
    PROVE  RequestInv'
<1> USE DEF RequestInv, OrdersTypeOK
<1>1. UNCHANGED <<quote, due, expiring, key, uses, step>>
  BY DEF LockPoolInTurn, OtherOperation, orderVars
<1>2. OwnTransactions'
  <2>1. CASE LockPoolInTurn(t)
    <3>1. UNCHANGED job /\ pc' = [pc EXCEPT ![t] = "locked"]
      BY <2>1 DEF LockPoolInTurn, LockPool
    <3>2. job[t].op = "reserve" => step[job[t].order] = "inserted"
      BY <2>1 DEF LockPoolInTurn
    <3>3. \A u \in Tx : u # t => pc'[u] = pc[u]
      BY <3>1 DEF TypeOK
    <3>4. QED BY <1>1, <3>1, <3>2, <3>3 DEF OwnTransactions, Creating
  <2>2. CASE OtherOperation(t)
    <3>1. \A u \in Tx : job'[u].op = "reserve" => job'[u] = job[u] /\ pc'[u] = pc[u]
      BY <2>2, OtherFrame
    <3>2. QED BY <1>1, <3>1 DEF OwnTransactions, Creating
  <2>3. QED BY <2>1, <2>2
<1>3. KeyTaken' /\ QuoteClosed'
  BY <1>1 DEF KeyTaken, QuoteClosed
<1>4. QED BY <1>1, <1>2, <1>3

\* The inductive invariant of createOrder: who owns which transaction, which
\* keys are taken and which quotes are closed.
THEOREM RequestInvariant == OrdersSpec => []RequestInv
<1>1. OrdersInit /\ TypeOK => RequestInv
  BY DEF OrdersInit, Init, RequestInv, OrdersTypeOK, OwnTransactions, KeyTaken, QuoteClosed,
     RequestSteps, Idle
<1>2. RequestInv /\ TypeOK' /\ [OrdersNext]_allVars => RequestInv'
  <2> SUFFICES ASSUME RequestInv, TypeOK', [OrdersNext]_allVars PROVE RequestInv'
    OBVIOUS
  <2>1. CASE UNCHANGED allVars
    BY <2>1 DEF allVars, vars, orderVars, RequestInv, OrdersTypeOK, OwnTransactions, Creating,
       KeyTaken, QuoteClosed
  <2>2. CASE OutsideTransaction
    BY <2>2, OutsideStep
  <2>3. CASE \E t \in Tx, o \in Orders : MarkQuoteUsed(t, o)
    BY <2>3, MarkStep
  <2>4. CASE \E t \in Tx : InsertOrder(t) \/ PlaceOrder(t) \/ AbortRequest(t)
    BY <2>4, InsertStep, EndStep
  <2>5. CASE \E t \in Tx : LockPoolInTurn(t) \/ OtherOperation(t)
    BY <2>5, PoolStep
  <2>6. QED
    BY <2>1, <2>2, <2>3, <2>4, <2>5 DEF OrdersNext, OutsideTransaction
<1>3. QED
  BY <1>1, <1>2, OrdersUsePool, TypeCorrect, PTL DEF OrdersSpec

\* One order at most is created for an idempotency key, however many copies of
\* a request overlap (orders.service.ts:21 and the unique index).
THEOREM KeyUsedOnce == OrdersSpec => []OneOrderPerKey
<1>1. RequestInv => OneOrderPerKey
  BY DEF RequestInv, KeyTaken, OneOrderPerKey
<1>2. QED BY <1>1, RequestInvariant, PTL

\* No request that reads a quote after an order was placed with it gets through.
THEOREM SpentQuoteClosed == OrdersSpec => SpentQuoteRefused
<1>1. RequestInv /\ [OrdersNext]_allVars =>
        [\A o, p \in Orders :
            step[p] = "placed" /\ uses[o] = uses[p] /\ step[o] \in {"new", "checked"}
              => step'[o] # "valid"]_allVars
  <2> SUFFICES ASSUME RequestInv, OrdersNext, NEW o \in Orders, NEW p \in Orders,
                      step[p] = "placed", uses[o] = uses[p], step[o] \in {"new", "checked"},
                      step'[o] = "valid"
               PROVE  FALSE
    OBVIOUS
  <2> USE DEF RequestInv, OrdersTypeOK
  <2>1. quote[uses[o]] # "ACTIVE"
    BY DEF QuoteClosed
  <2>2. ASSUME NEW r \in Orders, NEW s, step' = [step EXCEPT ![r] = s], s # "valid"
        PROVE  FALSE
    BY <2>2
  <2>3. step' # step
    OBVIOUS
  <2>4. CASE OutsideTransaction
    <3>1. ASSUME NEW r \in Orders, GetQuote(r) PROVE FALSE
      <4>1. CASE r = o
        BY <2>1, <2>2, <3>1, <4>1 DEF GetQuote, Answer
      <4>2. CASE r # o
        BY <3>1, <4>2 DEF GetQuote, Answer
      <4>3. QED BY <4>1, <4>2
    <3>2. ASSUME NEW r \in Orders, CheckKey(r) \/ PreCheck(r) \/ RequestFails(r) PROVE FALSE
      BY <2>2, <3>2 DEF CheckKey, PreCheck, RequestFails, Answer
    <3>3. QED
      BY <2>3, <2>4, <3>1, <3>2 DEF OutsideTransaction, CreateQuote, QuoteFallsDue, ViewQuote,
         ExpireQuote
  <2>5. ASSUME NEW t \in Tx, NEW r \in Orders, MarkQuoteUsed(t, r) PROVE FALSE
    BY <2>2, <2>5 DEF MarkQuoteUsed, Answer
  <2>6. ASSUME NEW t \in Tx, InsertOrder(t) \/ PlaceOrder(t) \/ AbortRequest(t) PROVE FALSE
    <3>1. job[t].order \in Orders
      BY <2>6 DEF OwnTransactions, InsertOrder, PlaceOrder, AbortRequest, CommitReserve
    <3>2. QED BY <2>2, <2>6, <3>1 DEF InsertOrder, PlaceOrder, AbortRequest, Answer
  <2>7. ASSUME NEW t \in Tx, LockPoolInTurn(t) \/ OtherOperation(t) PROVE FALSE
    BY <2>3, <2>7 DEF LockPoolInTurn, OtherOperation, orderVars
  <2>8. QED BY <2>4, <2>5, <2>6, <2>7 DEF OrdersNext, OutsideTransaction
<1>2. QED BY <1>1, RequestInvariant, PTL DEF OrdersSpec, SpentQuoteRefused

\* Orders that are created while others are paid, settled or cleaned up never
\* reserve more than the pool holds.
THEOREM OrdersNeverOverReserve == OrdersSpec => []NeverOverReserved
BY OrdersUsePool, PoolNeverOverReserved, PTL

\* ... and strand nothing of it, whichever rollback, expiry, release or payout
\* they overlap with.
THEOREM OrdersStrandNothing == OrdersSpec => []NoStrandedCapacity
BY OrdersUsePool, NothingStranded, PTL

\* Quotes, keys and requests keep their types, and so does the pool they use.
THEOREM OrdersTypeCorrect == OrdersSpec => []OrdersTypeOK
<1>1. RequestInv => OrdersTypeOK
  BY DEF RequestInv
<1>2. QED
  BY <1>1, RequestInvariant, PTL
=============================================================================

---------------------------- MODULE OrderCreation ----------------------------
(***************************************************************************)
(* Quotes (src/src/modules/quotes/quotes.service.ts) and the creation of   *)
(* orders (createOrder in src/src/modules/orders/orders.service.ts),       *)
(* composed with the pool that an order's reservation is taken from.       *)
(*                                                                         *)
(* createOrder looks for an order with the idempotency key, then reads the *)
(* quote and the pool, each in a statement of its own, and only then       *)
(* opens the transaction that marks the quote USED, inserts the order and  *)
(* reserves the amount.  An updated row and an inserted key stay locked,   *)
(* and the update stays invisible, until the transaction ends.             *)
(*                                                                         *)
(* A request is named by the order it would create.  All requests are of   *)
(* one user, the case in which their keys and quotes can meet.             *)
(***************************************************************************)
EXTENDS Liquidity

CONSTANTS
    Quotes,  \* quotes that may be created
    Keys,    \* idempotency keys
    NoKey    \* a request without an idempotency key

ASSUME KeyAssumption == NoKey \notin Keys

VARIABLES
    quote,     \* Quote.status, "NONE" before the row exists
    due,       \* quotes whose expiresAt has passed
    expiring,  \* quotes some getQuoteById call read as overdue and will expire
    key,       \* the idempotency key of each request
    uses,      \* the quote each request names
    step       \* how far each request has come

orderVars == <<quote, due, expiring, key, uses, step>>
allVars == <<vars, orderVars>>

QuoteStatus == {"ACTIVE", "USED", "EXPIRED"}
Answers == {"placed", "duplicate", "refused"}
RequestSteps == {"new", "checked", "valid", "ready", "marked", "inserted"}

OrdersTypeOK ==
    /\ TypeOK
    /\ quote \in [Quotes -> QuoteStatus \union {"NONE"}]
    /\ due \subseteq Quotes
    /\ expiring \subseteq Quotes
    /\ key \in [Orders -> Keys \union {NoKey}]
    /\ uses \in [Orders -> Quotes]
    /\ step \in [Orders -> RequestSteps \union Answers]

\* An order's amount is its quote's, so requests for one quote agree on it.
OrdersInit ==
    /\ Init
    /\ quote = [q \in Quotes |-> "NONE"]
    /\ due = {}
    /\ expiring = {}
    /\ key \in [Orders -> Keys \union {NoKey}]
    /\ uses \in {u \in [Orders -> Quotes] :
                    \A o, p \in Orders : u[o] = u[p] => Amount[o] = Amount[p]}
    /\ step = [o \in Orders |-> "new"]

\* Orders that exist for the key of request o.
Existing(o) == {p \in Orders : step[p] = "placed" /\ key[p] = key[o] /\ key[o] # NoKey}

\* The transaction that creates order o, if it is under way, and the row locks
\* it holds: that of its quote, and the index entry of its key once inserted.
Creating(o) == step[o] \in {"marked", "inserted"}
QuoteLocked(q) == \E o \in Orders : Creating(o) /\ uses[o] = q
KeyLocked(k) == k # NoKey /\ \E o \in Orders : step[o] = "inserted" /\ key[o] = k

Answer(o, s) == step' = [step EXCEPT ![o] = s]

-----------------------------------------------------------------------------
(* Quotes.                                                                 *)

\* createQuote: the limits and the price are data; liquidity is looked at but
\* decides nothing.
CreateQuote(q) ==
    /\ quote[q] = "NONE"
    /\ quote' = [quote EXCEPT ![q] = "ACTIVE"]
    /\ UNCHANGED <<vars, due, expiring, key, uses, step>>

\* The clock passes expiresAt.
QuoteFallsDue(q) ==
    /\ quote[q] # "NONE" /\ q \notin due
    /\ due' = due \union {q}
    /\ UNCHANGED <<vars, quote, expiring, key, uses, step>>

\* getQuoteById for GET /quotes/:id, when it finds the quote active and overdue.
ViewQuote(q) ==
    /\ quote[q] = "ACTIVE" /\ q \in due
    /\ expiring' = expiring \union {q}
    /\ UNCHANGED <<vars, quote, due, key, uses, step>>

\* The update of getQuoteById, by id and whatever the status has become.  More
\* than one call may have it still to do.
ExpireQuote(q) ==
    /\ q \in expiring
    /\ ~QuoteLocked(q)
    /\ quote' = [quote EXCEPT ![q] = "EXPIRED"]
    /\ expiring' \in {expiring, expiring \ {q}}
    /\ UNCHANGED <<vars, due, key, uses, step>>

-----------------------------------------------------------------------------
(* createOrder before its transaction.                                     *)

CheckKey(o) ==
    /\ step[o] = "new"
    /\ Answer(o, IF Existing(o) # {} THEN "duplicate" ELSE "checked")
    /\ UNCHANGED <<vars, quote, due, expiring, key, uses>>

\* A quote that is unknown, USED, EXPIRED or overdue is refused; the last kind
\* is then expired.
GetQuote(o) ==
    LET q == uses[o] IN
    /\ step[o] = "checked"
    /\ Answer(o, IF quote[q] = "ACTIVE" /\ q \notin due THEN "valid" ELSE "refused")
    /\ expiring' = IF quote[q] = "ACTIVE" /\ q \in due THEN expiring \union {q} ELSE expiring
    /\ UNCHANGED <<vars, quote, due, key, uses>>

\* getAvailableLiquidity, without a lock.
PreCheck(o) ==
    /\ step[o] = "valid"
    /\ Answer(o, IF pool.available >= Amount[o] THEN "ready" ELSE "refused")
    /\ UNCHANGED <<vars, quote, due, expiring, key, uses>>

\* A statement fails, or the process ends, before the transaction.
RequestFails(o) ==
    /\ step[o] \in {"checked", "valid", "ready"}
    /\ Answer(o, "refused")
    /\ UNCHANGED <<vars, quote, due, expiring, key, uses>>

-----------------------------------------------------------------------------
(* The transaction of createOrder.                                         *)

\* quote.update to USED, by id: it waits for the row and asks for no status.
MarkQuoteUsed(t, o) ==
    /\ step[o] = "ready"
    /\ ~QuoteLocked(uses[o])
    /\ BeginReserve(t, o)
    /\ Answer(o, "marked")
    /\ UNCHANGED <<quote, due, expiring, key, uses>>

\* Mutated form of InsertOrder: without the unique index on idempotency_key.
InsertOrderNotUnique(t) ==
    LET o == job[t].order IN
    /\ job[t].op = "reserve" /\ step[o] = "marked"
    /\ Answer(o, "inserted")
    /\ UNCHANGED <<vars, quote, due, expiring, key, uses>>

\* order.create waits while an uncommitted order has the key, and fails (see
\* AbortRequest) when a committed one has it.
InsertOrder(t) ==
    LET o == job[t].order IN
    /\ job[t].op = "reserve" /\ step[o] = "marked"
    /\ ~KeyLocked(key[o])
    /\ Existing(o) = {}
    /\ Answer(o, "inserted")
    /\ UNCHANGED <<vars, quote, due, expiring, key, uses>>

\* The pool is locked after the order is inserted.
LockPoolInTurn(t) ==
    /\ job[t].op = "reserve" => step[job[t].order] = "inserted"
    /\ LockPool(t)
    /\ UNCHANGED orderVars

\* Mutated form of PlaceOrder: the quote is left as it is.
PlaceOrderKeepsQuote(t) ==
    /\ CommitReserve(t)
    /\ Answer(job[t].order, "placed")
    /\ UNCHANGED <<quote, due, expiring, key, uses>>

\* The reservation is made and the transaction commits.
PlaceOrder(t) ==
    /\ CommitReserve(t)
    /\ quote' = [quote EXCEPT ![uses[job[t].order]] = "USED"]
    /\ Answer(job[t].order, "placed")
    /\ UNCHANGED <<due, expiring, key, uses>>

\* A duplicate key, an insufficient balance or a lost connection rolls the
\* transaction back: the quote, the order and the reservation are as before.
AbortRequest(t) ==
    /\ job[t].op = "reserve"
    /\ Abort(t)
    /\ Answer(job[t].order, "refused")
    /\ UNCHANGED <<quote, due, expiring, key, uses>>

-----------------------------------------------------------------------------

\* What payments, settlements and clean-up do with the reservations meanwhile.
\* Adjustments of the pool by hand do not concern orders.
OtherOperation(t) ==
    /\ \/ \E o \in Orders : BeginConfirm(t, o) \/ BeginConsume(t, o) \/ BeginRelease(t, o)
       \/ CommitConfirm(t) \/ CommitConsume(t) \/ CommitRelease(t)
       \/ job[t].op # "reserve" /\ Abort(t)
    /\ UNCHANGED orderVars

OrdersNext ==
    \/ \E q \in Quotes : CreateQuote(q) \/ QuoteFallsDue(q) \/ ViewQuote(q) \/ ExpireQuote(q)
    \/ \E o \in Orders : CheckKey(o) \/ GetQuote(o) \/ PreCheck(o) \/ RequestFails(o)
    \/ \E t \in Tx, o \in Orders : MarkQuoteUsed(t, o)
    \/ \E t \in Tx : InsertOrder(t) \/ LockPoolInTurn(t) \/ PlaceOrder(t) \/ AbortRequest(t)
    \/ \E t \in Tx : OtherOperation(t)

OrdersSpec == OrdersInit /\ [][OrdersNext]_allVars

\* The API goes on with a request it has, a connection becomes free, and the
\* database grants a lock that is free often enough and ends what it started,
\* by commit or by rollback.
Work(t) ==
    \/ InsertOrder(t) \/ LockPoolInTurn(t) \/ PlaceOrder(t)
    \/ AbortRequest(t) /\ (pc[t] = "locked" \/ step[job[t].order] = "marked")
    \/ OtherOperation(t) /\ pc[t] \in {"locked", "write"}

OrdersProgress ==
    /\ \A o \in Orders :
         SF_allVars(GetQuote(o) \/ PreCheck(o) \/ \E t \in Tx : MarkQuoteUsed(t, o))
    /\ \A t \in Tx : SF_allVars(Work(t))

FairOrdersSpec == OrdersSpec /\ OrdersProgress

-----------------------------------------------------------------------------
(* Properties.                                                             *)

\* However often a client repeats a request, and however the repetitions
\* overlap, one order at most is created for an idempotency key: the check at
\* orders.service.ts:21 answers the late ones and the unique index the rest.
OneOrderPerKey ==
    \A o, p \in Orders :
        o # p /\ step[o] = "placed" /\ step[p] = "placed" => key[o] = NoKey \/ key[o] # key[p]

\* A quote is spent for every request that reads it after an order was placed
\* with it: only requests that overlap can use a quote twice
\* (orders.service.ts:39-48 and 59-62).
SpentQuoteRefused ==
    [][\A o, p \in Orders :
          step[p] = "placed" /\ uses[o] = uses[p] /\ step[o] \in {"new", "checked"}
            => step'[o] # "valid"]_allVars

\* "Re-using a USED ... quote for order creation is strictly blocked."
\* (docs/MAINNET_03_QUOTE_HARDENING.md)
OneOrderPerQuote ==
    \A o, p \in Orders :
        o # p /\ step[o] = "placed" /\ step[p] = "placed" => uses[o] # uses[p]

\* Again and again every request that has been received is answered: the locks
\* of quote, key and pool are always taken in this order, so that requests
\* which share a quote or a key never wait for each other in a circle.
EveryRequestAnswered == []<>(\A o \in Orders : step[o] \in Answers \union {"new"})
=============================================================================

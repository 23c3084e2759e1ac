# LuminaRail backend: TLA+ specifications

LuminaRail takes Nigerian naira through a payment provider and pays out USDC on
Stellar. A customer asks for a quote, creates an order (which reserves capacity of
a liquidity pool), pays, and a worker process settles the order on chain. This
directory models the part of the backend where money can be lost or counted twice.
Paths below are relative to the repository; line numbers are in `PROJECT.json`.

## 1. The system

### Components

| Component | Source (`src/src/…`) | State | Operations |
|---|---|---|---|
| Liquidity pool | `modules/liquidity/liquidity.service.ts` | pool row (total, reserved, available), one reservation per order, treasury ledger | reserve, confirm, consume, release, expire, manual adjustment |
| Payments | `modules/payments/` | payment rows, provider transactions | createPayment, verifyPayment |
| Webhooks | `modules/webhooks/webhooks.service.ts` | webhook events (unique per provider and event) | processWebhook |
| Orders | `modules/orders/` | order row: status, wallet | createOrder, updateOrderWallet |
| Quotes | `modules/quotes/` | quote row | create, use, expire |
| Refunds | `modules/refunds/` | refund rows | createRefund, executeRefund |
| Settlement service | `modules/settlements/` | settlement row: status, hash, age | createSettlementForOrder, mark* |
| Settlement worker | `workers/settlement.worker.ts` | none of its own | settlement sweep |
| Reconciliation daemon | `workers/reconciliation.daemon.ts` | none of its own | settlement sweep, payment sweep |
| Cleanup worker | `workers/reservation-cleanup.worker.ts` | none of its own | expiry sweep |
| Distributed locks | `infrastructure/locks/` | Redis keys with a token and a TTL; a local "owned" flag | acquire, renew, release |
| Soroban services, policy engine, signers | `stellar/` | the chain | build, approve, sign, broadcast, confirm, query |
| Everything else | auth, users, wallets, merchants, audit, telemetry, config, Stellar read services | | read-mostly |

### Interaction

API requests, webhook deliveries and any number of worker replicas share one
PostgreSQL database (READ COMMITTED) and one Redis. There are no messages between
them: they meet in rows. A worker replica runs its sweeps one after the other, for
ever; each sweep selects a batch, and works on the items with an `await` at each
database statement, Redis command and RPC, so that everything else may happen
there. The payment provider answers queries and sends webhooks at least once; the
Stellar network takes a transaction, and later includes it, rejects it or drops it.

### What is hard

* A status is read, then something is awaited (a row lock, the provider, an RPC),
  then the decision is applied by primary key alone.
* The payment, the reservation and the order are written by separate transactions
  in several flows; a crash in between is repaired, if at all, by a sweep.
* A broadcast cannot be undone, and its hash is stored after it.
* Redis locks expire under a stalled holder, and the code's own view of the lock is
  a flag that lags.
* Two flows lock order and payment in opposite order.
* Limits (the quote's single use, the treasury's outflow) are checked against rows
  that others are about to change.

The individual hazards, each at its line, are in `PROJECT.json` under `hazards`.

### What makes each component correct

* Pool: `available = total - reserved`, `reserved <= total`, `reserved` is the sum
  of the live reservations, `total` is what the ledger says.
* Payments: nothing counts as paid that was not captured; a recorded success is not
  taken back; a capture is noticed although its webhook is lost; the order then settles.
* Settlement: nothing is booked as paid that was not paid on chain; nothing is given
  up that was or can still be paid; one broadcast per order; every settlement ends,
  and its reservation is consumed or released.
* Locks: while renewals are in time one process owns a key, and nobody releases a
  key that is not its own.
* Orders and quotes: one order per idempotency key; a spent quote is refused; a
  request that fails leaves no capacity behind; every request is answered.
* Signing: nobody broadcasts between another's read of the account and its
  broadcast; the outflow limit is exceeded by no more than what was in flight.
* Refunds: the customer gets back no more than was captured; an order is refunded or
  settled, not both.

Not all of this is true of the code. What holds, and under which conditions, and what
does not, is said with the runs in section 3.

## 2. Modules

| Module | Models | Uses | Run by | Proved in |
|---|---|---|---|---|
| `Locks` | the distributed lock service | – | through `Settlement`, `Signing` | `LocksProofs` |
| `Liquidity` | the liquidity service | – | `MCLiquidity` | `LiquidityProofs` |
| `Pool` | what the liquidity service promises (abstract) | – | implemented by `Liquidity` | `LiquidityProofs` |
| `OrderCreation` | quotes and createOrder | `Liquidity` | `MCOrderCreation` | `OrderCreationProofs` |
| `Payments` | payments, webhooks, wallet update, cleanup worker, payment reconciliation | – | `MCPayments` | `PaymentsProofs` |
| `Settlement` | settlement worker, settlement reconciliation, settlement service, policy engine, Soroban services | `Locks` | `MCSettlement` | `SettlementProofs` |
| `Payout` | what settlement promises of a paid order (abstract) | – | implemented by `Settlement` | `SettlementProofs` |
| `Signing` | the section under the account's sequence lock, outflow limits, KMS signer | `Locks` | `MCSigning` | `SigningProofs` |
| `Refunds` | refunds against the settlement of their order | – | `MCRefunds` | `RefundsProofs` |

The modules follow an order through its life: `OrderCreation` ends where `Payments`
begins, and `Payments` where `Settlement` and `Refunds` begin. `Sums` holds the lemmas
about sums over a set of orders that the proofs of `Liquidity`, `OrderCreation`,
`Signing` and `Refunds` share.

### Locks

`redis` is the process whose token each key holds, `held` the keys whose lock object
says owned. The two come apart: a key expires under a stalled holder (`KeyExpires`),
a renewal throws and drops the flag while the key lives on (`RenewThrows`), `SET`
throws after Redis has executed it (`LockFails`), a crash drops all flags and no key
(`Forget`). `missed` counts renewals that came late or threw; the service promises
exclusion only while it is 0. `Settlement` and `Signing` use these actions as
conjuncts of their own, and `UsesLockService` proves that a replica does nothing
else to a lock.

Abstractions: a token is represented by its process, because a process never has
two lock objects for one key; time is left out, so that a key nobody renews may
expire at any moment. `withLock` has no caller.

### Liquidity

Each operation is one PostgreSQL transaction, split where another can get in
between: `Begin…` reads the reservation without a lock and decides (the early
returns of the code are its guard), `LockPool` waits for `SELECT … FOR UPDATE` and
reads the pool row into `view`, `Commit…` writes both rows from `view` and frees the
lock. `confirmReservation` takes no lock. `Abort` ends a transaction at any step.
`payouts` and `adjusted` stand for the treasury ledger. Amounts are natural numbers
(stroops); balances are clamped at zero where the code clamps them.

`Spec` lets transactions of one order overlap, as the callers do: a webhook, a
verification, the cleanup worker and the daemon may all be at one order. `SerialSpec`
is the same system under the hypothesis that operations on one order do not overlap,
which nothing in the code guarantees. It is there to say what the service promises if
its callers take turns. Without it two overlapping releases give capacity back twice
(the clamps at zero hide it), two overlapping consumptions book two payouts although
the comment at `liquidity.service.ts:167` says "Idempotent", and the exact statements
(`ExactAccounting`, `LedgerExplainsTotal`, `ImplementsPool`) are refuted.
`PoolBalanced`, `NeverOverReserved` and `NoStrandedCapacity` hold of `Spec`.

`ImplementsPool` maps the state to `Pool`, an atomic pool of claims that are held,
spent or returned: each commit is one of its operations and all other steps are
stutters. It is what the callers of the service assume, and holds of `SerialSpec`.

### OrderCreation

A request is named by the order it would create. `createOrder` looks for the key
(`CheckKey`), reads the quote (`GetQuote`) and the pool (`PreCheck`), each on its
own, and then runs a transaction on one of the pool's connections: `MarkQuoteUsed`,
`InsertOrder`, `LockPoolInTurn`, `PlaceOrder`. A row that is updated and a key that
is inserted stay locked until the end of the transaction (`QuoteLocked`,
`KeyLocked`), and what it wrote is seen only then. The other operations on
reservations go on next to it, also overlapping ones on one order
(`OtherOperation`).

Abstractions: all requests are of one user; a quote's price is a constant; the
read of an overdue quote and its expiry are separate steps (`expiring`), of any
number of readers. No code cancels a quote. Adjustments of the pool by hand are
explored in `Liquidity` alone.

### Settlement

One step is one statement or transaction, one Redis command or one RPC of a replica.
`pc` names the next step; `role` says whether the settlement sweep, its catch block
or the daemon is running. A `mark*` function is `Validate` (read the row, check the
state machine) and `Write` (update by id, whatever the row has become), then
`consumeReservation` in a transaction of its own when it completes. `redis` is the
token each key holds, `held` the local flags. `txs` is the chain. `DbThrows` is an
exception of the database at any statement, with the catch block it ends in: also that
of `markSubmitted` after the broadcast, where the worker finds SUBMITTING and fails a
settlement that was paid. `misread` is history: the orders of which a status query was
answered by an exception, which the code takes for a failed transaction.

Abstractions:

* The section under the lock of the account's sequence number is one step here and
  is taken apart in `Signing`. The emergency pause is left out.
* Taking the sweep lock and selecting the batch is one step. A sweep that selects
  nothing does not change state.
* Amount, address and outflow checks of the policy engine are the free choice
  `RefuseToSign`; the checks on order, reservation, settlement and age are modelled.
* Orders start paid, with a wallet and a CONFIRMED reservation. Audit log and
  telemetry are left out, and refunds have a module of their own.

`ImplementsPayout` maps the chain and the reservations to `Payout`: the liquidity of
an order leaves the vault once and is booked as spent, or is returned, never both.

### Signing

Processes submit different orders at a time. The section is the code's: take the
lock or, where locks are optional, go on without it; read the account; let the
policy engine sum what is booked; sign; broadcast; release. A ledger takes a
transaction only if it has the account's next sequence number. `seen` and
`overlooked` are history: what had been sent when a process read the account, and
what was in flight at the last policy check.

Abstractions: that an order is submitted once is `Settlement`'s business; all
payouts fall into the window of the limit; an order's own lock is the exception
`SubmissionFails`.

### Payments

One order and its payments. A `job` is what an API request, a webhook delivery or
the worker is doing: its kind, its next step, and what it has read (`seen`, `goal`,
`next`). `rowPayment` and `rowOrder` are the row locks of open transactions. The
transaction of `createPayment` and of `processWebhook` updates the payment first and
becomes visible when it commits; meanwhile `confirmReservation` or
`releaseReservation`, which opens a transaction of its own, commits at once
(`UpdateReservation`). `verifyPayment` commits each statement. The daemon locks the
order, asks the provider inside the transaction, and writes everything together.
`BreakDeadlock` is PostgreSQL's choice of a victim when a webhook and the daemon
wait for each other.

Abstractions:

* A charge is pending, fails, succeeds, or is captured with another amount than the
  order's (`short`): a success for webhooks and for a verification without an amount, a
  failure for the daemon, which gives the order's amount.
* `FalseFailures` adds the answers that call a charge failed which is not: Paystack's
  `abandoned` for a charge that may still be paid, and the mismatch with whatever amount
  the body of a verification request names, which the controller passes on unchecked.
  It is on in `payments` and arbitrary in the proofs; `payments_stuck` needs none of it.
* `verifyPayment`'s read and the provider's answer are one step; the stale use of
  both afterwards is what matters. The customer pays after `createPayment` has
  answered, since the answer carries the payment instructions.
* The worker is one process: the sweep locks exclude the others. Its sweeps do not
  overlap, as in the code's runner.
* There is no clock: where `MayExpire` holds, a RESERVED reservation may be past its
  `expiresAt` at any moment.
* Confirm and release are single steps here; `Liquidity` splits them.
* The settlement side is `SubmitSettlement` and `EndSettlement`, with the three ways
  in which a settlement ends in `Settlement`.
* `createOrder` is the initial state. `transitionOrderStatus` has no caller.

### Refunds

One order that is paid, its settlement, and refund requests of administrators and of
the customer. `createRefund` holds the row lock of the order (`rowOrder`) from
`BeginRefund`, which reads the order, the settlement and the refunds (`seen`,
`left`), to `CommitRefund`. `executeRefund` commits step by step: PROCESSING, the
provider's answer, the record of it, the release of the reservation. `seen` is read
again before the provider is asked, and the order's transition is judged by it
afterwards; where it is not allowed the transaction rolls back and the refund stays
PROCESSING. `returned` is what the customer really got.

The worker is `Settlement` reduced to what refunds can tell apart: one process, the
statuses that `createRefund` distinguishes, and the two reads of the policy engine
(order, then refunds) as separate steps. It locks no order row before it pays.

Abstractions:

* Each request has an idempotency key of its own, and only the request that created
  a refund executes it, so `executeRefund`'s Redis lock (which the code can do
  without) is left out. `processAutomaticRefund` has no caller.
* A refund that the provider has begun is made or not; `PROCESSING` covers a pending
  refund and a network error, made or not, and `FAILED` also an HTTP error or an
  unreadable body that hides a made refund, as in the client.
* The insert of the settlement row waits for a request that holds the order row, because
  its foreign key locks that row; the later writes of the settlement do not.
* A settlement is only given up when it is unpaid. That the code sometimes gives up
  a paid one is what `settlement_two_replicas` shows.

## 3. Runs

| Run | Result | What it shows |
|---|---|---|
| `liquidity_serial` | pass | three transactions, at most one on each order: they implement the atomic pool, the books are exact and the ledger explains them, every transaction ends |
| `orders` | pass | two requests for one quote, any keys, with all operations on reservations, also overlapping ones on one order: one order per key, spent quotes refused, nothing over-reserved or stranded, every request answered |
| `orders_reuse` | violation | two overlapping requests both place an order with one quote |
| `settlement_single` | pass | one replica, two orders, optional locks and a Redis that throws: every settlement ends, what was paid is booked, `Payout` is implemented |
| `settlement_crash_once` | pass | two replicas, a crash anywhere, a missed renewal, Redis, database and RPC exceptions, lost replies: nothing is booked unpaid; with renewals in time locks exclude, an order is broadcast once, and a payout whose hash is recorded is not given up |
| `settlement_two_replicas` | violation | no fault at all, two replicas: a paid settlement ends FAILED |
| `settlement_failed_held` | violation | a settlement the worker fails keeps its reservation for ever |
| `payments` | pass | one payment, two requests at a time, the worker, expiry, false failures, any one job cut short: nothing counts as paid that was not captured; a success is taken back by the reconciliation only; a capture does not stay PENDING |
| `payments_stuck` | violation | a capture only the daemon notices leaves its order unsettled |
| `refunds` | pass | three requests of any amount, any one crash, the settlement: requests decide on fresh reads, no more is returned than was captured, a refund created while no payout is underway rules the payout out |
| `refunds_and_paid` | violation | a refund whose request has read the settlement as PENDING, which is submitted and approved before the refund commits: the order gets both |
| `signing` | pass | two processes, three orders, a crash, a missed renewal: the section is exclusive, the outflow limit is overshot by no more than what was in flight |

What the violations mean for the code, with the sentence of the documentation each
contradicts, is under `findings` in `PROJECT.json`.

### Bounds

* Liquidity: two orders of amounts 2 and 3 against a pool of 4 and an adjustment of
  1, so that the second reservation fails or succeeds depending on order; three
  transactions make a queue on the lock. What holds of overlapping transactions of
  one order is proved for any number of them.
* Orders: two requests for one quote are enough for every race on a quote or a key; the
  pool serves one of them at a time in `orders` and both in `orders_reuse`.
* Settlement: two replicas, because every race found or excluded is between two
  (one may run the worker and the other the daemon). `MaxBroadcasts = 2` is the
  smallest bound that can violate `BroadcastOnce`. With two orders the batch of a
  sweep has a rest that a later step may find changed.
* Payments: one payment and two requests besides the worker: two webhooks, a
  webhook and a verification, a wallet update and either, at once, and a fault that
  can hit every step. The safety properties of several payments are proved, and with
  two payments and one request all five properties pass as well (1,099,428 states).
* Signing: three orders of amounts 2, 1 and 1 against a limit of 3, so that a check
  may fail, pass, or pass only because another payout is in flight.
* Refunds: a captured amount of 2 allows a whole refund, a part, and a rest; three
  requests allow two overlapping ones and one after a failure; the customer's request
  depends on the states that others bring about.

Symmetry is used for replicas in `settlement_crash_once` and `signing`, which are runs
of invariants and action properties. Order requests, refund requests and submissions come to an end, so the runs
of `OrderCreation`, `Refunds` and `Signing` do not check deadlock.

### Limits of these results

* The exact statements about the pool hold under `SerialSpec`, a hypothesis that the
  callers do not fulfil (section 2, Liquidity).
* `EventuallyTerminal`, `EventuallyConsumed` and `ImplementsPayout` pass in
  `settlement_single` without crashes and without exceptions of the database and the RPC
  node. A crash or a database exception between completion and consumption leaves a
  reservation that no sweep consumes.
* `FailedIsUnpaid` is claimed of no run but the one that refutes it. Besides a second
  replica, each of these refutes it alone: a crash after the broadcast, a database
  exception in `markSubmitted`, a lost reply of the broadcast, an exception of the status
  query. `RecordedPayoutKept` says what is left of it: once the hash is recorded, only an
  exception of the status query gives a payout up that may have happened. A hash that was
  not recorded is lost.
* `SuccessIsKept` lets the reconciliation take a success back, since it writes the payment
  by id with an answer that may be stale or compares another amount. A captured charge
  that a verification with a wrong amount has failed stays FAILED: `CaptureIsNoticed`
  asks for a recorded outcome, not for a success.
* `CaptureIsNoticed` excepts orders with a second payment, since the daemon looks at any
  payment of the order and may keep looking at the wrong one, and released reservations,
  which end reconciliation.
* `RefundedAtMostCaptured` leaves out refunds that were made and reported as failed; with
  them one misreported refund is enough to return too much.
* `RefundExcludesPayout` starts from a refund that is created while no payout is underway;
  `refunds_and_paid` shows the other case.
* `Exclusive`, `BroadcastOnce`, `RecordedPayoutKept` and `SequenceSection` hold while
  renewals are in time; the local ownership flag does not protect a stalled holder.
  `SequenceSection` does not exclude txBAD_SEQ, as the next read of the account does not
  see a transaction that is still pending.

### Fairness

* `Liquidity!Progress`: PostgreSQL grants a row lock to its waiters in turn (strong
  fairness of `LockPool`), and a transaction that has its lock ends.
* `OrderCreation!OrdersProgress`: the API goes on with its requests, connections and
  locks become free often enough (strong fairness), and a transaction ends.
* `Settlement!Fairness`: the runner loops for ever and every await returns; the
  network resolves a transaction within its time bounds; Redis expires keys; time
  passes (strong fairness of `Age`, since a settlement is worked on again and again);
  Redis does not throw for ever (strong fairness of `AcquireSettlementLock`).
* `Payments!Fairness`: jobs in progress go on and get the rows they wait for, the
  worker sweeps, deadlocks are broken. Customers and webhooks owe nothing.

## 4. Proofs

The proofs hold for every value of the constants: any number of orders,
transactions, replicas, broadcasts, crashes, and any combination of the fault
switches. They use the modules' own `ASSUME`s. Where a theorem has a hypothesis, it is in
its statement: `RequireLocks`, or `Alone` in `SettlementProofs`; those of `SerialSpec` have
its hypothesis.

* `LocksProofs`: `LocksExclude` and `HolderReleases` of the lock service on its own.
  Two lock objects never meet; what makes exclusion inductive is Redis in between
  (`HeldIsLocked`: an owned object has its token in the key).
* `Sums`: what `SumFunctionOnSet`, the sum of a function over a set, is for the empty
  set, with one member more, with one value changed, over a union and over a subset.
  The library defines it by recursion and its induction rules are out of the provers'
  reach, so each lemma is shown by the smallest counterexample: strict inclusion is
  well founded on the subsets of a finite set (`FS_StrictSubsetOrderingWellFounded`),
  hence a set for which a lemma fails contains a minimal one, and taking a member out
  of that contradicts its minimality.
* `LiquidityProofs`: `TypeCorrect`, `PoolAlwaysBalanced`, `PoolNeverOverReserved` and
  `NothingStranded` of `Spec`. The balance alone is not inductive, because a commit
  writes what its transaction read earlier. `PoolInv` adds `LockDiscipline`: a
  transaction past `LockPool` holds the lock, and its `view` is the pool row as it is
  now. Two holders would be equal (`LockedAlone`), so a commit cannot invalidate
  another's view. `OverlapInv` adds for `NothingStranded` that a transaction which
  creates a reservation is alone with its order, so that capacity may be given back
  twice but is never taken twice for one reservation.
  `PoolImplemented`, `ReservedIsExact` and `LedgerIsExact` are of
  `SerialSpec`: `SerialInv` adds that what a transaction read of its reservation before
  the wait still holds after it (`JobFits`), which is where overlapping operations on
  one order would break the proof. The two sums change at commits only, by the amount
  of one order, which `SumAdd` accounts for.
* `OrderCreationProofs`: `KeyUsedOnce`, `SpentQuoteClosed`, `OrdersNeverOverReserve`,
  `OrdersTypeCorrect`, `OrdersStrandNothing`. Every step is one of the pool's or leaves
  it alone (`OrdersUsePool`), so that the pool's theorems carry over. `RequestInv` adds
  that a reserving transaction belongs to one request, that an inserted order keeps its
  key, committed or not, and that the quote of a placed order is USED or EXPIRED.
* `PaymentsProofs`: `TypeCorrect`, `PaidMeansCaptured`, `ProcessedMeansRecorded` and
  `SuccessesAreKept`. A job carries what it will write; `JobFits` says for each kind and
  step of a job what backs it, and `Grows` that no step takes a captured charge or an
  outcome back. `CarryInv` adds for the action property that a transaction holds the row
  of its payment from its update to its commit, and that what a webhook read there as a
  success it commits as one: nobody else writes the row meanwhile. A verification writes
  only over the status it read, which the state machine does not let it change once it is
  an outcome. A job of `createPayment` has no captured charge.
* `SettlementProofs`, in four parts.
  * `TypeCorrect` and `NothingBookedUnpaid`. `CompletedIsPaid` is not inductive, because
    the evidence for a completion is gathered steps before the row is written. `Inv`
    adds `ChainOK` (no transaction exists before it is broadcast, so that a broadcast
    never replaces one) and `ReplicaOK` (among other things, a replica about to mark
    COMPLETED, or to consume, is at work on an order that has a successful transaction).
    The step lemma goes through the actions one by one; `OthersKeep` moves the local part
    to the other replicas. No lock is mentioned: the argument needs none of them.
  * `UsesLockService` shows that the replicas implement `LocksSpec`, which gives
    `SettlementExcludes` and `SettlementReleases`. `PaidOutOnce` shows `BroadcastOnce`
    where locks are required. The settlement's own lock does not carry it, since its key
    expires after a crash; `OnceInv` says that only the holder of the sweep's lock
    broadcasts, that the orders of its batch have not been broadcast, and that a broadcast
    order has a status which keeps it out of later batches.
  * `RecordedIsKept` where locks are required. `KeptInv` rests on `OnceInv`: as there is
    one broadcast, the hash in the row is that transaction (`RowOK`), and a replica that
    is about to write FAILED has been told by the chain that it is `Hopeless`, or has not
    seen a hash because none was recorded (`KnowsOK`).
  * `PayoutImplemented`, under the hypothesis `Alone`: one replica, no crash, no exception
    of the database or the RPC node and no lost reply, which are the conditions of
    `settlement_single`; the number of orders and broadcasts, the locks and Redis stay
    arbitrary.
    `SoleOK` says that the recorded hash is the transaction that was
    sent, save between `Broadcast` and the write of SUBMITTED; that nothing was sent
    under an earlier status; that a stale settlement has nothing pending; and that a
    replica about to write FAILED, or to release, has an order none of whose transactions
    can succeed (`Dead`). `PayoutImplemented` maps a success on chain to `Pay`,
    `consumeReservation` to `Spend`, `releaseReservation` to `Return` and every other step
    to a stutter.
* `SigningProofs`: `TypeCorrect`; `SectionIsExclusive` where locks are required; and
  `OvershootBounded`. A process in the section has the lock, and its order is its own
  and not sent yet; an approved order is nobody else's (`ApprovedOwn`), so that booking
  it moves its amount from under way to booked and adds nothing.
* `RefundsProofs`: `TypeCorrect`, `CommitsOnFreshReads`, `NeverRefundsTooMuch` and
  `RefundStopsPayout`. `FreshReads` needs no more than the shape of the functions:
  everything that changes the order or the sum of its refunds waits for the row lock.
  `ClaimInv` bounds the sum of what each refund has returned or may still return; a new
  refund is created on a fresh `Remaining`, and stays within it. `RefundStopsPayout` rests
  on the order, which is never SETTLEMENT_PENDING again after a refund was created, and
  on the second read of the policy engine.

`Sums` needs finite sets: the orders of `Liquidity` and of `Signing` and the refunds of
`Refunds` are assumed to be finitely many.

Model-checked only: liveness (`EveryTransactionEnds`, `EveryRequestAnswered`,
`EventuallyTerminal`, `EventuallyConsumed`, `CaptureIsNoticed`), which rests on fairness
and is outside the prover's reach. Every other property that a passing run checks is a
theorem. The refuted properties of the runs that expect a violation are TLC's.

## 5. Not modelled

Exchange rates and prices, authentication, users, wallets and merchants, the audit
log, telemetry, the health endpoint, the sandbox providers and the Stellar read
services: `PROJECT.json` gives the reason for each. Of the worker process the loop is
modelled and the graceful shutdown is not: where it waits for a sweep it adds nothing,
and where it gives up it is a crash. Wording, formatting, HTTP, XDR and cryptography
are left out throughout.

## 6. What could follow

1. Rounding between the columns' scales, stroops and kobo.
2. The order's life cycle as an abstract specification, and which flows implement it.

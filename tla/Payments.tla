------------------------------- MODULE Payments -------------------------------
(***************************************************************************)
(* How one order gets paid: API requests (payments.service.ts,             *)
(* orders.service.ts), webhook deliveries (webhooks.service.ts) and the    *)
(* worker process (reservation-cleanup.worker.ts and the payment part of   *)
(* reconciliation.daemon.ts) act on the order, its payments and its        *)
(* reservation.  Orders share nothing but the pool, which is the subject   *)
(* of module Liquidity.                                                    *)
(*                                                                         *)
(* One step is one statement or transaction as the others see it.  A       *)
(* transaction that updates the payment first and the order last           *)
(* (createPayment, processWebhook) holds the row lock of the payment       *)
(* in between, its payment update becomes visible when it commits, and the *)
(* reservation is confirmed or released by a transaction of its own.       *)
(* Payment reconciliation holds the row lock of the order.                 *)
(*                                                                         *)
(* The sweep locks let one worker process at a time clean up or reconcile. *)
(* Refunds are not part of this module.                                    *)
(***************************************************************************)
EXTENDS Naturals

CONSTANTS
    Payments,    \* payments a customer may create for the order
    Requests,    \* API requests and webhook deliveries in progress
    Worker,      \* the worker process
    Nobody,      \* a row that is not locked
    NoPayment,   \* a job that concerns no payment
    Outcomes,    \* how a charge may end at the provider
    FalseFailures, \* verifications may call a charge failed that is not
    MayExpire,   \* the 15 minutes of the reservation may be over
    MayFail,     \* kinds of job that may be cut short by a crash or an error
    MaxFaults    \* bound: jobs that are cut short

ASSUME NullAssumption ==
    /\ Nobody \notin Requests \union {Worker}
    /\ Worker \notin Requests
    /\ NoPayment \notin Payments
ASSUME OutcomeAssumption == Outcomes \subseteq {"success", "short", "failed"}
ASSUME FaultAssumption ==
    /\ MayExpire \in BOOLEAN /\ FalseFailures \in BOOLEAN
    /\ MayFail \subseteq {"create", "verify", "webhook", "wallet", "cleanup", "reconcile"}
    /\ MaxFaults \in Nat

VARIABLES
    order,        \* Order.status
    wallet,       \* the order has a walletAddress
    reservation,  \* LiquidityReservation.status
    settlement,   \* Settlement.status as far as it concerns payments
    payment,      \* Payment.status, "NONE" before the row exists
    provider,     \* the charge at the payment provider
    event,        \* the WebhookEvent row of the charge's outcome
    rowOrder,     \* transaction that holds the row lock of the order
    rowPayment,   \* transaction that holds the row lock of each payment
    job,          \* what each request and the worker are doing
    faults        \* jobs cut short so far

rows == <<order, wallet, reservation, settlement, payment, event>>
vars == <<rows, provider, rowOrder, rowPayment, job, faults>>

Handlers == Requests \union {Worker}

OrderStatus == {"CREATED", "AWAITING_PAYMENT", "PAYMENT_CONFIRMED",
                "SETTLEMENT_PENDING", "COMPLETED", "FAILED", "EXPIRED"}
PaymentStatus == {"CREATED", "PENDING", "SUCCEEDED", "FAILED"}

\* PaymentStateMachine.allowedTransitions between the statuses that occur.
allowedTransitions ==
    [s \in PaymentStatus |->
        CASE s = "CREATED" -> {"PENDING", "SUCCEEDED", "FAILED"}
          [] s = "PENDING" -> {"SUCCEEDED", "FAILED"}
          [] OTHER -> {}]

canTransition(from, to) ==
    from \in PaymentStatus /\ (from = to \/ to \in allowedTransitions[from])

Kinds == {"idle", "create", "verify", "webhook", "wallet", "cleanup", "reconcile"}
Steps == {"begin", "provider", "lookup", "update", "reservation", "readOrder",
          "writeOrder", "processed", "lockOrder", "query", "record"}

Jobs == [kind : Kinds,
         step : Steps,
         pay : Payments \union {NoPayment},
         seen : PaymentStatus \union {"NONE"},   \* payment status it read
         goal : PaymentStatus \union {"NONE"},   \* payment status it brings
         next : OrderStatus \union {"NONE"}]     \* order status it will write

Idle == [kind |-> "idle", step |-> "begin", pay |-> NoPayment,
         seen |-> "NONE", goal |-> "NONE", next |-> "NONE"]

TypeOK ==
    /\ order \in OrderStatus
    /\ wallet \in BOOLEAN
    /\ reservation \in {"RESERVED", "CONFIRMED", "CONSUMED", "EXPIRED_RELEASED",
                        "CANCELLED_RELEASED"}
    /\ settlement \in {"NONE", "PENDING", "SUBMITTED", "COMPLETED", "FAILED"}
    /\ payment \in [Payments -> PaymentStatus \union {"NONE"}]
    /\ provider \in [Payments -> {"none", "pending", "success", "short", "failed"}]
    /\ event \in [Payments -> {"none", "claimed", "processed"}]
    /\ rowOrder \in Handlers \union {Nobody}
    /\ rowPayment \in [Payments -> Handlers \union {Nobody}]
    /\ job \in [Handlers -> Jobs]
    /\ faults \in 0..MaxFaults

\* createOrder: the order is created together with its reservation, with or
\* without a wallet.
Init ==
    /\ order = "CREATED"
    /\ wallet \in BOOLEAN
    /\ reservation = "RESERVED"
    /\ settlement = "NONE"
    /\ payment = [p \in Payments |-> "NONE"]
    /\ provider = [p \in Payments |-> "none"]
    /\ event = [p \in Payments |-> "none"]
    /\ rowOrder = Nobody
    /\ rowPayment = [p \in Payments |-> Nobody]
    /\ job = [h \in Handlers |-> Idle]
    /\ faults = 0

-----------------------------------------------------------------------------
(* Moves of a job.                                                         *)

At(h, step) == job[h].step = step
Becomes(h, j) == job' = [job EXCEPT ![h] = j]
Go(h, step) == Becomes(h, [job[h] EXCEPT !.step = step, !.seen = "NONE"])
GoMark(h) == Becomes(h, [Idle EXCEPT !.kind = "webhook", !.step = "processed",
                                     !.pay = job[h].pay])
Start(h, kind, step, p) ==
    /\ job[h] = Idle
    /\ Becomes(h, [Idle EXCEPT !.kind = kind, !.step = step, !.pay = p])

\* What the job holds is unlocked, by commit or by rollback.
Unlock(h) ==
    /\ rowOrder' = IF rowOrder = h THEN Nobody ELSE rowOrder
    /\ rowPayment' = [p \in Payments |-> IF rowPayment[p] = h THEN Nobody ELSE rowPayment[p]]

\* Transactions whose payment update waits for their commit.
Transactional == {"create", "webhook"}

\* confirmReservation and releaseReservation.
Confirm(r) == IF r = "RESERVED" THEN "CONFIRMED" ELSE r
Release(r, to) == IF r \in {"RESERVED", "CONFIRMED"} THEN to ELSE r

\* What the provider says of the charge.  A webhook never compares amounts.
Reported(p) ==
    CASE provider[p] = "failed" -> "FAILED"
      [] provider[p] \in {"success", "short"} -> "SUCCEEDED"
      [] OTHER -> "PENDING"

\* A charge that is still open counts as failed while Paystack calls it
\* abandoned; the customer may pay it all the same.
FalselyFailed(p) == FalseFailures /\ provider[p] = "pending"

\* What the provider may answer when it is asked for the order's amount, which
\* is the charge's unless another one was captured ("short").
ReportedForAmount(p) ==
    IF provider[p] = "short" THEN {"FAILED"}
    ELSE {Reported(p)} \union (IF FalselyFailed(p) THEN {"FAILED"} ELSE {})

\* What it may answer a caller who gives any amount, or none: a wrong one makes
\* every charge a failed one.
ReportedToCaller(p) ==
    {Reported(p)} \union ReportedForAmount(p)
        \union (IF FalseFailures THEN {"FAILED"} ELSE {})

-----------------------------------------------------------------------------
(* PaymentService.createPayment.  Nothing is asked of the order's status.  *)

createPayment(h, p) ==
    /\ h \in Requests
    /\ payment[p] = "NONE"
    /\ payment' = [payment EXCEPT ![p] = "CREATED"]
    /\ Start(h, "create", "provider", p)
    /\ UNCHANGED <<order, wallet, reservation, settlement, provider, event,
                   rowOrder, rowPayment, faults>>

\* Mutated form of InitialiseCharge: the order takes the status of the charge.
InitialiseChargeProviderStatus(h) ==
    /\ At(h, "provider")
    /\ provider' = [provider EXCEPT ![job[h].pay] = "pending"]
    /\ Becomes(h, [job[h] EXCEPT !.step = "update", !.goal = "PENDING",
                                 !.next = "PENDING"])
    /\ UNCHANGED <<rows, rowOrder, rowPayment, faults>>

\* The provider initialises the charge, outside any transaction.
InitialiseCharge(h) ==
    /\ At(h, "provider")
    /\ provider' = [provider EXCEPT ![job[h].pay] = "pending"]
    /\ Becomes(h, [job[h] EXCEPT !.step = "update", !.goal = "PENDING",
                                 !.next = "AWAITING_PAYMENT"])
    /\ UNCHANGED <<rows, rowOrder, rowPayment, faults>>

\* The provider refuses: the payment is failed whatever it is by now.
ProviderRefuses(h) ==
    /\ At(h, "provider")
    /\ rowPayment[job[h].pay] = Nobody
    /\ payment' = [payment EXCEPT ![job[h].pay] = "FAILED"]
    /\ Becomes(h, Idle)
    /\ UNCHANGED <<order, wallet, reservation, settlement, provider, event,
                   rowOrder, rowPayment, faults>>

-----------------------------------------------------------------------------
(* PaymentService.verifyPayment and WebhookService.processWebhook.         *)

\* verifyPayment reads the payment, asks the provider, with whatever amount the
\* request's body gives, and validates the transition.
verifyPayment(h, p) ==
    /\ h \in Requests
    /\ provider[p] # "none"
    /\ job[h] = Idle
    /\ \E result \in ReportedToCaller(p) :
         /\ canTransition(payment[p], result)
         /\ Becomes(h, [kind |-> "verify", step |-> "update", pay |-> p,
                        seen |-> payment[p], goal |-> result, next |-> "NONE"])
    /\ UNCHANGED <<rows, provider, rowOrder, rowPayment, faults>>

\* processWebhook claims the event; a delivery that finds it claimed changes
\* nothing.
processWebhook(h, p) ==
    /\ h \in Requests
    /\ provider[p] \in Outcomes
    /\ event[p] = "none"
    /\ event' = [event EXCEPT ![p] = "claimed"]
    /\ Start(h, "webhook", "lookup", p)
    /\ UNCHANGED <<order, wallet, reservation, settlement, payment, provider,
                   rowOrder, rowPayment, faults>>

\* Mutated form of LookUpPayment: the event is marked before the payment.
LookUpPaymentMarksFirst(h) ==
    /\ At(h, "lookup")
    /\ GoMark(h)
    /\ UNCHANGED <<rows, provider, rowOrder, rowPayment, faults>>

LookUpPayment(h) ==
    LET p == job[h].pay IN
    /\ At(h, "lookup")
    /\ IF canTransition(payment[p], Reported(p))
       THEN Becomes(h, [job[h] EXCEPT !.step = "update", !.seen = payment[p],
                                      !.goal = Reported(p)])
       ELSE GoMark(h)
    /\ UNCHANGED <<rows, provider, rowOrder, rowPayment, faults>>

\* Mutated form of UpdatePayment: the update does not ask for the status read.
UpdatePaymentAnyStatus(h) ==
    LET j == job[h] p == j.pay IN
    /\ At(h, "update")
    /\ rowPayment[p] = Nobody
    /\ payment' = [payment EXCEPT ![p] = j.goal]
    /\ Go(h, IF j.kind = "create" THEN "writeOrder" ELSE "reservation")
    /\ UNCHANGED <<order, wallet, reservation, settlement, event, provider,
                   rowOrder, rowPayment, faults>>

\* The update of the payment, once its row is free: by id in createPayment,
\* otherwise only while the status is still the one that was read.
UpdatePayment(h) ==
    LET j == job[h] p == j.pay IN
    /\ At(h, "update")
    /\ rowPayment[p] = Nobody
    /\ \/ /\ j.kind = "create"
          /\ rowPayment' = [rowPayment EXCEPT ![p] = h]
          /\ Go(h, "writeOrder") /\ UNCHANGED payment
       \/ /\ j.kind = "webhook" /\ payment[p] = j.seen
          /\ rowPayment' = [rowPayment EXCEPT ![p] = h]
          /\ Go(h, "reservation") /\ UNCHANGED payment
       \/ /\ j.kind = "webhook" /\ payment[p] # j.seen
          /\ GoMark(h) /\ UNCHANGED <<payment, rowPayment>>
       \/ /\ j.kind = "verify" /\ payment[p] = j.seen
          /\ payment' = [payment EXCEPT ![p] = j.goal]
          /\ Becomes(h, IF j.goal = "PENDING" THEN Idle
                        ELSE [Idle EXCEPT !.kind = "verify", !.step = "reservation",
                                          !.goal = j.goal])
          /\ UNCHANGED rowPayment
       \/ /\ j.kind = "verify" /\ payment[p] # j.seen
          /\ Becomes(h, Idle) /\ UNCHANGED <<payment, rowPayment>>
    /\ UNCHANGED <<order, wallet, reservation, settlement, event, provider,
                   rowOrder, faults>>

\* confirmReservation, expireReservation or releaseReservation, committed at
\* once.
UpdateReservation(h) ==
    /\ At(h, "reservation")
    /\ reservation' = CASE job[h].kind = "cleanup" -> Release(reservation, "EXPIRED_RELEASED")
                        [] job[h].goal = "SUCCEEDED" -> Confirm(reservation)
                        [] OTHER -> Release(reservation, "CANCELLED_RELEASED")
    /\ Go(h, "readOrder")
    /\ UNCHANGED <<order, wallet, settlement, payment, event, provider,
                   rowOrder, rowPayment, faults>>

\* The order status that the outcome of a payment leads to, "NONE" to leave it.
AfterOutcome(outcome) ==
    CASE outcome = "SUCCEEDED" /\ order \notin {"COMPLETED", "SETTLEMENT_PENDING"} ->
            IF wallet THEN "SETTLEMENT_PENDING" ELSE "PAYMENT_CONFIRMED"
      [] outcome = "FAILED" /\ order # "COMPLETED" -> "FAILED"
      [] OTHER -> "NONE"

AfterExpiry == IF order \in {"CREATED", "AWAITING_PAYMENT"} THEN "EXPIRED" ELSE "NONE"

ReadOrder(h) ==
    /\ At(h, "readOrder")
    /\ LET next == IF job[h].kind = "cleanup" THEN AfterExpiry ELSE AfterOutcome(job[h].goal)
       IN  Becomes(h, IF job[h].kind # "webhook" /\ next = "NONE" THEN Idle
                      ELSE [job[h] EXCEPT !.step = "writeOrder", !.next = next])
    /\ UNCHANGED <<rows, provider, rowOrder, rowPayment, faults>>

\* The order is written by id, whatever it has become, and the transaction
\* commits.
WriteOrder(h) ==
    LET j == job[h] IN
    /\ At(h, "writeOrder")
    /\ j.next # "NONE" => rowOrder = Nobody
    /\ order' = IF j.next = "NONE" THEN order ELSE j.next
    /\ wallet' = (wallet \/ j.kind = "wallet")
    /\ payment' = IF j.kind \in Transactional THEN [payment EXCEPT ![j.pay] = j.goal]
                                              ELSE payment
    /\ Unlock(h)
    /\ IF j.kind = "webhook" THEN GoMark(h) ELSE Becomes(h, Idle)
    /\ UNCHANGED <<reservation, settlement, event, provider, faults>>

MarkProcessed(h) ==
    /\ At(h, "processed")
    /\ event' = [event EXCEPT ![job[h].pay] = "processed"]
    /\ Becomes(h, Idle)
    /\ UNCHANGED <<order, wallet, reservation, settlement, payment, provider,
                   rowOrder, rowPayment, faults>>

-----------------------------------------------------------------------------
(* OrderService.updateOrderWallet: the new status is computed from the     *)
(* order and the payments as read, and written with the wallet.            *)

\* Mutated form of updateOrderWallet: any payment counts as paid.
updateOrderWalletAnyPayment(h) ==
    LET paid == \E p \in Payments : payment[p] # "NONE" IN
    /\ h \in Requests
    /\ job[h] = Idle
    /\ Becomes(h, [Idle EXCEPT
            !.kind = "wallet", !.step = "writeOrder",
            !.next = IF order # "COMPLETED" /\ paid THEN "SETTLEMENT_PENDING" ELSE order])
    /\ UNCHANGED <<rows, provider, rowOrder, rowPayment, faults>>

updateOrderWallet(h) ==
    LET paid == order = "PAYMENT_CONFIRMED" \/ \E p \in Payments : payment[p] = "SUCCEEDED" IN
    /\ h \in Requests
    /\ job[h] = Idle
    /\ Becomes(h, [Idle EXCEPT
            !.kind = "wallet", !.step = "writeOrder",
            !.next = IF order # "COMPLETED" /\ paid THEN "SETTLEMENT_PENDING" ELSE order])
    /\ UNCHANGED <<rows, provider, rowOrder, rowPayment, faults>>

-----------------------------------------------------------------------------
(* ReservationCleanupWorker.                                               *)

\* The sweep selects the reservation, which may be past its expiresAt at any
\* moment, and reads it again.
processSingleReservation ==
    /\ MayExpire
    /\ reservation = "RESERVED"
    /\ Start(Worker, "cleanup", "reservation", NoPayment)
    /\ UNCHANGED <<rows, provider, rowOrder, rowPayment, faults>>

-----------------------------------------------------------------------------
(* ReconciliationDaemon.processPaymentReconciliation.                      *)

processPaymentReconciliation ==
    /\ \E p \in Payments : payment[p] = "PENDING"
    /\ Start(Worker, "reconcile", "lockOrder", NoPayment)
    /\ UNCHANGED <<rows, provider, rowOrder, rowPayment, faults>>

Reconcilable ==
    /\ order \in {"CREATED", "AWAITING_PAYMENT"}
    /\ reservation \notin {"EXPIRED_RELEASED", "CANCELLED_RELEASED"}

\* reconcileSinglePaymentOrder: the order is locked and read, together with
\* one of its payments, whichever the database finds first.
LockOrder(h) ==
    /\ At(h, "lockOrder")
    /\ rowOrder = Nobody
    /\ IF Reconcilable
       THEN /\ rowOrder' = h
            /\ \E p \in Payments :
                 /\ payment[p] # "NONE"
                 /\ Becomes(h, [job[h] EXCEPT !.step = "query", !.pay = p])
       ELSE Becomes(h, Idle) /\ UNCHANGED rowOrder
    /\ UNCHANGED <<rows, provider, rowPayment, faults>>

\* The provider is asked inside the transaction, with the expected amount.
\* Anything but an outcome ends the transaction.
QueryProvider(h) ==
    /\ At(h, "query")
    /\ \E result \in ReportedForAmount(job[h].pay) :
         \/ /\ result # "PENDING"
            /\ Becomes(h, [job[h] EXCEPT !.step = "record", !.goal = result])
            /\ UNCHANGED rowOrder
         \/ /\ result = "PENDING"
            /\ rowOrder' = Nobody
            /\ Becomes(h, Idle)
    /\ UNCHANGED <<rows, provider, rowPayment, faults>>

\* Mutated form of RecordOutcome: the payment row is forgotten.
RecordOutcomeOrderOnly(h) ==
    LET succeeded == job[h].goal = "SUCCEEDED" IN
    /\ At(h, "record")
    /\ order' = IF succeeded THEN "PAYMENT_CONFIRMED" ELSE "FAILED"
    /\ reservation' = IF succeeded THEN Confirm(reservation)
                      ELSE Release(reservation, "CANCELLED_RELEASED")
    /\ settlement' = IF succeeded /\ settlement = "NONE" THEN "PENDING" ELSE settlement
    /\ Unlock(h)
    /\ Becomes(h, Idle)
    /\ UNCHANGED <<wallet, payment, event, provider, faults>>

\* Order, payment, reservation and a new settlement are written and committed
\* together.
RecordOutcome(h) ==
    LET p == job[h].pay succeeded == job[h].goal = "SUCCEEDED" IN
    /\ At(h, "record")
    /\ rowPayment[p] = Nobody
    /\ payment' = [payment EXCEPT ![p] = job[h].goal]
    /\ order' = IF succeeded THEN "PAYMENT_CONFIRMED" ELSE "FAILED"
    /\ reservation' = IF succeeded THEN Confirm(reservation)
                      ELSE Release(reservation, "CANCELLED_RELEASED")
    /\ settlement' = IF succeeded /\ settlement = "NONE" THEN "PENDING" ELSE settlement
    /\ Unlock(h)
    /\ Becomes(h, Idle)
    /\ UNCHANGED <<wallet, event, provider, faults>>

-----------------------------------------------------------------------------
(* Failures.                                                               *)

\* Rollback of a job: what it has committed stays.
Abort(h) ==
    /\ Unlock(h)
    /\ Becomes(h, Idle)
    /\ UNCHANGED <<rows, provider>>

\* A crash, a lost connection, a transaction timeout.
Fault(h) ==
    /\ job[h].kind \in MayFail
    /\ faults < MaxFaults
    /\ faults' = faults + 1
    /\ Abort(h)

\* The reconciliation holds the order and waits for the payment; h holds the
\* payment and waits for the order.
Deadlocked(h) ==
    /\ At(h, "writeOrder") /\ job[h].next # "NONE" /\ rowOrder = Worker
    /\ At(Worker, "record") /\ rowPayment[job[Worker].pay] = h

\* PostgreSQL aborts one of the two.
BreakDeadlock(h) ==
    /\ Deadlocked(h)
    /\ \E victim \in {h, Worker} : Abort(victim)
    /\ UNCHANGED faults

-----------------------------------------------------------------------------
(* The environment.                                                        *)

\* The customer pays or gives up, also when a verification has failed the
\* payment.  The instructions reach the customer in the response of
\* createPayment.
Charge(p) ==
    /\ provider[p] = "pending" /\ payment[p] # "CREATED"
    /\ \A h \in Requests : job[h].kind = "create" => job[h].pay # p
    /\ \E o \in Outcomes : provider' = [provider EXCEPT ![p] = o]
    /\ UNCHANGED <<rows, rowOrder, rowPayment, job, faults>>

\* The settlement side takes the order up (module Settlement has the details).
SubmitSettlement ==
    /\ order = "SETTLEMENT_PENDING" /\ wallet
    /\ settlement \in {"NONE", "PENDING"}
    /\ reservation = "CONFIRMED"
    /\ \E p \in Payments : payment[p] = "SUCCEEDED"
    /\ settlement' = "SUBMITTED"
    /\ UNCHANGED <<order, wallet, reservation, payment, event, provider,
                   rowOrder, rowPayment, job, faults>>

\* The payout ends: markCompleted, the failure path of the daemon, or a
\* failure that the settlement worker meets, which leaves the order alone.
EndSettlement ==
    /\ settlement = "SUBMITTED"
    /\ \/ /\ rowOrder = Nobody
          /\ settlement' = "COMPLETED" /\ order' = "COMPLETED"
          /\ reservation' = Release(reservation, "CONSUMED")
       \/ /\ rowOrder = Nobody
          /\ settlement' = "FAILED" /\ order' = "FAILED"
          /\ reservation' = Release(reservation, "CANCELLED_RELEASED")
       \/ settlement' = "FAILED" /\ UNCHANGED <<order, reservation>>
    /\ UNCHANGED <<wallet, payment, event, provider, rowOrder, rowPayment,
                   job, faults>>

-----------------------------------------------------------------------------

Request(h) ==
    \/ \E p \in Payments : createPayment(h, p)
    \/ \E p \in Payments : verifyPayment(h, p)
    \/ \E p \in Payments : processWebhook(h, p)
    \/ updateOrderWallet(h)

Continue(h) ==
    \/ InitialiseCharge(h) \/ ProviderRefuses(h)
    \/ LookUpPayment(h) \/ UpdatePayment(h) \/ UpdateReservation(h)
    \/ ReadOrder(h) \/ WriteOrder(h) \/ MarkProcessed(h)
    \/ LockOrder(h) \/ QueryProvider(h) \/ RecordOutcome(h)

Sweep == processSingleReservation \/ processPaymentReconciliation

Next ==
    \/ \E h \in Requests : Request(h)
    \/ Sweep
    \/ \E h \in Handlers : Continue(h) \/ Fault(h)
    \/ \E h \in Requests : BreakDeadlock(h)
    \/ \E p \in Payments : Charge(p)
    \/ SubmitSettlement \/ EndSettlement

Spec == Init /\ [][Next]_vars

\* What has begun goes on, and gets a row it waits for although others take
\* the row too (PostgreSQL queues them: hence SF); the worker sweeps for ever;
\* PostgreSQL finds deadlocks.  Customers owe nothing, and no webhook need
\* ever arrive.
Fairness ==
    /\ \A h \in Handlers : SF_vars(Continue(h))
    /\ WF_vars(Sweep)
    /\ \A h \in Requests : WF_vars(BreakDeadlock(h))

FairSpec == Spec /\ Fairness

-----------------------------------------------------------------------------
(* Properties.                                                             *)

Captured(p) == provider[p] \in {"success", "short"}

\* Nothing counts as paid unless the provider holds the customer's money: an
\* order past payment, a SUCCEEDED payment, a confirmed or consumed
\* reservation, a settlement.
PaidIsCaptured ==
    /\ order \in {"PAYMENT_CONFIRMED", "SETTLEMENT_PENDING", "COMPLETED"}
          => \E p \in Payments : Captured(p)
    /\ reservation \in {"CONFIRMED", "CONSUMED"} => \E p \in Payments : Captured(p)
    /\ settlement # "NONE" => \E p \in Payments : Captured(p)
    /\ \A p \in Payments : payment[p] = "SUCCEEDED" => Captured(p)

\* A webhook event is marked processed only when the outcome of its charge is
\* on the payment, whoever put it there (webhooks.service.ts:174).
ProcessedIsRecorded ==
    \A p \in Payments : event[p] = "processed" => payment[p] \in {"SUCCEEDED", "FAILED"}

\* A recorded success is not taken back by a stale verification, a late webhook
\* or a second createPayment (payments.service.ts:223, webhooks.service.ts:106);
\* only the reconciliation, which writes the payment by id
\* (reconciliation.daemon.ts:531), does so, when it was told of a failure.
SuccessIsKept ==
    [][\A p \in Payments :
            payment[p] = "SUCCEEDED" /\ payment'[p] # "SUCCEEDED" =>
                \E h \in Handlers : /\ job[h].kind = "reconcile" /\ At(h, "record")
                                   /\ job[h].pay = p /\ job[h].goal = "FAILED"]_vars

Released == reservation \in {"EXPIRED_RELEASED", "CANCELLED_RELEASED"}
Only(p) == \A q \in Payments \ {p} : payment[q] = "NONE"

\* A captured charge does not stay PENDING in the books, though its webhook may
\* never arrive or be lost half-way: the worker finds it, unless the reservation
\* was released or the order has another payment, which the worker may take for
\* it (reconciliation.daemon.ts:372, 444).
CaptureIsNoticed ==
    \A p \in Payments :
        provider[p] = "success" ~> payment[p] \in {"SUCCEEDED", "FAILED"} \/ Released \/ ~Only(p)

\* An order whose charge was captured and that has a wallet goes to settlement.
CaptureIsSettled ==
    \A p \in Payments : provider[p] = "success" /\ wallet ~> order = "SETTLEMENT_PENDING"
=============================================================================

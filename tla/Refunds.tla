------------------------------- MODULE Refunds --------------------------------
(***************************************************************************)
(* Refunds of one paid order (refunds.service.ts) against its settlement:  *)
(* refund requests and the worker process act on the same order, payment,  *)
(* reservation and settlement.                                             *)
(*                                                                         *)
(* createRefund is one transaction that holds the row lock of the order    *)
(* from its first statement to its commit.  executeRefund commits each     *)
(* statement.  The settlement side locks no order row before it pays.  Its *)
(* updates of the order wait for the lock like any other, and so does the  *)
(* insert of its row, whose foreign key (settlements_order_id_fkey) needs  *)
(* a share of the order row.                                               *)
(*                                                                         *)
(* A request has an idempotency key of its own, a repeated one changes     *)
(* nothing.  Its refund is executed by the request that created it and by  *)
(* nobody else, so the Redis lock of executeRefund is left out.  What can  *)
(* go wrong within the settlement side is the subject of Settlement.       *)
(***************************************************************************)
EXTENDS Integers, FiniteSets, Functions

CONSTANTS
    Refunds,        \* refund requests
    Admins,         \* those of an administrator
    Captured,       \* amount of the payment
    Nobody,         \* the order row is not locked
    MaxFaults       \* bound: crashes

ASSUME RequestAssumption ==
    IsFiniteSet(Refunds) /\ Admins \subseteq Refunds /\ Nobody \notin Refunds
ASSUME AmountAssumption == Captured \in Nat \ {0}
ASSUME FaultAssumption == MaxFaults \in Nat

VARIABLES
    order,        \* Order.status
    payment,      \* Payment.status
    reservation,  \* LiquidityReservation.status
    settlement,   \* Settlement.status, "NONE" before the row exists
    refund,       \* Refund.status of each request, "NONE" before the row exists
    amount,       \* Refund.amount
    rowOrder,     \* request that holds the row lock of the order
    returned,     \* what the provider has returned to the customer
    paid,         \* the payout happened on chain
    pc,           \* next step of each request
    seen,         \* order status that the request has read
    left,         \* what it found left to refund
    answer,       \* status that the provider answered with
    worker,       \* next step of the worker process
    faults        \* crashes so far

rows == <<order, payment, reservation, settlement, refund, amount>>
outside == <<returned, paid>>
requests == <<pc, seen, left, answer>>
vars == <<rows, rowOrder, outside, requests, worker, faults>>

OrderStatus == {"PAYMENT_CONFIRMED", "SETTLEMENT_PENDING", "COMPLETED", "FAILED",
                "REFUND_PENDING", "REFUNDED", "REFUND_FAILED"}
SettlementStatus == {"PENDING", "SUBMITTING", "SUBMITTED", "REQUIRES_RECONCILIATION",
                     "COMPLETED", "FAILED"}
RefundStatus == {"PENDING", "PROCESSING", "SUCCEEDED", "FAILED"}

TypeOK ==
    /\ order \in OrderStatus
    /\ payment \in {"SUCCEEDED", "REFUNDED"}
    /\ reservation \in {"CONFIRMED", "CONSUMED", "CANCELLED_RELEASED"}
    /\ settlement \in SettlementStatus \union {"NONE"}
    /\ refund \in [Refunds -> RefundStatus \union {"NONE"}]
    /\ amount \in [Refunds -> 0..Captured]
    /\ rowOrder \in Refunds \union {Nobody}
    /\ returned \in [Refunds -> 0..Captured]
    /\ paid \in BOOLEAN
    /\ pc \in [Refunds -> {"start", "locked", "execute", "provider", "record",
                           "release", "done"}]
    /\ seen \in [Refunds -> OrderStatus \union {"NONE"}]
    /\ left \in [Refunds -> 0..Captured]
    /\ answer \in [Refunds -> RefundStatus \union {"NONE"}]
    /\ worker \in {"idle", "create", "insert", "submit", "order", "refunds",
                   "broadcast", "consume", "release", "failOrder"}
    /\ faults \in 0..MaxFaults

\* The order is paid: a webhook or a verification leaves it waiting for its
\* settlement or, without a wallet, PAYMENT_CONFIRMED.
Init ==
    /\ order \in {"PAYMENT_CONFIRMED", "SETTLEMENT_PENDING"}
    /\ payment = "SUCCEEDED"
    /\ reservation = "CONFIRMED"
    /\ settlement = "NONE"
    /\ refund = [r \in Refunds |-> "NONE"]
    /\ amount = [r \in Refunds |-> 0]
    /\ rowOrder = Nobody
    /\ returned = [r \in Refunds |-> 0]
    /\ paid = FALSE
    /\ pc = [r \in Refunds |-> "start"]
    /\ seen = [r \in Refunds |-> "NONE"]
    /\ left = [r \in Refunds |-> 0]
    /\ answer = [r \in Refunds |-> "NONE"]
    /\ worker = "idle"
    /\ faults = 0

-----------------------------------------------------------------------------
\* OrderStateMachine.allowedTransitions between the statuses that occur.
allowedTransitions ==
    [s \in OrderStatus |->
        CASE s = "PAYMENT_CONFIRMED" ->
                 {"SETTLEMENT_PENDING", "FAILED", "REFUND_PENDING", "REFUNDED"}
          [] s = "SETTLEMENT_PENDING" ->
                 {"COMPLETED", "FAILED", "REFUND_PENDING", "REFUNDED"}
          [] s = "REFUND_PENDING" -> {"REFUNDED", "REFUND_FAILED"}
          [] s \in {"FAILED", "REFUND_FAILED"} -> {"REFUND_PENDING", "REFUNDED"}
          [] OTHER -> {}]

canTransition(from, to) == from = to \/ to \in allowedTransitions[from]

At(r, step) == pc[r] = step
Go(r, step) == pc' = [pc EXCEPT ![r] = step]
SetRefund(r, s) == refund' = [refund EXCEPT ![r] = s]

\* Mutated form of Active: only refunds that are made count.
ActiveSucceeded == {r \in Refunds : refund[r] = "SUCCEEDED"}

\* Refunds that are made or may still be.
Active == {r \in Refunds : refund[r] \in {"PENDING", "PROCESSING", "SUCCEEDED"}}
Claimed == SumFunctionOnSet(amount, Active)
\* Mutated form of Remaining: off by one.
RemainingInclusive == Captured - Claimed + 1

Remaining == Captured - Claimed

\* createRefund and the settlement that forbids it.
NoPayoutUnderway == settlement \in {"NONE", "PENDING", "FAILED"}

-----------------------------------------------------------------------------
(* RefundService.createRefund.                                             *)

\* Mutated form of BeginRefund: the order is read without FOR UPDATE.
BeginRefundUnlocked(r) ==
    /\ At(r, "start")
    /\ r \in Admins \/ order \in {"FAILED", "REFUND_FAILED", "REFUND_PENDING"}
    /\ order # "COMPLETED"
    /\ NoPayoutUnderway
    /\ Remaining > 0
    /\ seen' = [seen EXCEPT ![r] = order]
    /\ left' = [left EXCEPT ![r] = Remaining]
    /\ Go(r, "locked")
    /\ UNCHANGED <<rows, rowOrder, outside, answer, worker, faults>>

\* The order row is locked, then order, settlement and refunds are read.  A
\* request that is turned away has changed nothing.
BeginRefund(r) ==
    /\ At(r, "start")
    /\ rowOrder = Nobody
    /\ r \in Admins \/ order \in {"FAILED", "REFUND_FAILED", "REFUND_PENDING"}
    /\ order # "COMPLETED"
    /\ NoPayoutUnderway
    /\ Remaining > 0
    /\ rowOrder' = r
    /\ seen' = [seen EXCEPT ![r] = order]
    /\ left' = [left EXCEPT ![r] = Remaining]
    /\ Go(r, "locked")
    /\ UNCHANGED <<rows, outside, answer, worker, faults>>

\* The refund is created for all that is left or a part of it, or the order
\* may not become REFUND_PENDING and everything is rolled back.
CommitRefund(r) ==
    /\ At(r, "locked")
    /\ rowOrder' = Nobody
    /\ \/ /\ canTransition(seen[r], "REFUND_PENDING")
          /\ \E a \in 1..left[r] : amount' = [amount EXCEPT ![r] = a]
          /\ SetRefund(r, "PENDING")
          /\ order' = "REFUND_PENDING"
          /\ Go(r, "execute")
       \/ /\ ~canTransition(seen[r], "REFUND_PENDING")
          /\ Go(r, "start")
          /\ UNCHANGED <<amount, refund, order>>
    /\ UNCHANGED <<payment, reservation, settlement, outside, seen, left, answer,
                   worker, faults>>

createRefund(r) == BeginRefund(r) \/ CommitRefund(r)

-----------------------------------------------------------------------------
(* RefundService.executeRefund.                                            *)

\* The conditional update PENDING -> PROCESSING.
StartProcessing(r) ==
    /\ At(r, "execute")
    /\ refund[r] = "PENDING"
    /\ SetRefund(r, "PROCESSING")
    /\ Go(r, "provider")
    /\ UNCHANGED <<order, payment, reservation, settlement, amount, rowOrder, outside,
                   seen, left, answer, worker, faults>>

\* What the provider's adapter makes of the answer.  A pending refund and a
\* network error are PROCESSING, whether the money is returned or not.  An HTTP
\* error and an unreadable body are FAILED, also for a refund that was made.
Answers(made) == {"PROCESSING", "FAILED"} \union (IF made THEN {"SUCCEEDED"} ELSE {})

\* The refund is read again together with its order, then the provider is asked.
processRefund(r) ==
    /\ At(r, "provider")
    /\ seen' = [seen EXCEPT ![r] = order]
    /\ \E made \in BOOLEAN :
         /\ returned' = [returned EXCEPT ![r] = IF made THEN amount[r] ELSE 0]
         /\ \E a \in Answers(made) : answer' = [answer EXCEPT ![r] = a]
    /\ Go(r, "record")
    /\ UNCHANGED <<rows, rowOrder, paid, left, worker, faults>>

\* One transaction for refund, payment and order.  The order's transition is
\* judged by the status read before the provider was asked.
RecordSuccess(r) ==
    /\ At(r, "record") /\ answer[r] = "SUCCEEDED"
    /\ canTransition(seen[r], "REFUNDED")
    /\ rowOrder = Nobody
    /\ SetRefund(r, "SUCCEEDED")
    /\ payment' = "REFUNDED"
    /\ order' = "REFUNDED"
    /\ Go(r, "release")
    /\ UNCHANGED <<reservation, settlement, amount, rowOrder, outside, seen, left,
                   answer, worker, faults>>

RecordFailure(r) ==
    /\ At(r, "record") /\ answer[r] = "FAILED"
    /\ canTransition(seen[r], "REFUND_FAILED")
    /\ rowOrder = Nobody
    /\ SetRefund(r, "FAILED")
    /\ order' = "REFUND_FAILED"
    /\ Go(r, "done")
    /\ UNCHANGED <<payment, reservation, settlement, amount, rowOrder, outside, seen,
                   left, answer, worker, faults>>

\* An ambiguous answer keeps the refund PROCESSING; so does the rollback after
\* a transition that is not allowed.
KeepProcessing(r) ==
    /\ At(r, "record")
    /\ \/ answer[r] = "PROCESSING"
       \/ answer[r] = "SUCCEEDED" /\ ~canTransition(seen[r], "REFUNDED")
       \/ answer[r] = "FAILED" /\ ~canTransition(seen[r], "REFUND_FAILED")
    /\ Go(r, "done")
    /\ UNCHANGED <<rows, rowOrder, outside, seen, left, answer, worker, faults>>

\* releaseReservation, a transaction of its own.
Release == reservation' = IF reservation = "CONFIRMED" THEN "CANCELLED_RELEASED"
                                                       ELSE reservation

ReleaseRefunded(r) ==
    /\ At(r, "release")
    /\ Release
    /\ Go(r, "done")
    /\ UNCHANGED <<order, payment, settlement, refund, amount, rowOrder, outside, seen,
                   left, answer, worker, faults>>

executeRefund(r) ==
    \/ StartProcessing(r) \/ processRefund(r) \/ RecordSuccess(r)
    \/ RecordFailure(r) \/ KeepProcessing(r) \/ ReleaseRefunded(r)

\* What the controllers do: the refund is created and, if it is new, executed.
RefundRequest(r) == createRefund(r) \/ executeRefund(r)

-----------------------------------------------------------------------------
(* The worker process: settlement sweep and reconciliation daemon.         *)

WorkerAt(step) == worker = step
WorkerGo(step) == worker' = step /\ UNCHANGED <<rowOrder, requests, faults>>
Unpaid == UNCHANGED <<returned, paid>>
OtherRows == UNCHANGED <<payment, refund, amount>>

SelectOrder ==
    /\ WorkerAt("idle")
    /\ order = "SETTLEMENT_PENDING" /\ settlement \in {"NONE", "PENDING"}
    /\ WorkerGo("create")
    /\ UNCHANGED <<rows, outside>>

\* An existing settlement is taken as it is; otherwise order and refunds are
\* checked, and the row is inserted afterwards, when no request holds the order.
createSettlementForOrder ==
    /\ \/ WorkerAt("create") /\ settlement # "NONE"
          /\ WorkerGo("submit") /\ UNCHANGED settlement
       \/ WorkerAt("create") /\ settlement = "NONE"
          /\ WorkerGo(IF order = "SETTLEMENT_PENDING" /\ Active = {} THEN "insert" ELSE "idle")
          /\ UNCHANGED settlement
       \/ WorkerAt("insert") /\ rowOrder = Nobody
          /\ settlement' = "PENDING" /\ WorkerGo("submit")
    /\ Unpaid /\ OtherRows /\ UNCHANGED <<order, reservation>>

markSubmitting ==
    /\ WorkerAt("submit") /\ settlement = "PENDING"
    /\ settlement' = "SUBMITTING"
    /\ WorkerGo("order")
    /\ Unpaid /\ OtherRows /\ UNCHANGED <<order, reservation>>

\* Mutated form of validateAndApprove: the order's status is not checked again.
validateAndApproveAnyOrder ==
    /\ \/ WorkerAt("order") /\ payment = "SUCCEEDED"
          /\ reservation = "CONFIRMED" /\ WorkerGo("refunds")
       \/ WorkerAt("refunds") /\ Active = {} /\ WorkerGo("broadcast")
    /\ UNCHANGED <<rows, outside>>

\* The policy engine reads the order with its payments and its reservation,
\* then its refunds.
validateAndApprove ==
    /\ \/ WorkerAt("order") /\ order = "SETTLEMENT_PENDING" /\ payment = "SUCCEEDED"
          /\ reservation = "CONFIRMED" /\ WorkerGo("refunds")
       \/ WorkerAt("refunds") /\ Active = {} /\ WorkerGo("broadcast")
    /\ UNCHANGED <<rows, outside>>

\* Policy, simulation or network say no.
SubmissionFails ==
    /\ worker \in {"order", "refunds", "broadcast"}
    /\ settlement' \in {"FAILED", "REQUIRES_RECONCILIATION"}
    /\ WorkerGo("idle")
    /\ Unpaid /\ OtherRows /\ UNCHANGED <<order, reservation>>

\* The transaction is sent and succeeds on chain or not.
Broadcast ==
    /\ WorkerAt("broadcast")
    /\ paid' \in BOOLEAN
    /\ settlement' = "SUBMITTED"
    /\ WorkerGo("idle")
    /\ OtherRows /\ UNCHANGED <<order, reservation, returned>>

\* A crash left the settlement without a transaction.
FlagOrphan ==
    /\ WorkerAt("idle") /\ settlement = "SUBMITTING"
    /\ settlement' = "REQUIRES_RECONCILIATION"
    /\ WorkerGo("idle")
    /\ Unpaid /\ OtherRows /\ UNCHANGED <<order, reservation>>

\* Settlement and order in one transaction, the reservation in another.
markCompleted ==
    /\ \/ /\ WorkerAt("idle") /\ settlement = "SUBMITTED" /\ paid /\ rowOrder = Nobody
          /\ settlement' = "COMPLETED" /\ order' = "COMPLETED"
          /\ WorkerGo("consume") /\ UNCHANGED reservation
       \/ /\ WorkerAt("consume")
          /\ reservation' = IF reservation = "CONFIRMED" THEN "CONSUMED" ELSE reservation
          /\ WorkerGo("idle") /\ UNCHANGED <<order, settlement>>
    /\ Unpaid /\ OtherRows

\* The daemon gives the payout up: settlement, reservation and order in turn.
FailSettlement ==
    /\ \/ /\ WorkerAt("idle") /\ ~paid
          /\ settlement \in {"SUBMITTED", "REQUIRES_RECONCILIATION"}
          /\ settlement' = "FAILED" /\ WorkerGo("release") /\ UNCHANGED <<order, reservation>>
       \/ /\ WorkerAt("release") /\ Release
          /\ WorkerGo("failOrder") /\ UNCHANGED <<order, settlement>>
       \/ /\ WorkerAt("failOrder") /\ rowOrder = Nobody
          /\ order' = "FAILED" /\ WorkerGo("idle") /\ UNCHANGED <<settlement, reservation>>
    /\ Unpaid /\ OtherRows

Settle ==
    \/ SelectOrder \/ createSettlementForOrder \/ markSubmitting \/ validateAndApprove
    \/ SubmissionFails \/ Broadcast \/ FlagOrphan \/ markCompleted \/ FailSettlement

-----------------------------------------------------------------------------
\* A request dies where it stands, and its transaction is rolled back; or the
\* worker does.
Crash ==
    /\ faults < MaxFaults
    /\ faults' = faults + 1
    /\ \/ /\ \E r \in Refunds :
               /\ pc[r] \notin {"start", "done"}
               /\ Go(r, "done")
               /\ rowOrder' = IF rowOrder = r THEN Nobody ELSE rowOrder
          /\ UNCHANGED worker
       \/ worker # "idle" /\ worker' = "idle" /\ UNCHANGED <<rowOrder, pc>>
    /\ UNCHANGED <<rows, outside, seen, left, answer>>

Next ==
    \/ \E r \in Refunds : RefundRequest(r)
    \/ Settle
    \/ Crash

Spec == Init /\ [][Next]_vars

-----------------------------------------------------------------------------
\* Refunds that the adapter did not report as failed.
NotRefused == {r \in Refunds : answer[r] # "FAILED"}

\* However many requests overlap, fail, stay ambiguous or are repeated after a
\* failure, the customer never gets back more than was captured, apart from what
\* the provider returned and its adapter reported as failed: only a wrong report
\* lets the same money be asked back again.
RefundedAtMostCaptured ==
    SumFunctionOnSet(returned, NotRefused) <= Captured

\* A request between its reads and its commit holds the row lock of the order,
\* and what it has read of the order and of its refunds still holds, whatever
\* other requests and the settlement side do: it decides on current values.
FreshReads ==
    \A r \in Refunds : pc[r] = "locked" =>
        rowOrder = r /\ seen[r] = order /\ left[r] = Remaining

\* A refund that is created while no payout is underway rules the payout out for
\* ever, even if the worker has selected the order, checked its refunds or is
\* about to submit, and even if the refund fails.
RefundExcludesPayout == [](Active # {} /\ NoPayoutUnderway => []~paid)

\* No order gets both its naira back and its USDC.
NeverRefundedAndPaid ==
    ~(paid /\ \E r \in Refunds : returned[r] > 0)
=============================================================================

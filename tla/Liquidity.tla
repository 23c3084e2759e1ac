------------------------------ MODULE Liquidity ------------------------------
(***************************************************************************)
(* The liquidity pool and its reservations:                                *)
(* src/src/modules/liquidity/liquidity.service.ts.                         *)
(*                                                                         *)
(* Every operation is one PostgreSQL transaction at READ COMMITTED.  It is *)
(* split where another transaction can get in between: the reservation row *)
(* is read first and without a lock, then the pool row is locked with      *)
(* SELECT ... FOR UPDATE and read, then both rows are written and the      *)
(* transaction commits, which frees the lock.  confirmReservation takes no *)
(* pool lock at all.  A transaction may abort at any of its steps (an      *)
(* insufficient balance, a lost connection, a crash).                      *)
(*                                                                         *)
(* Amounts are natural numbers (stroops).  Operations that return early on *)
(* the reservation they read change nothing and appear only as guards.     *)
(***************************************************************************)
EXTENDS Integers, FiniteSets, Functions

CONSTANTS
    Orders,        \* the orders that may hold a reservation
    Tx,            \* database connections, each runs one transaction at a time
    NoTx,          \* the pool row is not locked
    NoOrder,       \* the job does not concern an order
    Amount,        \* Order.destinationAmount of each order
    InitialTotal,  \* totalBalance the pool row is created with
    AdjustAmounts, \* amounts an administrator may add to or take from the pool
    MaxTotal       \* bound: adjustments never push totalBalance above this

ASSUME OrdersAssumption == IsFiniteSet(Orders)
ASSUME AmountAssumption == Amount \in [Orders -> Nat \ {0}]
ASSUME TotalAssumption == InitialTotal \in Nat /\ MaxTotal \in Nat
ASSUME AdjustAssumption == AdjustAmounts \subseteq Nat \ {0}
ASSUME NullAssumption == NoTx \notin Tx /\ NoOrder \notin Orders

VARIABLES
    pool,         \* row of liquidity_pools: total, reserved and available
    reservation,  \* status of each order's row, "NONE" before it is created
    payouts,      \* SETTLEMENT_PAYOUT rows consumeReservation wrote per order
    adjusted,     \* net amount of the rows recordTreasuryTransaction wrote
    lock,         \* transaction that holds the row lock of the pool
    pc,           \* step each transaction is at
    job,          \* what each transaction is doing, and for which order
    view          \* the pool row as each transaction read it under the lock

vars == <<pool, reservation, payouts, adjusted, lock, pc, job, view>>

Active == {"RESERVED", "CONFIRMED"}
Released == {"EXPIRED_RELEASED", "CANCELLED_RELEASED"}
Status == {"NONE", "CONSUMED"} \union Active \union Released

PoolRow == [total : Nat, reserved : Nat, available : Nat]
Jobs == [op : {"idle", "reserve", "confirm", "consume", "release", "expire",
               "credit", "debit"},
         order : Orders \union {NoOrder},
         amount : Nat]

Idle == [op |-> "idle", order |-> NoOrder, amount |-> 0]
NoRow == [total |-> 0, reserved |-> 0, available |-> 0]
JobOf(op, o) == [op |-> op, order |-> o, amount |-> Amount[o]]

TypeOK ==
    /\ pool \in PoolRow
    /\ reservation \in [Orders -> Status]
    /\ payouts \in [Orders -> Nat]
    /\ adjusted \in Int
    /\ lock \in Tx \union {NoTx}
    /\ pc \in [Tx -> {"idle", "wait", "locked", "write"}]
    /\ job \in [Tx -> Jobs]
    /\ view \in [Tx -> PoolRow]

\* getPool creates the row on first use, with nothing reserved.
Init ==
    /\ pool = [total |-> InitialTotal, reserved |-> 0, available |-> InitialTotal]
    /\ reservation = [o \in Orders |-> "NONE"]
    /\ payouts = [o \in Orders |-> 0]
    /\ adjusted = 0
    /\ lock = NoTx
    /\ pc = [t \in Tx |-> "idle"]
    /\ job = [t \in Tx |-> Idle]
    /\ view = [t \in Tx |-> NoRow]

-----------------------------------------------------------------------------
(* Steps of a transaction that the operations share.                       *)

\* A transaction starts on job j, and its next step is the one named by step.
Begin(t, j, step) ==
    /\ pc[t] = "idle"
    /\ pc' = [pc EXCEPT ![t] = step]
    /\ job' = [job EXCEPT ![t] = j]
    /\ UNCHANGED <<pool, reservation, payouts, adjusted, lock, view>>

\* Mutated form of Finish: the row lock outlives its transaction.
FinishKeepsLock(t) ==
    /\ pc' = [pc EXCEPT ![t] = "idle"]
    /\ job' = [job EXCEPT ![t] = Idle]
    /\ view' = [view EXCEPT ![t] = NoRow]
    /\ UNCHANGED lock

\* The transaction ends: its locks are freed and nothing of it is left.
Finish(t) ==
    /\ pc' = [pc EXCEPT ![t] = "idle"]
    /\ job' = [job EXCEPT ![t] = Idle]
    /\ lock' = IF lock = t THEN NoTx ELSE lock
    /\ view' = [view EXCEPT ![t] = NoRow]

\* Mutated form of LockPool: SELECT without FOR UPDATE.
LockPoolNoForUpdate(t) ==
    /\ pc[t] = "wait"
    /\ view' = [view EXCEPT ![t] = pool]
    /\ pc' = [pc EXCEPT ![t] = "locked"]
    /\ UNCHANGED <<pool, reservation, payouts, adjusted, lock, job>>

\* SELECT ... FOR UPDATE on the pool row waits for the holder to end, then
\* the row is read.
LockPool(t) ==
    /\ pc[t] = "wait"
    /\ lock = NoTx
    /\ lock' = t
    /\ view' = [view EXCEPT ![t] = pool]
    /\ pc' = [pc EXCEPT ![t] = "locked"]
    /\ UNCHANGED <<pool, reservation, payouts, adjusted, job>>

\* Rollback: the thrown BadRequestError, a lost connection, a crash.
Abort(t) ==
    /\ pc[t] # "idle"
    /\ Finish(t)
    /\ UNCHANGED <<pool, reservation, payouts, adjusted>>

\* Mutated form of AtLeastZero: the difference is written as it comes.
Unclamped(x) == x

\* Prisma.Decimal clamped at zero.  The difference is negative only when two
\* transactions have spent or returned the same reservation.
AtLeastZero(x) == IF x < 0 THEN 0 ELSE x

-----------------------------------------------------------------------------
(* reserveForOrderInTx: called once for an order, in the transaction that  *)
(* creates the order.                                                      *)

BeginReserve(t, o) ==
    /\ reservation[o] = "NONE"
    /\ \A u \in Tx : job[u].order # o
    /\ Begin(t, JobOf("reserve", o), "wait")

\* Mutated form of CommitReserve: the balance is not checked under the lock.
CommitReserveUnchecked(t) ==
    /\ pc[t] = "locked" /\ job[t].op = "reserve"
    /\ pool' = [total |-> pool.total,
                reserved |-> view[t].reserved + job[t].amount,
                available |-> view[t].total - (view[t].reserved + job[t].amount)]
    /\ reservation' = [reservation EXCEPT ![job[t].order] = "RESERVED"]
    /\ Finish(t)
    /\ UNCHANGED <<payouts, adjusted>>

CommitReserve(t) ==
    LET newReserved == view[t].reserved + job[t].amount IN
    /\ pc[t] = "locked" /\ job[t].op = "reserve"
    /\ view[t].total - view[t].reserved >= job[t].amount
    /\ pool' = [total |-> pool.total, reserved |-> newReserved,
                available |-> view[t].total - newReserved]
    /\ reservation' = [reservation EXCEPT ![job[t].order] = "RESERVED"]
    /\ Finish(t)
    /\ UNCHANGED <<payouts, adjusted>>

-----------------------------------------------------------------------------
(* confirmReservation: reads the reservation and, when it was RESERVED,    *)
(* writes CONFIRMED by id, whatever the status has become.                 *)

BeginConfirm(t, o) ==
    /\ reservation[o] = "RESERVED"
    /\ Begin(t, JobOf("confirm", o), "write")

CommitConfirm(t) ==
    /\ pc[t] = "write"
    /\ reservation' = [reservation EXCEPT ![job[t].order] = "CONFIRMED"]
    /\ Finish(t)
    /\ UNCHANGED <<pool, payouts, adjusted>>

-----------------------------------------------------------------------------
(* consumeReservation: the reservation is read before the pool is locked.  *)

BeginConsume(t, o) ==
    /\ reservation[o] \in Active
    /\ Begin(t, JobOf("consume", o), "wait")

\* Mutated form of CommitConsume: the total is left as it was.
CommitConsumeKeepsTotal(t) ==
    LET safeReserved == AtLeastZero(view[t].reserved - job[t].amount) IN
    /\ pc[t] = "locked" /\ job[t].op = "consume"
    /\ pool' = [total |-> pool.total, reserved |-> safeReserved,
                available |-> view[t].total - safeReserved]
    /\ reservation' = [reservation EXCEPT ![job[t].order] = "CONSUMED"]
    /\ payouts' = [payouts EXCEPT ![job[t].order] = @ + 1]
    /\ Finish(t)
    /\ UNCHANGED adjusted

CommitConsume(t) ==
    LET safeTotal == AtLeastZero(view[t].total - job[t].amount)
        safeReserved == AtLeastZero(view[t].reserved - job[t].amount)
    IN
    /\ pc[t] = "locked" /\ job[t].op = "consume"
    /\ pool' = [total |-> safeTotal, reserved |-> safeReserved,
                available |-> safeTotal - safeReserved]
    /\ reservation' = [reservation EXCEPT ![job[t].order] = "CONSUMED"]
    /\ payouts' = [payouts EXCEPT ![job[t].order] = @ + 1]
    /\ Finish(t)
    /\ UNCHANGED adjusted

-----------------------------------------------------------------------------
(* releaseReservation and expireReservation: as above, the reservation is  *)
(* read before the pool is locked and not again after it.                  *)

\* Mutated form of BeginRelease: a consumed reservation is not skipped.
BeginReleaseConsumed(t, o) ==
    /\ reservation[o] \in Active \union {"CONSUMED"}
    /\ \E op \in {"release", "expire"} : Begin(t, JobOf(op, o), "wait")

BeginRelease(t, o) ==
    /\ reservation[o] \in Active
    /\ \E op \in {"release", "expire"} : Begin(t, JobOf(op, o), "wait")

TargetStatus(op) ==
    IF op = "expire" THEN "EXPIRED_RELEASED" ELSE "CANCELLED_RELEASED"

\* Mutated form of CommitRelease: the status changes, the pool does not.
CommitReleaseKeepsReserved(t) ==
    /\ pc[t] = "locked" /\ job[t].op \in {"release", "expire"}
    /\ reservation' = [reservation EXCEPT ![job[t].order] = TargetStatus(job[t].op)]
    /\ Finish(t)
    /\ UNCHANGED <<pool, payouts, adjusted>>

CommitRelease(t) ==
    LET safeReserved == AtLeastZero(view[t].reserved - job[t].amount) IN
    /\ pc[t] = "locked" /\ job[t].op \in {"release", "expire"}
    /\ pool' = [total |-> pool.total, reserved |-> safeReserved,
                available |-> view[t].total - safeReserved]
    /\ reservation' = [reservation EXCEPT ![job[t].order] = TargetStatus(job[t].op)]
    /\ Finish(t)
    /\ UNCHANGED <<payouts, adjusted>>

-----------------------------------------------------------------------------
(* recordTreasuryTransaction, behind POST /liquidity/pools/:id/adjust.     *)
(* REPLENISHMENT, MANUAL_ADJUSTMENT and FEE_COLLECTION are credits,        *)
(* SETTLEMENT_PAYOUT is a debit.                                           *)

BeginAdjust(t) ==
    \E op \in {"credit", "debit"}, a \in AdjustAmounts :
        Begin(t, [op |-> op, order |-> NoOrder, amount |-> a], "wait")

CommitAdjust(t) ==
    LET delta == IF job[t].op = "credit" THEN job[t].amount ELSE -job[t].amount
        newTotal == view[t].total + delta
    IN
    /\ pc[t] = "locked" /\ job[t].op \in {"credit", "debit"}
    /\ newTotal >= 0 /\ newTotal <= MaxTotal
    /\ newTotal - view[t].reserved >= 0
    /\ pool' = [total |-> newTotal, reserved |-> pool.reserved,
                available |-> newTotal - view[t].reserved]
    /\ adjusted' = adjusted + delta
    /\ Finish(t)
    /\ UNCHANGED <<reservation, payouts>>

-----------------------------------------------------------------------------

Operation(t) ==
    \/ \E o \in Orders : BeginReserve(t, o)
    \/ \E o \in Orders : BeginConfirm(t, o)
    \/ \E o \in Orders : BeginConsume(t, o)
    \/ \E o \in Orders : BeginRelease(t, o)
    \/ BeginAdjust(t)

Commit(t) ==
    \/ CommitReserve(t)
    \/ CommitConfirm(t)
    \/ CommitConsume(t)
    \/ CommitRelease(t)
    \/ CommitAdjust(t)

Next == \E t \in Tx : Operation(t) \/ LockPool(t) \/ Commit(t) \/ Abort(t)

Spec == Init /\ [][Next]_vars

\* No two transactions are at work on the reservation of one order.
OneTransactionPerOrder ==
    \A t, u \in Tx : t # u /\ job[t].order # NoOrder => job[t].order # job[u].order

\* The same transactions under a hypothesis the code does not establish: the
\* operations on each order come one after the other, those of different orders
\* interleave.  The webhook, a verification, the cleanup worker and the daemon
\* may all be at work on one order, and the statements that need SerialSpec
\* say nothing of an execution in which two of them overlap there.
SerialSpec == Init /\ [][Next /\ OneTransactionPerOrder']_vars

\* The database ends what it has started: a lock request is granted when the
\* row is free often enough (PostgreSQL queues waiters), and a transaction
\* that has its lock commits or rolls back.
Progress ==
    \A t \in Tx : /\ SF_vars(LockPool(t))
                  /\ WF_vars(Commit(t) \/ (pc[t] \in {"locked", "write"} /\ Abort(t)))

FairSerialSpec == SerialSpec /\ Progress

-----------------------------------------------------------------------------
(* Properties.                                                             *)

ActiveOrders == {o \in Orders : reservation[o] \in Active}
Promised == SumFunctionOnSet(Amount, ActiveOrders)
PaidOut == SumFunction([o \in Orders |-> Amount[o] * payouts[o]])

\* The available column always equals total minus reserved, however the
\* transactions interleave: each writes it from the row it read under the
\* FOR UPDATE lock (liquidity.service.ts:89, 208, 288, 354).
PoolBalanced == pool.available = pool.total - pool.reserved

\* The pool never promises more than it has: concurrent reservations,
\* payouts and debits cannot push reserved above total (lines 84, 91, 355), and
\* neither can two operations that both spend or return one reservation, which
\* the clamps at zero keep from turning a column negative (lines 206, 287).
NeverOverReserved == 0 <= pool.reserved /\ pool.reserved <= pool.total

\* No capacity is stranded: everything reserved belongs to a reservation that
\* can still be consumed or released, whatever operations overlap.
NoStrandedCapacity == pool.reserved <= Promised

\* reserved is exactly the sum of the live reservations.  It needs the
\* operations on one order not to overlap.
ExactAccounting == pool.reserved = Promised

\* The treasury ledger explains the pool: total is the initial balance plus
\* the adjustments minus one payout per consumed reservation.
LedgerExplainsTotal == pool.total = InitialTotal + adjusted - PaidOut

\* Seen from its callers the pool serves one operation after the other, each on
\* the row the one before it left: overlapping transactions lose no update, a
\* claim is spent or returned once and stays so, and an aborted transaction
\* has done nothing.  It needs the operations on one order not to overlap.
Claimed(o) == IF reservation[o] = "NONE" THEN "none"
              ELSE IF reservation[o] \in Active THEN "held"
              ELSE IF reservation[o] = "CONSUMED" THEN "spent" ELSE "returned"

Served == INSTANCE Pool WITH total <- pool.total, reserved <- pool.reserved,
                             claim <- [o \in Orders |-> Claimed(o)]

ImplementsPool == Served!Spec

\* A transaction that waits for the pool lock gets it and ends.
EveryTransactionEnds == \A t \in Tx : pc[t] = "wait" ~> pc[t] = "idle"
=============================================================================

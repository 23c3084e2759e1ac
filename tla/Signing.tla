-------------------------------- MODULE Signing --------------------------------
(***************************************************************************)
(* How a payout becomes a signed transaction: the section of               *)
(* buildAndSubmitSettlementTransaction (soroban/transaction.service.ts)    *)
(* under the lock of the treasury account's sequence number, with the      *)
(* account read, the policy engine's outflow limit, the KMS signature and  *)
(* the broadcast, then the confirmation and the booking of the payout.     *)
(* Several worker processes do so for different orders at a time.          *)
(*                                                                         *)
(* One step is one Redis command, one RPC, one KMS call or one database    *)
(* read or write.  Settlement shows that an order is submitted once; here  *)
(* every order is, and the settlement's own lock is the flag the broadcast *)
(* looks at, which may say lost at any time.                               *)
(***************************************************************************)
EXTENDS Naturals, FiniteSets, Functions, Locks

CONSTANTS
    Orders,      \* orders to pay out
    NoOrder,     \* a process without an order
    Amount,      \* payout of each order
    Limit,       \* maxHourlyOutflowUsdc, maxDailyOutflowUsdc; all orders are in the window
    MaxCrashes   \* bound: process crashes

ASSUME SigningAssumption ==
    /\ IsFiniteSet(Orders) /\ NoOrder \notin Orders
    /\ Amount \in [Orders -> Nat \ {0}]
    /\ Limit \in Nat /\ MaxCrashes \in Nat

VARIABLES
    account,     \* sequence number of the treasury account on the ledger
    tx,          \* the transaction of each order
    sequence,    \* the sequence number it was built with, 0 before
    booked,      \* orders with a SETTLEMENT_PAYOUT row
    pc,          \* next step of each process
    cur,         \* order it is at work on
    read,        \* sequence number it read from the account
    seen,        \* orders that were broadcast when it did (history)
    overlooked,  \* approved payouts that the last policy check did not count (history)
    crashes      \* crashes so far

ledger == <<account, tx, sequence>>
process == <<pc, cur, read, seen>>
vars == <<locks, ledger, booked, process, overlooked, crashes>>

SequenceKey == "lock:stellar:sequence"
ASSUME SequenceKeyAssumption == Keys = {SequenceKey}

TypeOK ==
    /\ LocksTypeOK
    /\ account \in Nat
    /\ tx \in [Orders -> {"none", "taken", "signed", "pending", "success", "failed"}]
    /\ sequence \in [Orders -> Nat]
    /\ booked \in SUBSET Orders
    /\ pc \in [Replicas -> {"idle", "lock", "read", "approve", "sign", "send",
                            "unlock", "confirm"}]
    /\ cur \in [Replicas -> Orders \union {NoOrder}]
    /\ read \in [Replicas -> Nat]
    /\ seen \in [Replicas -> SUBSET Orders]
    /\ overlooked \in SUBSET Orders
    /\ crashes \in 0..MaxCrashes

Init ==
    /\ LocksInit
    /\ account = 0
    /\ tx = [o \in Orders |-> "none"]
    /\ sequence = [o \in Orders |-> 0]
    /\ booked = {}
    /\ pc = [r \in Replicas |-> "idle"]
    /\ cur = [r \in Replicas |-> NoOrder]
    /\ read = [r \in Replicas |-> 0]
    /\ seen = [r \in Replicas |-> {}]
    /\ overlooked = {}
    /\ crashes = 0

Go(r, step) == pc' = [pc EXCEPT ![r] = step]

\* Orders whose transaction has been given to the network.
Sent == {o \in Orders : tx[o] \in {"pending", "success", "failed"}}
\* Orders whose payout was approved and is neither booked nor known to have failed.
InFlight == {o \in Orders : tx[o] \in {"signed", "pending", "success"}} \ booked

Outflow(orders) == SumFunctionOnSet(Amount, orders)

-----------------------------------------------------------------------------
(* SorobanTransactionService.buildAndSubmitSettlementTransaction.          *)

\* A process has claimed the settlement of an order.
Submit(r, o) ==
    /\ pc[r] = "idle" /\ tx[o] = "none"
    /\ tx' = [tx EXCEPT ![o] = "taken"]
    /\ cur' = [cur EXCEPT ![r] = o]
    /\ Go(r, "lock")
    /\ UNCHANGED <<locks, account, sequence, booked, read, seen, overlooked, crashes>>

\* The check of isOwned() that follows cannot fail yet.
AcquireSequenceLock(r) ==
    /\ pc[r] = "lock"
    /\ Lock(r, SequenceKey)
    /\ Go(r, "read")
    /\ UNCHANGED <<ledger, booked, cur, read, seen, overlooked, crashes>>

\* Mutated form of SequenceLockTimesOut: executed without the lock in any case.
SequenceLockTimesOutOpen(r) ==
    /\ pc[r] = "lock"
    /\ LockFails(r, SequenceKey)
    /\ Go(r, "read")
    /\ UNCHANGED <<ledger, booked, cur, read, seen, overlooked, crashes>>

\* Three seconds of retries were in vain: an exception where locks are
\* required, otherwise the section is executed without the lock.
SequenceLockTimesOut(r) ==
    /\ pc[r] = "lock"
    /\ LockFails(r, SequenceKey)
    /\ Go(r, IF RequireLocks THEN "idle" ELSE "read")
    /\ UNCHANGED <<ledger, booked, cur, read, seen, overlooked, crashes>>

\* buildUnsignedSettlementTransaction: getAccount answers with the number on
\* the ledger, which knows nothing of transactions that are still pending.
BuildUnsigned(r) ==
    /\ pc[r] = "read"
    /\ read' = [read EXCEPT ![r] = account]
    /\ seen' = [seen EXCEPT ![r] = Sent]
    /\ Go(r, "approve")
    /\ UNCHANGED <<locks, ledger, booked, cur, overlooked, crashes>>

\* Mutated form of validateAndApprove: the payout itself is not counted.
validateAndApproveExclusive(r) ==
    /\ pc[r] = "approve"
    /\ Outflow(booked) <= Limit
    /\ overlooked' = InFlight
    /\ tx' = [tx EXCEPT ![cur[r]] = "signed"]
    /\ Go(r, "sign")
    /\ UNCHANGED <<locks, account, sequence, booked, cur, read, seen, crashes>>

\* The policy engine sums the payouts that are booked.
validateAndApprove(r) ==
    /\ pc[r] = "approve"
    /\ Outflow(booked) + Amount[cur[r]] <= Limit
    /\ overlooked' = InFlight
    /\ tx' = [tx EXCEPT ![cur[r]] = "signed"]
    /\ Go(r, "sign")
    /\ UNCHANGED <<locks, account, sequence, booked, cur, read, seen, crashes>>

\* KmsTransactionSigner.signTransaction: KMS answers with a valid signature.
SignWithKms(r) ==
    /\ pc[r] = "sign"
    /\ Go(r, "send")
    /\ UNCHANGED <<locks, ledger, booked, cur, read, seen, overlooked, crashes>>

\* Mutated form of Broadcast: built on the number before the one that was read.
BroadcastBehind(r) ==
    /\ pc[r] = "send"
    /\ tx' = [tx EXCEPT ![cur[r]] = "pending"]
    /\ sequence' = [sequence EXCEPT ![cur[r]] = read[r] - 1]
    /\ Go(r, "unlock")
    /\ UNCHANGED <<locks, account, booked, cur, read, seen, overlooked, crashes>>

\* The parent lock still says owned and the network takes the transaction.
\* The sequence lock is not looked at again.
Broadcast(r) ==
    /\ pc[r] = "send"
    /\ tx' = [tx EXCEPT ![cur[r]] = "pending"]
    /\ sequence' = [sequence EXCEPT ![cur[r]] = read[r] + 1]
    /\ Go(r, "unlock")
    /\ UNCHANGED <<locks, account, booked, cur, read, seen, overlooked, crashes>>

\* Any step of the section throws: getAccount or the simulation fails, the
\* policy refuses, KMS fails, the parent lock is lost or the RPC node answers
\* ERROR.  (Where only the answer is lost, the transaction is sent: Broadcast,
\* and then GiveUp.)
SubmissionFails(r) ==
    /\ pc[r] \in {"read", "approve", "sign", "send"}
    /\ tx' = [tx EXCEPT ![cur[r]] = "taken"]
    /\ Go(r, "unlock")
    /\ UNCHANGED <<locks, account, sequence, booked, cur, read, seen, overlooked, crashes>>

\* The finally block.
ReleaseSequenceLock(r) ==
    /\ pc[r] = "unlock"
    /\ Unlock(r, SequenceKey)
    /\ Go(r, IF cur[r] \in Sent THEN "confirm" ELSE "idle")
    /\ UNCHANGED <<ledger, booked, cur, read, seen, overlooked, crashes>>

-----------------------------------------------------------------------------
(* Confirmation, reconciliation and the booking of the payout.             *)

\* One of confirmTransaction's polls sees SUCCESS; markCompleted consumes the
\* reservation, which writes the SETTLEMENT_PAYOUT row.
ConfirmAndBook(r) ==
    /\ pc[r] = "confirm" /\ tx[cur[r]] = "success"
    /\ booked' = booked \union {cur[r]}
    /\ Go(r, "idle")
    /\ UNCHANGED <<locks, ledger, cur, read, seen, overlooked, crashes>>

\* FAILED, or ten polls in ten seconds while the transaction is valid for thirty.
GiveUp(r) ==
    /\ pc[r] = "confirm"
    /\ Go(r, "idle")
    /\ UNCHANGED <<locks, ledger, booked, cur, read, seen, overlooked, crashes>>

\* The reconciliation sweep finds a transaction that succeeded after all.
ReconcileAndBook(r, o) ==
    /\ pc[r] = "idle" /\ tx[o] = "success" /\ o \notin booked
    /\ booked' = booked \union {o}
    /\ UNCHANGED <<locks, ledger, process, overlooked, crashes>>

-----------------------------------------------------------------------------
(* The network, Redis and crashes.                                         *)

\* A ledger takes a transaction with the account's next sequence number; it
\* succeeds or fails, and uses up the number either way.
CloseLedger(o) ==
    /\ tx[o] = "pending" /\ sequence[o] = account + 1
    /\ account' = account + 1
    /\ \E s \in {"success", "failed"} : tx' = [tx EXCEPT ![o] = s]
    /\ UNCHANGED <<locks, sequence, booked, process, overlooked, crashes>>

\* txBAD_SEQ, or the end of the 30 seconds.
Drop(o) ==
    /\ tx[o] = "pending"
    /\ tx' = [tx EXCEPT ![o] = "failed"]
    /\ UNCHANGED <<locks, account, sequence, booked, process, overlooked, crashes>>

Heartbeat(r) ==
    /\ RenewFails(r, SequenceKey) \/ RenewThrows(r, SequenceKey)
    /\ UNCHANGED <<ledger, booked, process, overlooked, crashes>>

Expire ==
    /\ KeyExpires(SequenceKey)
    /\ UNCHANGED <<ledger, booked, process, overlooked, crashes>>

Crash(r) ==
    /\ crashes < MaxCrashes /\ pc[r] # "idle"
    /\ crashes' = crashes + 1
    /\ Forget(r)
    /\ Go(r, "idle")
    /\ UNCHANGED <<ledger, booked, cur, read, seen, overlooked>>

Process(r) ==
    \/ AcquireSequenceLock(r) \/ SequenceLockTimesOut(r) \/ BuildUnsigned(r)
    \/ validateAndApprove(r) \/ SignWithKms(r) \/ Broadcast(r) \/ SubmissionFails(r)
    \/ ReleaseSequenceLock(r) \/ ConfirmAndBook(r) \/ GiveUp(r)

Next ==
    \/ \E r \in Replicas : Process(r) \/ Heartbeat(r) \/ Crash(r)
    \/ \E r \in Replicas, o \in Orders : Submit(r, o) \/ ReconcileAndBook(r, o)
    \/ \E o \in Orders : CloseLedger(o) \/ Drop(o)
    \/ Expire

Spec == Init /\ [][Next]_vars

-----------------------------------------------------------------------------
(* Properties.                                                             *)

\* The sequence lock spans the whole section: between a process's read of the
\* account and its broadcast nobody else broadcasts, as long as every renewal
\* is in time.  It is all the lock gives; it does not prevent txBAD_SEQ, since
\* a transaction sent before the read may still be pending.
SequenceSection ==
    missed = 0 => \A r \in Replicas :
        pc[r] \in {"approve", "sign", "send"} => Sent = seen[r]

\* The outflow limit counts what is booked and not what is under way.  What it
\* may be exceeded by is what was under way at the last check, no more.
OvershootIsInFlight ==
    Outflow(booked \union InFlight) <= Limit + Outflow(overlooked)
=============================================================================

------------------------------ MODULE Settlement ------------------------------
(***************************************************************************)
(* The payout of USDC on chain: worker replicas that run, one after the    *)
(* other and for ever, the settlement sweep (settlement.worker.ts) and the *)
(* reconciliation sweep (reconciliation.daemon.ts) over the settlements in *)
(* PostgreSQL (settlements.service.ts), under Redis locks                  *)
(* (distributed-lock.service.ts), and submit transactions to the Stellar   *)
(* network (soroban/transaction.service.ts, confirmation.service.ts).      *)
(*                                                                         *)
(* One step is one database statement or transaction, one Redis command or *)
(* one RPC, so that replicas interleave wherever the code awaits.  A       *)
(* mark* function reads the row and validates the transition in one step   *)
(* and writes the new status unconditionally in a later one.               *)
(*                                                                         *)
(* Orders start paid: SETTLEMENT_PENDING with a wallet and a CONFIRMED     *)
(* reservation.  Refunds are not part of this module.                      *)
(***************************************************************************)
EXTENDS Naturals, Locks

CONSTANTS
    Orders,         \* paid orders to settle; also the key of their lock
    NoOrder,        \* a replica that is at work on no order
    MaxBroadcasts,  \* bound: transactions broadcast per order
    MaxCrashes,     \* bound: process crashes
    RpcFaults,      \* a status query may fail with an RPC exception
    LostReplies,    \* sendTransaction may fail after the network accepted it
    DbFaults        \* a database statement may throw, executed or not

ASSUME NullAssumption == NoOrder \notin Orders
ASSUME BoundAssumption == MaxBroadcasts \in Nat /\ MaxCrashes \in Nat
ASSUME FlagAssumption == {RpcFaults, LostReplies, DbFaults} \subseteq BOOLEAN

VARIABLES
    order,        \* Order.status
    reservation,  \* LiquidityReservation.status
    status,       \* Settlement.status, "NONE" before the row exists
    hash,         \* Settlement.stellarTransactionHash: a broadcast, 0 for null
    stale,        \* the settlement was created more than 24 hours ago
    sent,         \* transactions broadcast per order
    txs,          \* what became of each broadcast transaction
    misread,      \* history: orders an RPC exception was taken for a failure of
    crashes,      \* crashes so far
    pc,           \* next step of each replica
    role,         \* code the replica runs: sweep, its catch block, or daemon
    todo,         \* rest of the batch its sweep selected
    cur,          \* order it is at work on
    goal,         \* status it is about to mark
    reply         \* transaction hash it works with

db == <<order, reservation, status, hash, stale>>
chain == <<sent, txs, misread>>
local == <<pc, role, todo, cur, goal, reply>>
vars == <<db, locks, chain, crashes, local>>

SweepKey == "lock:worker:settlement-sweep"
DaemonKey == "lock:worker:reconciliation-daemon"
ASSUME KeysAssumption == Keys = Orders \union {SweepKey, DaemonKey}
ASSUME SweepAssumption == {SweepKey, DaemonKey} \cap Orders = {}

Statuses == {"PENDING", "SUBMITTING", "SUBMITTED", "CONFIRMING", "COMPLETED",
             "FAILED", "REQUIRES_RECONCILIATION"}
InFlight == {"SUBMITTING", "SUBMITTED", "CONFIRMING", "REQUIRES_RECONCILIATION"}
Terminal == {"COMPLETED", "FAILED"}

\* SettlementStateMachine.allowedTransitions.
allowedTransitions ==
    [s \in Statuses |->
        CASE s = "PENDING" -> {"SUBMITTING", "FAILED"}
          [] s = "SUBMITTING" ->
                {"SUBMITTED", "PENDING", "FAILED", "REQUIRES_RECONCILIATION"}
          [] s = "SUBMITTED" ->
                {"CONFIRMING", "COMPLETED", "FAILED", "REQUIRES_RECONCILIATION"}
          [] s = "CONFIRMING" -> {"COMPLETED", "FAILED", "REQUIRES_RECONCILIATION"}
          [] s = "REQUIRES_RECONCILIATION" ->
                {"CONFIRMING", "COMPLETED", "FAILED", "PENDING"}
          [] OTHER -> {}]

canTransition(from, to) ==
    from \in Statuses /\ (from = to \/ to \in allowedTransitions[from])

\* Steps of the settlement sweep, of executeSettlementFlow, of the mark*
\* functions and of the reconciliation sweep.
Steps == {"settle", "sweep", "acquire", "locked", "submitting", "flow",
          "prepare", "signed", "mark", "write", "confirm", "consume", "unlock",
          "catch", "reconcile", "daemon", "query", "release", "failOrder"}

TypeOK ==
    /\ order \in [Orders -> {"SETTLEMENT_PENDING", "COMPLETED", "FAILED"}]
    /\ reservation \in [Orders -> {"CONFIRMED", "CONSUMED", "CANCELLED_RELEASED"}]
    /\ status \in [Orders -> Statuses \union {"NONE"}]
    /\ hash \in [Orders -> 0..MaxBroadcasts]
    /\ stale \in [Orders -> BOOLEAN]
    /\ LocksTypeOK
    /\ sent \in [Orders -> 0..MaxBroadcasts]
    /\ txs \in [Orders -> [1..MaxBroadcasts ->
                             {"none", "pending", "success", "failed", "dropped"}]]
    /\ misread \in SUBSET Orders
    /\ crashes \in 0..MaxCrashes
    /\ pc \in [Replicas -> Steps]
    /\ role \in [Replicas -> {"worker", "catch", "daemon"}]
    /\ todo \in [Replicas -> SUBSET Orders]
    /\ cur \in [Replicas -> Orders \union {NoOrder}]
    /\ goal \in [Replicas -> Statuses]
    /\ reply \in [Replicas -> 0..MaxBroadcasts]

Init ==
    /\ order = [o \in Orders |-> "SETTLEMENT_PENDING"]
    /\ reservation = [o \in Orders |-> "CONFIRMED"]
    /\ status = [o \in Orders |-> "NONE"]
    /\ hash = [o \in Orders |-> 0]
    /\ stale = [o \in Orders |-> FALSE]
    /\ LocksInit
    /\ sent = [o \in Orders |-> 0]
    /\ txs = [o \in Orders |-> [n \in 1..MaxBroadcasts |-> "none"]]
    /\ misread = {}
    /\ crashes = 0
    /\ pc = [r \in Replicas |-> "settle"]
    /\ role = [r \in Replicas |-> "worker"]
    /\ todo = [r \in Replicas |-> {}]
    /\ cur = [r \in Replicas |-> NoOrder]
    /\ goal = [r \in Replicas |-> "PENDING"]
    /\ reply = [r \in Replicas |-> 0]

-----------------------------------------------------------------------------
(* Moves of a replica.                                                     *)

At(r, step) == pc[r] = step
Go(r, step) == pc' = [pc EXCEPT ![r] = step]
\* The replica goes on to mark the order's settlement with status s.
MarkAs(r, s) == Go(r, "mark") /\ goal' = [goal EXCEPT ![r] = s]
\* An exception: processSingleOrder's finally, then the sweep's catch block.
Throw(r) == Go(r, "unlock") /\ role' = [role EXCEPT ![r] = "catch"]
\* Where a replica goes when it is done with the order.
Done(r) == Go(r, CASE role[r] = "worker" -> "unlock"
                   [] role[r] = "catch" -> "sweep"
                   [] role[r] = "daemon" -> "daemon")

-----------------------------------------------------------------------------
(* SettlementWorker.processPendingOrders.                                  *)

Eligible == {o \in Orders : /\ order[o] = "SETTLEMENT_PENDING"
                            /\ status[o] \in {"NONE", "PENDING"}}

\* Without locks required, a sweep that does not get the lock runs all the
\* same.
BeginSweep(r, key, batch, step, as) ==
    /\ batch # {}
    /\ Lock(r, key) \/ (~RequireLocks /\ LockFails(r, key))
    /\ todo' = [todo EXCEPT ![r] = batch]
    /\ role' = [role EXCEPT ![r] = as]
    /\ Go(r, step)
    /\ UNCHANGED <<db, chain, crashes, cur, goal, reply>>

SkipSweep(r, key, batch, step) ==
    /\ \/ batch = {} /\ UNCHANGED locks
       \/ RequireLocks /\ LockFails(r, key)
    /\ Go(r, step)
    /\ UNCHANGED <<db, chain, crashes, role, todo, cur, goal, reply>>

EndSweep(r, key, step) ==
    /\ todo[r] = {}
    /\ Unlock(r, key)
    /\ cur' = [cur EXCEPT ![r] = NoOrder]
    /\ goal' = [goal EXCEPT ![r] = "PENDING"]
    /\ reply' = [reply EXCEPT ![r] = 0]
    /\ role' = [role EXCEPT ![r] = "worker"]
    /\ Go(r, step)
    /\ UNCHANGED <<db, chain, crashes, todo>>

processPendingOrders(r) ==
    \/ At(r, "settle") /\ BeginSweep(r, SweepKey, Eligible, "sweep", "worker")
    \/ At(r, "settle") /\ SkipSweep(r, SweepKey, Eligible, "reconcile")
    \/ At(r, "sweep") /\ EndSweep(r, SweepKey, "reconcile")

\* processSingleOrder begins with createSettlementForOrder: an existing
\* settlement is taken as it is, otherwise a PENDING one is created (the
\* unique orderId turns a lost race into the former).
createSettlementForOrder(r) ==
    /\ At(r, "sweep")
    /\ \E o \in todo[r] :
         /\ todo' = [todo EXCEPT ![r] = @ \ {o}]
         /\ cur' = [cur EXCEPT ![r] = o]
         /\ status' = [status EXCEPT ![o] = IF @ = "NONE" THEN "PENDING" ELSE @]
    /\ role' = [role EXCEPT ![r] = "worker"]
    /\ Go(r, "acquire")
    /\ UNCHANGED <<order, reservation, hash, stale, locks, chain, crashes, goal, reply>>

AcquireSettlementLock(r) ==
    /\ At(r, "acquire")
    /\ Lock(r, cur[r])
    /\ Go(r, "locked")
    /\ UNCHANGED <<db, chain, crashes, role, todo, cur, goal, reply>>

\* Three seconds of retries were in vain, or Redis throws: an exception where
\* locks are required, otherwise the order is left to the holder.
AcquireTimesOut(r) ==
    /\ At(r, "acquire")
    /\ LockFails(r, cur[r])
    /\ Go(r, IF RequireLocks THEN "catch" ELSE "sweep")
    /\ UNCHANGED <<db, chain, crashes, role, todo, cur, goal, reply>>

\* The row is read again inside the lock.
ReadUnderLock(r) ==
    /\ At(r, "locked")
    /\ Go(r, CASE status[cur[r]] = "PENDING" -> "submitting"
               [] status[cur[r]] \in {"SUBMITTING", "SUBMITTED", "CONFIRMING"} -> "flow"
               [] OTHER -> "unlock")
    /\ UNCHANGED <<db, locks, chain, crashes, role, todo, cur, goal, reply>>

\* markSubmitting: the one conditional update.  A row that another worker has
\* moved to SUBMITTING meanwhile is accepted as if this one had.
markSubmitting(r) ==
    /\ At(r, "submitting")
    /\ IF canTransition(status[cur[r]], "SUBMITTING")
       THEN /\ status' = [status EXCEPT ![cur[r]] = "SUBMITTING"]
            /\ Go(r, "flow") /\ UNCHANGED role
       ELSE Throw(r) /\ UNCHANGED status
    /\ UNCHANGED <<order, reservation, hash, stale, locks, chain, crashes, todo, cur,
                   goal, reply>>

\* processSingleOrder's finally.
ReleaseSettlementLock(r) ==
    /\ At(r, "unlock")
    /\ Unlock(r, cur[r])
    /\ Go(r, IF role[r] = "catch" THEN "catch" ELSE "sweep")
    /\ UNCHANGED <<db, chain, crashes, role, todo, cur, goal, reply>>

\* Mutated form of CatchError: the catch block asks the state machine instead of
\* its own, narrower SettlementStateMachineCanTransition.
CatchErrorAsAllowed(r) ==
    /\ At(r, "catch")
    /\ role' = [role EXCEPT ![r] = "catch"]
    /\ IF canTransition(status[cur[r]], "FAILED")
       THEN MarkAs(r, "FAILED")
       ELSE Go(r, "sweep") /\ UNCHANGED goal
    /\ UNCHANGED <<db, locks, chain, crashes, todo, cur, reply>>

\* The sweep's catch block: a settlement it finds PENDING, SUBMITTING or
\* FAILED is marked FAILED.
CatchError(r) ==
    /\ At(r, "catch")
    /\ role' = [role EXCEPT ![r] = "catch"]
    /\ IF status[cur[r]] \in {"PENDING", "SUBMITTING", "FAILED"}
       THEN MarkAs(r, "FAILED")
       ELSE Go(r, "sweep") /\ UNCHANGED goal
    /\ UNCHANGED <<db, locks, chain, crashes, todo, cur, reply>>

-----------------------------------------------------------------------------
(* SettlementWorker.executeSettlementFlow, SorobanTransactionService and   *)
(* SettlementPolicyEngine.                                                 *)

\* The row is re-read.  Without a hash the local lock flag is checked and the
\* transaction is built; with one the flow resumes after the submission.
ReverifyRow(r) ==
    LET o == cur[r] IN
    /\ At(r, "flow")
    /\ reply' = [reply EXCEPT ![r] = hash[o]]
    /\ \/ /\ hash[o] = 0 /\ o \in held[r]
          /\ Go(r, "prepare") /\ UNCHANGED <<role, goal>>
       \/ /\ hash[o] = 0 /\ o \notin held[r]
          /\ Throw(r) /\ UNCHANGED goal
       \/ /\ hash[o] # 0
          /\ CASE status[o] = "SUBMITTED" -> MarkAs(r, "CONFIRMING")
               [] status[o] = "CONFIRMING" -> Go(r, "confirm") /\ UNCHANGED goal
               [] OTHER -> Done(r) /\ UNCHANGED goal
          /\ UNCHANGED role
    /\ UNCHANGED <<db, locks, chain, crashes, todo, cur>>

\* Simulation succeeds and the policy engine lets the signer sign.  Amount,
\* address and outflow checks are part of RefuseToSign.
validateAndApprove(r) ==
    /\ At(r, "prepare")
    /\ order[cur[r]] = "SETTLEMENT_PENDING"
    /\ reservation[cur[r]] = "CONFIRMED"
    /\ status[cur[r]] # "COMPLETED"
    /\ ~stale[cur[r]]
    /\ Go(r, "signed")
    /\ UNCHANGED <<db, locks, chain, crashes, role, todo, cur, goal, reply>>

\* The transaction is not signed.  A simulation or configuration error is
\* final, every other error (policy, sequence lock, account lookup) is not.
RefuseToSign(r) ==
    /\ At(r, "prepare")
    /\ \E s \in {"FAILED", "REQUIRES_RECONCILIATION"} : MarkAs(r, s)
    /\ UNCHANGED <<db, locks, chain, crashes, role, todo, cur, reply>>

\* The signed transaction is sent, if the parent lock still says owned.  The
\* hash comes back, or the reply is lost and the submission counts as failed.
Broadcast(r) ==
    LET o == cur[r] n == sent[o] + 1 IN
    /\ At(r, "signed")
    /\ o \in held[r]
    /\ sent[o] < MaxBroadcasts
    /\ sent' = [sent EXCEPT ![o] = n]
    /\ txs' = [txs EXCEPT ![o][n] = "pending"]
    /\ \/ MarkAs(r, "SUBMITTED") /\ reply' = [reply EXCEPT ![r] = n]
       \/ LostReplies /\ MarkAs(r, "REQUIRES_RECONCILIATION") /\ UNCHANGED reply
    /\ UNCHANGED <<db, locks, misread, crashes, role, todo, cur>>

\* The lock object says lost, or the RPC node answers ERROR.
BroadcastFails(r) ==
    /\ At(r, "signed")
    /\ MarkAs(r, "REQUIRES_RECONCILIATION")
    /\ UNCHANGED <<db, locks, chain, crashes, role, todo, cur, reply>>

\* Mutated form of Confirmed: a transaction that was not refused is confirmed.
ConfirmedWhenPending(r) ==
    /\ At(r, "confirm")
    /\ txs[cur[r]][reply[r]] \in {"success", "pending"}
    /\ MarkAs(r, "COMPLETED")
    /\ UNCHANGED <<db, locks, chain, crashes, role, todo, cur, reply>>

\* confirmTransaction: one of its polls sees SUCCESS.
Confirmed(r) ==
    /\ At(r, "confirm")
    /\ txs[cur[r]][reply[r]] = "success"
    /\ MarkAs(r, "COMPLETED")
    /\ UNCHANGED <<db, locks, chain, crashes, role, todo, cur, reply>>

\* confirmTransaction: FAILED, ten polls without an answer, or an exception.
NotConfirmed(r) ==
    /\ At(r, "confirm")
    /\ txs[cur[r]][reply[r]] # "success" \/ RpcFaults
    /\ MarkAs(r, "REQUIRES_RECONCILIATION")
    /\ UNCHANGED <<db, locks, chain, crashes, role, todo, cur, reply>>

-----------------------------------------------------------------------------
(* SettlementService.mark*: read and validate, then write.                 *)

\* validateTransition on the row just read.  A rejected transition throws: to
\* the sweep's catch block, from there out of the sweep, or to the daemon's
\* catch block, which goes on with the next settlement.
Validate(r) ==
    /\ At(r, "mark")
    /\ \/ /\ canTransition(status[cur[r]], goal[r])
          /\ Go(r, "write") /\ UNCHANGED <<role, todo>>
       \/ /\ ~canTransition(status[cur[r]], goal[r])
          /\ IF role[r] = "worker" THEN Throw(r) ELSE Done(r) /\ UNCHANGED role
          /\ todo' = [todo EXCEPT ![r] = IF role[r] = "catch" THEN {} ELSE @]
    /\ UNCHANGED <<db, locks, chain, crashes, cur, goal, reply>>

\* Mutated form of Write: the order is given the status of the settlement.
WriteSyncsOrder(r) ==
    LET o == cur[r] s == goal[r] IN
    /\ At(r, "write")
    /\ status' = [status EXCEPT ![o] = s]
    /\ order' = [order EXCEPT ![o] = s]
    /\ Done(r)
    /\ UNCHANGED <<reservation, hash, stale, locks, chain, crashes, role, todo, cur,
                   goal, reply>>

\* The update by id: whatever the row has become since it was read.  A
\* completed settlement completes its order in the same transaction.
Write(r) ==
    LET o == cur[r] s == goal[r] IN
    /\ At(r, "write")
    /\ status' = [status EXCEPT ![o] = s]
    /\ hash' = [hash EXCEPT ![o] = IF s = "SUBMITTED" THEN reply[r] ELSE @]
    /\ order' = [order EXCEPT ![o] = IF s = "COMPLETED" THEN s ELSE @]
    /\ reply' = [reply EXCEPT ![r] = IF s = "CONFIRMING" THEN hash[o] ELSE @]
    /\ CASE s = "SUBMITTED" -> MarkAs(r, "CONFIRMING")
         [] s = "CONFIRMING" -> Go(r, "confirm") /\ UNCHANGED goal
         [] s = "COMPLETED" -> Go(r, "consume") /\ UNCHANGED goal
         [] s = "FAILED" /\ role[r] = "daemon" -> Go(r, "release") /\ UNCHANGED goal
         [] OTHER -> Done(r) /\ UNCHANGED goal
    /\ UNCHANGED <<reservation, stale, locks, chain, crashes, role, todo, cur>>

\* Mutated form of consumeReservation: only a RESERVED reservation is consumed.
consumeReservationReserved(r) ==
    /\ At(r, "consume")
    /\ reservation' = [reservation EXCEPT ![cur[r]] =
                          IF @ = "RESERVED" THEN "CONSUMED" ELSE @]
    /\ Done(r)
    /\ UNCHANGED <<order, status, hash, stale, locks, chain, crashes, role, todo, cur,
                   goal, reply>>

\* markCompleted goes on with consumeReservation, a transaction of its own.
consumeReservation(r) ==
    /\ At(r, "consume")
    /\ reservation' = [reservation EXCEPT ![cur[r]] =
                          IF @ = "CONFIRMED" THEN "CONSUMED" ELSE @]
    /\ Done(r)
    /\ UNCHANGED <<order, status, hash, stale, locks, chain, crashes, role, todo, cur,
                   goal, reply>>

-----------------------------------------------------------------------------
(* ReconciliationDaemon.                                                   *)

\* Mutated form of Unresolved: flagged settlements are not selected.
UnresolvedUnflagged ==
    {o \in Orders : status[o] \in InFlight \ {"REQUIRES_RECONCILIATION"}}

Unresolved == {o \in Orders : status[o] \in InFlight}

processReconciliation(r) ==
    \/ At(r, "reconcile") /\ BeginSweep(r, DaemonKey, Unresolved, "daemon", "daemon")
    \/ At(r, "reconcile") /\ SkipSweep(r, DaemonKey, Unresolved, "settle")
    \/ At(r, "daemon") /\ EndSweep(r, DaemonKey, "settle")

\* Mutated form of reconcileSingleSettlement: without a hash the settlement
\* is reset to PENDING for another attempt.
reconcileSingleSettlementResets(r) ==
    /\ At(r, "daemon")
    /\ \E o \in todo[r] :
         /\ todo' = [todo EXCEPT ![r] = @ \ {o}]
         /\ cur' = [cur EXCEPT ![r] = o]
         /\ reply' = [reply EXCEPT ![r] = hash[o]]
         /\ \/ hash[o] # 0 /\ Go(r, "query") /\ UNCHANGED goal
            \/ hash[o] = 0 /\ MarkAs(r, "PENDING")
    /\ UNCHANGED <<db, locks, chain, crashes, role>>

\* The row is read again.  No hash: failed when older than 24 hours,
\* otherwise flagged.  The settlement's lock is not taken.
reconcileSingleSettlement(r) ==
    /\ At(r, "daemon")
    /\ \E o \in todo[r] :
         /\ todo' = [todo EXCEPT ![r] = @ \ {o}]
         /\ cur' = [cur EXCEPT ![r] = o]
         /\ reply' = [reply EXCEPT ![r] = hash[o]]
         /\ \/ hash[o] # 0 /\ Go(r, "query") /\ UNCHANGED goal
            \/ hash[o] = 0 /\ MarkAs(r, IF stale[o] THEN "FAILED"
                                                   ELSE "REQUIRES_RECONCILIATION")
    /\ UNCHANGED <<db, locks, chain, crashes, role>>

\* Mutated form of QueryChain: a transaction not found gives its liquidity back.
QueryChainReleases(r) ==
    LET tx == txs[cur[r]][reply[r]] IN
    /\ At(r, "query")
    /\ \/ tx = "success" /\ MarkAs(r, "COMPLETED")
       \/ tx = "failed" /\ MarkAs(r, "FAILED")
       \/ tx \in {"pending", "dropped"} /\ Go(r, "release") /\ UNCHANGED goal
    /\ UNCHANGED <<db, locks, chain, crashes, role, todo, cur, reply>>

\* getTransactionStatus: SUCCESS completes, FAILED fails, NOT_FOUND fails
\* after 24 hours and otherwise leaves the settlement for a later sweep.
QueryChain(r) ==
    LET tx == txs[cur[r]][reply[r]] IN
    /\ At(r, "query")
    /\ \/ tx = "success" /\ MarkAs(r, "COMPLETED")
       \/ tx = "failed" /\ MarkAs(r, "FAILED")
       \/ tx \in {"pending", "dropped"} /\ stale[cur[r]] /\ MarkAs(r, "FAILED")
       \/ tx \in {"pending", "dropped"} /\ ~stale[cur[r]] /\ Done(r) /\ UNCHANGED goal
    /\ UNCHANGED <<db, locks, chain, crashes, role, todo, cur, reply>>

\* getTransactionStatus answers FAILED when the RPC throws.
QueryThrows(r) ==
    /\ At(r, "query")
    /\ RpcFaults
    /\ MarkAs(r, "FAILED")
    /\ misread' = misread \union {cur[r]}
    /\ UNCHANGED <<db, locks, sent, txs, crashes, role, todo, cur, reply>>

\* After markFailed, the daemon releases the reservation ...
releaseReservation(r) ==
    /\ At(r, "release")
    /\ reservation' = [reservation EXCEPT ![cur[r]] =
                          IF @ = "CONFIRMED" THEN "CANCELLED_RELEASED" ELSE @]
    /\ Go(r, "failOrder")
    /\ UNCHANGED <<order, status, hash, stale, locks, chain, crashes, role, todo, cur,
                   goal, reply>>

\* ... and writes FAILED to the order, whatever its status is.
FailOrder(r) ==
    /\ At(r, "failOrder")
    /\ order' = [order EXCEPT ![cur[r]] = "FAILED"]
    /\ Done(r)
    /\ UNCHANGED <<reservation, status, hash, stale, locks, chain, crashes, role, todo,
                   cur, goal, reply>>

-----------------------------------------------------------------------------
(* Exceptions of the database.                                             *)

\* A statement throws, at the step that makes it, or at the next one when it
\* was executed and its reply was lost.  What the code had in its variables is
\* gone; what follows depends on whose statement it was.
DbThrows(r) ==
    /\ DbFaults
    /\ \/ \* the selection of a batch, or the first read or insert for an order
          /\ pc[r] \in {"sweep", "daemon"} /\ todo[r] # {}
          /\ \E left \in {{}} \union {todo[r] \ {o} : o \in todo[r]} :
                todo' = [todo EXCEPT ![r] = left]
          /\ UNCHANGED <<pc, role>>
       \/ \* a settlement that was inserted, before its lock is taken
          /\ At(r, "acquire")
          /\ Go(r, "catch") /\ UNCHANGED <<role, todo>>
       \/ \* processSingleOrder under its lock, also after the broadcast
          /\ role[r] = "worker"
          /\ pc[r] \in {"locked", "submitting", "flow", "mark", "write", "confirm", "consume"}
          /\ Throw(r) /\ UNCHANGED todo
       \/ \* the sweep's catch block, and so the sweep ends
          /\ At(r, "catch") \/ (role[r] = "catch" /\ pc[r] \in {"mark", "write"})
          /\ Go(r, "sweep")
          /\ todo' = [todo EXCEPT ![r] = {}]
          /\ UNCHANGED role
       \/ \* the daemon, whose catch block goes on with the next settlement
          /\ role[r] = "daemon"
          /\ pc[r] \in {"mark", "write", "consume", "release", "failOrder"}
          /\ Go(r, "daemon") /\ UNCHANGED <<role, todo>>
    /\ goal' = [goal EXCEPT ![r] = "PENDING"]
    /\ reply' = [reply EXCEPT ![r] = 0]
    /\ UNCHANGED <<db, locks, chain, crashes, cur>>

-----------------------------------------------------------------------------
(* The environment.                                                        *)

\* A broadcast transaction reaches a ledger and succeeds, fails there or is
\* dropped at the end of its 30 second time bound.  The vault contract accepts
\* a settlement id once.
Resolve(o, n) ==
    /\ txs[o][n] = "pending"
    /\ \E s \in {"success", "failed", "dropped"} :
         /\ s = "success" => \A m \in 1..MaxBroadcasts : txs[o][m] # "success"
         /\ txs' = [txs EXCEPT ![o][n] = s]
    /\ UNCHANGED <<db, locks, sent, misread, crashes, local>>

\* 24 hours pass.  No replica stays that long on one order, no transaction
\* that long in the network.
Busy(r, o) ==
    o \in todo[r] \/ (cur[r] = o /\ pc[r] \notin {"settle", "sweep", "reconcile", "daemon"})

Age(o) ==
    /\ status[o] \in Statuses \ Terminal /\ ~stale[o]
    /\ \A r \in Replicas : ~Busy(r, o)
    /\ \A n \in 1..MaxBroadcasts : txs[o][n] # "pending"
    /\ stale' = [stale EXCEPT ![o] = TRUE]
    /\ UNCHANGED <<order, reservation, status, hash, locks, chain, crashes, local>>

\* A heartbeat finds that the lock is lost, or cannot renew it.
Heartbeat(r, k) ==
    /\ RenewFails(r, k) \/ RenewThrows(r, k)
    /\ UNCHANGED <<db, chain, crashes, local>>

Expire(k) ==
    /\ KeyExpires(k)
    /\ UNCHANGED <<db, chain, crashes, local>>

\* The process dies and is restarted.  Its keys stay in Redis until they expire.
Crash(r) ==
    /\ crashes < MaxCrashes
    /\ pc[r] \notin {"settle", "reconcile"}
    /\ crashes' = crashes + 1
    /\ Forget(r)
    /\ todo' = [todo EXCEPT ![r] = {}]
    /\ cur' = [cur EXCEPT ![r] = NoOrder]
    /\ role' = [role EXCEPT ![r] = "worker"]
    /\ goal' = [goal EXCEPT ![r] = "PENDING"]
    /\ reply' = [reply EXCEPT ![r] = 0]
    /\ Go(r, "settle")
    /\ UNCHANGED <<db, chain>>

-----------------------------------------------------------------------------

Worker(r) ==
    \/ processPendingOrders(r) \/ createSettlementForOrder(r)
    \/ AcquireSettlementLock(r) \/ AcquireTimesOut(r)
    \/ ReadUnderLock(r) \/ markSubmitting(r)
    \/ ReleaseSettlementLock(r) \/ CatchError(r)
    \/ ReverifyRow(r) \/ validateAndApprove(r) \/ RefuseToSign(r)
    \/ Broadcast(r) \/ BroadcastFails(r) \/ Confirmed(r) \/ NotConfirmed(r)

Daemon(r) ==
    \/ processReconciliation(r) \/ reconcileSingleSettlement(r)
    \/ QueryChain(r) \/ QueryThrows(r)
    \/ releaseReservation(r) \/ FailOrder(r)

Mark(r) == Validate(r) \/ Write(r) \/ consumeReservation(r)

Replica(r) == Worker(r) \/ Daemon(r) \/ Mark(r) \/ DbThrows(r)

Environment ==
    \/ \E r \in Replicas, k \in Keys : Heartbeat(r, k)
    \/ \E k \in Keys : Expire(k)
    \/ \E o \in Orders, n \in 1..MaxBroadcasts : Resolve(o, n)
    \/ \E o \in Orders : Age(o)
    \/ \E r \in Replicas : Crash(r)

Next == (\E r \in Replicas : Replica(r)) \/ Environment

Spec == Init /\ [][Next]_vars

\* The runner loops for ever and every await returns; the network resolves a
\* transaction within its time bound; time passes whenever nobody works on the
\* settlement; Redis expires the keys of dead holders and does not throw for ever.
Fairness ==
    /\ \A r \in Replicas : WF_vars(Replica(r))
    /\ \A o \in Orders, n \in 1..MaxBroadcasts : WF_vars(Resolve(o, n))
    /\ \A o \in Orders : SF_vars(Age(o))
    /\ \A k \in Keys : WF_vars(Expire(k))
    /\ \A r \in Replicas : SF_vars(AcquireSettlementLock(r))

FairSpec == Spec /\ Fairness

-----------------------------------------------------------------------------
(* Properties.                                                             *)

Paid(o) == \E n \in 1..MaxBroadcasts : txs[o][n] = "success"

\* Nothing is booked as paid that was not: a COMPLETED settlement, a COMPLETED
\* order and a CONSUMED reservation have a successful transaction on chain,
\* whatever crashes, stalls, RPC faults and races there are.
CompletedIsPaid ==
    \A o \in Orders :
        status[o] = "COMPLETED" \/ order[o] = "COMPLETED" \/ reservation[o] = "CONSUMED"
            => Paid(o)

\* A settlement is given up only if its payout did not happen and cannot happen
\* any more; otherwise the liquidity is paid out and counted as available, and
\* the order can be refunded as well.
FailedIsUnpaid ==
    \A o \in Orders : status[o] = "FAILED" =>
        \A n \in 1..MaxBroadcasts : txs[o][n] \notin {"success", "pending"}

\* A payout the row knows of is not given up while it can still happen: a FAILED
\* settlement with a hash has a transaction the chain refused or dropped.  A
\* database that throws after the broadcast, a crash, a lost reply or a second
\* replica may lose the hash, but once it is recorded the catch block leaves
\* the settlement to the daemon (settlement.worker.ts:84), which asks the chain.
\* Excepted is an order whose status query was answered by an exception.
RecordedPayoutKept ==
    missed = 0 => \A o \in Orders \ misread : status[o] = "FAILED" /\ hash[o] # 0 =>
                      txs[o][hash[o]] \in {"failed", "dropped"}

\* One order never leads to a second transaction, wherever replicas crash and
\* replies are lost, as long as every lock is renewed in time.
BroadcastOnce == missed = 0 => \A o \in Orders : sent[o] <= 1

\* Every settlement reaches COMPLETED or FAILED.
EventuallyTerminal ==
    \A o \in Orders : status[o] = "PENDING" ~> status[o] \in Terminal

\* Whatever was paid on chain is booked: its reservation is consumed.
EventuallyConsumed == \A o \in Orders : Paid(o) ~> reservation[o] = "CONSUMED"

\* Seen from outside, the liquidity of an order leaves the vault and is booked as
\* consumed, or stays there and is released, and what is released is never paid
\* out afterwards.
Vault == INSTANCE Payout WITH
             paid <- {o \in Orders : Paid(o)},
             claim <- [o \in Orders |->
                         CASE reservation[o] = "CONFIRMED" -> "held"
                           [] reservation[o] = "CONSUMED" -> "spent"
                           [] OTHER -> "returned"]

ImplementsPayout == Vault!Spec

\* The reservation of a failed settlement is released.
EventuallyReleased ==
    \A o \in Orders : status[o] = "FAILED" ~> reservation[o] = "CANCELLED_RELEASED"
=============================================================================

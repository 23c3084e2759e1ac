--------------------------- MODULE SettlementProofs ---------------------------
(***************************************************************************)
(* Proofs about Settlement, for any number of replicas, orders, crashes    *)
(* and broadcasts, with locks required or not and with every fault the     *)
(* model knows switched on or off: nothing is booked as paid that was not. *)
(*                                                                         *)
(* CompletedIsPaid is not inductive: between the query that saw SUCCESS    *)
(* and the write of COMPLETED the replica carries that knowledge in its    *)
(* local state, across steps in which others may overwrite the row and     *)
(* locks may expire.  ReplicaOK says what a replica knows at each step,    *)
(* ChainOK that a new broadcast never replaces a transaction of the chain. *)
(* No lock is mentioned: the argument does not need any of them.           *)
(***************************************************************************)
EXTENDS Settlement, LocksProofs

\* Steps at which a replica is at work on no order.

Idle == {"settle", "sweep", "reconcile", "daemon"}

\* No transaction exists before it is broadcast.
ChainOK ==
    \A o \in Orders, n \in 1..MaxBroadcasts : n > sent[o] => txs[o][n] = "none"

\* What a replica has established by the time it reaches a step.
ReplicaOK(r) ==
    /\ pc[r] \notin Idle => cur[r] \in Orders
    /\ pc[r] \in {"confirm", "query"} => reply[r] # 0
    /\ pc[r] \in {"mark", "write"} =>
         /\ goal[r] = "SUBMITTED" => reply[r] # 0
         /\ goal[r] = "CONFIRMING" => hash[cur[r]] # 0
         /\ goal[r] = "COMPLETED" => Paid(cur[r])
    /\ pc[r] = "consume" => Paid(cur[r])

\* The inductive invariant.
Inv == TypeOK /\ ChainOK /\ CompletedIsPaid /\ \A r \in Replicas : ReplicaOK(r)

-----------------------------------------------------------------------------
(* The moves of a replica are well typed.                                  *)

\* Go moves the replica to the step it names.
LEMMA GoType ==
    ASSUME TypeOK, NEW r \in Replicas, NEW s \in Steps, Go(r, s)
    PROVE  pc' \in [Replicas -> Steps] /\ pc'[r] = s
BY DEF TypeOK, Go

\* MarkAs leaves the replica at mark, with the status to write as its goal.
LEMMA MarkAsType ==
    ASSUME TypeOK, NEW r \in Replicas, NEW s \in Statuses, MarkAs(r, s)
    PROVE  /\ pc' \in [Replicas -> Steps] /\ pc'[r] = "mark"
           /\ goal' \in [Replicas -> Statuses] /\ goal'[r] = s
BY DEF TypeOK, Go, MarkAs, Steps

\* An exception takes the replica to the finally block that frees the lock.
LEMMA ThrowType ==
    ASSUME TypeOK, NEW r \in Replicas, Throw(r)
    PROVE  /\ pc' \in [Replicas -> Steps] /\ pc'[r] = "unlock"
           /\ role' \in [Replicas -> {"worker", "catch", "daemon"}]
BY DEF TypeOK, Go, Throw, Steps

\* A replica that is done with an order goes on with its sweep.
LEMMA DoneType ==
    ASSUME TypeOK, NEW r \in Replicas, Done(r)
    PROVE  /\ pc' \in [Replicas -> Steps]
           /\ pc'[r] \in {"unlock", "sweep", "daemon"}
           /\ role[r] = "daemon" => pc'[r] = "daemon"
BY DEF TypeOK, Go, Done, Steps

\* The keys of the two sweeps and of the settlements.
LEMMA KeyTypes ==
    SweepKey \in Keys /\ DaemonKey \in Keys /\ Orders \subseteq Keys
BY KeysAssumption

\* Starting, skipping and ending a sweep preserve types.
LEMMA SweepType ==
    ASSUME TypeOK, NEW r \in Replicas, NEW k \in Keys, NEW b \in SUBSET Orders,
           NEW s \in Steps, NEW as \in {"worker", "daemon"},
           BeginSweep(r, k, b, s, as) \/ SkipSweep(r, k, b, s) \/ EndSweep(r, k, s)
    PROVE  TypeOK' /\ pc'[r] = s
<1>1. CASE BeginSweep(r, k, b, s, as)
  <2>1. LocksTypeOK'
    BY <1>1, LockType DEF BeginSweep, TypeOK
  <2>2. QED
    BY <1>1, <2>1, GoType DEF BeginSweep, TypeOK, db, chain
<1>2. CASE SkipSweep(r, k, b, s)
  <2>1. LocksTypeOK'
    BY <1>2, LockType DEF SkipSweep, TypeOK, LocksTypeOK, locks
  <2>2. QED
    BY <1>2, <2>1, GoType DEF SkipSweep, TypeOK, db, chain
<1>3. CASE EndSweep(r, k, s)
  <2>1. LocksTypeOK'
    BY <1>3, LockType DEF EndSweep, TypeOK
  <2>2. /\ cur' \in [Replicas -> Orders \union {NoOrder}]
        /\ goal' \in [Replicas -> Statuses]
        /\ reply' \in [Replicas -> 0..MaxBroadcasts]
        /\ role' \in [Replicas -> {"worker", "catch", "daemon"}]
    BY <1>3, BoundAssumption DEF EndSweep, TypeOK, Statuses
  <2>3. pc' \in [Replicas -> Steps] /\ pc'[r] = s
    BY <1>3, GoType DEF EndSweep
  <2>4. QED
    BY <1>3, <2>1, <2>2, <2>3 DEF EndSweep, TypeOK, db, chain
<1>4. QED
  BY <1>1, <1>2, <1>3

\* Where an exception of the database leaves a replica: in a finally or catch
\* block or in its sweep, without a goal, and in tune with its role.
ThrownType(r) ==
    /\ pc' \in [Replicas -> Steps]
    /\ role' \in [Replicas -> {"worker", "catch", "daemon"}]
    /\ todo' \in [Replicas -> SUBSET Orders] /\ todo'[r] \subseteq todo[r]
    /\ goal' \in [Replicas -> Statuses] /\ goal'[r] = "PENDING"
    /\ reply' \in [Replicas -> 0..MaxBroadcasts]
    /\ \/ pc[r] \in {"sweep", "daemon"} /\ UNCHANGED <<pc, role>>
       \/ pc[r] \notin Idle /\ role[r] = "daemon" /\ pc'[r] = "daemon" /\ UNCHANGED role
       \/ /\ pc[r] \notin Idle /\ role[r] # "daemon" /\ role'[r] # "daemon"
          /\ pc'[r] \in {"unlock", "sweep"}
       \/ /\ pc[r] \in {"acquire", "catch"} /\ UNCHANGED role
          /\ pc'[r] \in {"catch", "sweep"}
    /\ \A q \in Replicas \ {r} :
         /\ pc'[q] = pc[q] /\ role'[q] = role[q] /\ todo'[q] = todo[q]
         /\ goal'[q] = goal[q] /\ reply'[q] = reply[q]

\* An exception of the database leaves a replica there.
LEMMA DbThrowsType ==
    ASSUME TypeOK, NEW r \in Replicas, DbThrows(r)
    PROVE  ThrownType(r)
<1>1. /\ goal' \in [Replicas -> Statuses] /\ goal'[r] = "PENDING"
      /\ reply' \in [Replicas -> 0..MaxBroadcasts]
      /\ \A q \in Replicas \ {r} : goal'[q] = goal[q] /\ reply'[q] = reply[q]
  BY BoundAssumption DEF DbThrows, TypeOK, Statuses
<1>2. CASE /\ pc[r] \in {"sweep", "daemon"} /\ todo[r] # {}
           /\ \E left \in {{}} \union {todo[r] \ {o} : o \in todo[r]} :
                 todo' = [todo EXCEPT ![r] = left]
           /\ UNCHANGED <<pc, role>>
  <2>1. PICK left \in SUBSET todo[r] : todo' = [todo EXCEPT ![r] = left]
    BY <1>2
  <2>2. /\ todo' \in [Replicas -> SUBSET Orders] /\ todo'[r] \subseteq todo[r]
        /\ \A q \in Replicas \ {r} : todo'[q] = todo[q]
    BY <2>1 DEF TypeOK
  <2>3. QED
    BY <1>1, <1>2, <2>2 DEF ThrownType, TypeOK
<1>3. CASE At(r, "acquire") /\ Go(r, "catch") /\ UNCHANGED <<role, todo>>
  BY <1>1, <1>3 DEF ThrownType, TypeOK, At, Go, Steps
<1>4. CASE /\ role[r] = "worker"
           /\ pc[r] \in {"locked", "submitting", "flow", "mark", "write", "confirm", "consume"}
           /\ Throw(r) /\ UNCHANGED todo
  BY <1>1, <1>4 DEF ThrownType, TypeOK, Throw, Go, Steps, Idle
<1>5. CASE /\ At(r, "catch") \/ (role[r] = "catch" /\ pc[r] \in {"mark", "write"})
           /\ Go(r, "sweep") /\ todo' = [todo EXCEPT ![r] = {}] /\ UNCHANGED role
  BY <1>1, <1>5 DEF ThrownType, TypeOK, At, Go, Steps, Idle
<1>6. CASE /\ role[r] = "daemon"
           /\ pc[r] \in {"mark", "write", "consume", "release", "failOrder"}
           /\ Go(r, "daemon") /\ UNCHANGED <<role, todo>>
  BY <1>1, <1>6 DEF ThrownType, TypeOK, Go, Steps, Idle
<1>7. QED
  BY <1>2, <1>3, <1>4, <1>5, <1>6 DEF DbThrows

\* Every step of a replica preserves types.
LEMMA TypeStep ==
    ASSUME TypeOK, NEW r \in Replicas, pc[r] \notin Idle => cur[r] \in Orders,
           Replica(r)
    PROVE  TypeOK'
<1> USE BoundAssumption DEF db, chain
<1>1. CASE processPendingOrders(r)
  BY <1>1, SweepType, KeyTypes DEF processPendingOrders, Eligible, Steps
<1>2. CASE createSettlementForOrder(r)
  BY <1>2 DEF createSettlementForOrder, TypeOK, LocksTypeOK, locks, At, Go, Statuses, Steps, Idle
<1>3. CASE AcquireSettlementLock(r)
  <2>1. LocksTypeOK'
    BY <1>3, LockType, KeyTypes DEF AcquireSettlementLock, TypeOK, At, Idle
  <2>2. QED
    BY <1>3, <2>1 DEF AcquireSettlementLock, TypeOK, At, Go, Steps, Idle
<1>4. CASE AcquireTimesOut(r)
  <2>1. LocksTypeOK'
    BY <1>4, LockType, KeyTypes DEF AcquireTimesOut, TypeOK, At, Idle
  <2>2. QED
    BY <1>4, <2>1 DEF AcquireTimesOut, TypeOK, At, Go, Steps, Idle
<1>5. CASE ReadUnderLock(r)
  BY <1>5 DEF ReadUnderLock, TypeOK, LocksTypeOK, locks, At, Go, Steps, Idle
<1>6. CASE markSubmitting(r)
  <2>1. cur[r] \in Orders
    BY <1>6 DEF markSubmitting, At, Idle
  <2>2. CASE canTransition(status[cur[r]], "SUBMITTING")
    BY <1>6, <2>1, <2>2 DEF markSubmitting, TypeOK, LocksTypeOK, locks, Go, Steps, Statuses
  <2>3. CASE ~canTransition(status[cur[r]], "SUBMITTING")
    BY <1>6, <2>3, ThrowType DEF markSubmitting, TypeOK, LocksTypeOK, locks
  <2>4. QED
    BY <2>2, <2>3
<1>7. CASE ReleaseSettlementLock(r)
  <2>1. LocksTypeOK'
    BY <1>7, LockType, KeyTypes DEF ReleaseSettlementLock, TypeOK, At, Idle
  <2>2. QED
    BY <1>7, <2>1 DEF ReleaseSettlementLock, TypeOK, At, Go, Steps, Idle
<1>8. CASE CatchError(r)
  <2>1. CASE status[cur[r]] \in {"PENDING", "SUBMITTING", "FAILED"}
    BY <1>8, <2>1, MarkAsType DEF CatchError, TypeOK, LocksTypeOK, locks, Statuses
  <2>2. CASE status[cur[r]] \notin {"PENDING", "SUBMITTING", "FAILED"}
    BY <1>8, <2>2, GoType DEF CatchError, TypeOK, LocksTypeOK, locks, Steps
  <2>3. QED
    BY <2>1, <2>2
<1>9. CASE ReverifyRow(r)
  <2> DEFINE o == cur[r]
  <2>1. o \in Orders /\ reply' \in [Replicas -> 0..MaxBroadcasts]
    BY <1>9 DEF ReverifyRow, At, Idle, TypeOK, LocksTypeOK, locks
  <2>2. UNCHANGED <<db, locks, chain, crashes, todo, cur>>
    BY <1>9 DEF ReverifyRow
  <2>3. CASE Go(r, "prepare") /\ UNCHANGED <<role, goal>>
    BY <2>1, <2>2, <2>3, GoType DEF TypeOK, LocksTypeOK, locks, Steps
  <2>4. CASE Throw(r) /\ UNCHANGED goal
    BY <2>1, <2>2, <2>4, ThrowType DEF TypeOK, LocksTypeOK, locks
  <2>5. CASE hash[o] # 0 /\ UNCHANGED role
    <3>1. CASE MarkAs(r, "CONFIRMING")
      BY <2>1, <2>2, <2>5, <3>1, MarkAsType DEF TypeOK, LocksTypeOK, locks, Statuses
    <3>2. CASE Go(r, "confirm") /\ UNCHANGED goal
      BY <2>1, <2>2, <2>5, <3>2, GoType DEF TypeOK, LocksTypeOK, locks, Steps
    <3>3. CASE Done(r) /\ UNCHANGED goal
      BY <2>1, <2>2, <2>5, <3>3, DoneType DEF TypeOK, LocksTypeOK, locks
    <3>4. QED
      BY <1>9, <2>5, <3>1, <3>2, <3>3 DEF ReverifyRow
  <2>6. QED
    BY <1>9, <2>3, <2>4, <2>5 DEF ReverifyRow
<1>10. CASE validateAndApprove(r)
  BY <1>10 DEF validateAndApprove, TypeOK, LocksTypeOK, locks, At, Go, Steps, Idle
<1>11. CASE RefuseToSign(r)
  BY <1>11 DEF RefuseToSign, TypeOK, LocksTypeOK, locks, At, Go, MarkAs, Statuses, Steps, Idle
<1>12. CASE Broadcast(r)
  <2> DEFINE o == cur[r]  n == sent[o] + 1
  <2>1. o \in Orders /\ n \in 1..MaxBroadcasts
    BY <1>12 DEF Broadcast, At, Idle, TypeOK, LocksTypeOK, locks
  <2>2. sent' \in [Orders -> 0..MaxBroadcasts]
    BY <1>12, <2>1 DEF Broadcast, TypeOK, LocksTypeOK, locks
  <2>3. txs' \in [Orders -> [1..MaxBroadcasts ->
                             {"none", "pending", "success", "failed", "dropped"}]]
    BY <1>12, <2>1 DEF Broadcast, TypeOK, LocksTypeOK, locks
  <2>4. reply' \in [Replicas -> 0..MaxBroadcasts]
    <3>1. reply' = [reply EXCEPT ![r] = n] \/ reply' = reply
      BY <1>12 DEF Broadcast
    <3>2. QED
      BY <2>1, <3>1 DEF TypeOK, LocksTypeOK, locks
  <2>5. pc' \in [Replicas -> Steps] /\ goal' \in [Replicas -> Statuses]
    BY <1>12, MarkAsType DEF Broadcast, Statuses
  <2>6. QED
    BY <1>12, <2>2, <2>3, <2>4, <2>5 DEF Broadcast, TypeOK, LocksTypeOK, locks
<1>13. CASE BroadcastFails(r)
  BY <1>13 DEF BroadcastFails, TypeOK, LocksTypeOK, locks, At, Go, MarkAs, Statuses, Steps, Idle
<1>14. CASE Confirmed(r)
  BY <1>14 DEF Confirmed, TypeOK, LocksTypeOK, locks, At, Go, MarkAs, Statuses, Steps, Idle
<1>15. CASE NotConfirmed(r)
  BY <1>15 DEF NotConfirmed, TypeOK, LocksTypeOK, locks, At, Go, MarkAs, Statuses, Steps, Idle
<1>16. CASE processReconciliation(r)
  BY <1>16, SweepType, KeyTypes DEF processReconciliation, Unresolved, Steps
<1>17. CASE reconcileSingleSettlement(r)
  <2>1. PICK o \in todo[r] :
          /\ todo' = [todo EXCEPT ![r] = @ \ {o}]
          /\ cur' = [cur EXCEPT ![r] = o]
          /\ reply' = [reply EXCEPT ![r] = hash[o]]
          /\ \/ Go(r, "query") /\ UNCHANGED goal
             \/ MarkAs(r, IF stale[o] THEN "FAILED" ELSE "REQUIRES_RECONCILIATION")
    BY <1>17 DEF reconcileSingleSettlement
  <2>2. pc' \in [Replicas -> Steps] /\ goal' \in [Replicas -> Statuses]
    <3>1. CASE Go(r, "query") /\ UNCHANGED goal
      BY <3>1, GoType DEF TypeOK, LocksTypeOK, locks, Steps
    <3>2. CASE MarkAs(r, IF stale[o] THEN "FAILED" ELSE "REQUIRES_RECONCILIATION")
      BY <3>2, MarkAsType DEF Statuses
    <3>3. QED
      BY <2>1, <3>1, <3>2
  <2>3. QED
    BY <1>17, <2>1, <2>2 DEF reconcileSingleSettlement, TypeOK, LocksTypeOK, locks
<1>18. CASE QueryChain(r)
  <2>1. pc' \in [Replicas -> Steps] /\ goal' \in [Replicas -> Statuses]
    <3>1. CASE Done(r) /\ UNCHANGED goal
      BY <3>1, DoneType DEF TypeOK, LocksTypeOK, locks
    <3>2. CASE MarkAs(r, "COMPLETED") \/ MarkAs(r, "FAILED")
      BY <3>2, MarkAsType DEF Statuses
    <3>3. QED
      BY <1>18, <3>1, <3>2 DEF QueryChain
  <2>2. QED
    BY <1>18, <2>1 DEF QueryChain, TypeOK, LocksTypeOK, locks
<1>19. CASE QueryThrows(r)
  BY <1>19 DEF QueryThrows, TypeOK, LocksTypeOK, locks, At, Go, MarkAs, Statuses, Steps, Idle
<1>20. CASE releaseReservation(r)
  BY <1>20 DEF releaseReservation, TypeOK, LocksTypeOK, locks, At, Go, Steps, Idle
<1>21. CASE FailOrder(r)
  BY <1>21 DEF FailOrder, TypeOK, LocksTypeOK, locks, At, Go, Done, Steps, Idle
<1>22. CASE Validate(r)
  <2>1. CASE Go(r, "write") /\ UNCHANGED <<role, todo>>
    BY <1>22, <2>1, GoType DEF Validate, TypeOK, LocksTypeOK, locks, Steps
  <2>2. CASE /\ IF role[r] = "worker" THEN Throw(r) ELSE Done(r) /\ UNCHANGED role
             /\ todo' = [todo EXCEPT ![r] = IF role[r] = "catch" THEN {} ELSE @]
    <3>1. todo' \in [Replicas -> SUBSET Orders]
      BY <2>2 DEF TypeOK, LocksTypeOK, locks
    <3>2. /\ pc' \in [Replicas -> Steps]
          /\ role' \in [Replicas -> {"worker", "catch", "daemon"}]
      BY <2>2, ThrowType, DoneType DEF TypeOK, LocksTypeOK, locks
    <3>3. QED
      BY <1>22, <3>1, <3>2 DEF Validate, TypeOK, LocksTypeOK, locks
  <2>3. QED
    BY <1>22, <2>1, <2>2 DEF Validate
<1>23. CASE Write(r)
  <2> DEFINE o == cur[r]  s == goal[r]
  <2>1. o \in Orders /\ s \in Statuses
    BY <1>23 DEF Write, At, Idle, TypeOK, LocksTypeOK, locks
  <2>2. /\ status' \in [Orders -> Statuses \union {"NONE"}]
        /\ hash' \in [Orders -> 0..MaxBroadcasts]
        /\ reply' \in [Replicas -> 0..MaxBroadcasts]
    BY <1>23, <2>1 DEF Write, TypeOK, LocksTypeOK, locks
  <2>3. order' \in [Orders -> {"SETTLEMENT_PENDING", "COMPLETED", "FAILED"}]
    BY <1>23, <2>1 DEF Write, TypeOK, LocksTypeOK, locks
  <2>4. pc' \in [Replicas -> Steps] /\ goal' \in [Replicas -> Statuses]
    <3>1. CASE MarkAs(r, "CONFIRMING")
      BY <3>1, MarkAsType DEF Statuses
    <3>2. CASE (\E step \in {"confirm", "consume", "release"} : Go(r, step)) /\ UNCHANGED goal
      BY <3>2, GoType DEF TypeOK, LocksTypeOK, locks, Steps
    <3>3. CASE Done(r) /\ UNCHANGED goal
      BY <3>3, DoneType DEF TypeOK, LocksTypeOK, locks
    <3>4. QED
      BY <1>23, <3>1, <3>2, <3>3 DEF Write
  <2>5. QED
    BY <1>23, <2>2, <2>3, <2>4 DEF Write, TypeOK, LocksTypeOK, locks
<1>24. CASE consumeReservation(r)
  BY <1>24 DEF consumeReservation, TypeOK, LocksTypeOK, locks, At, Go, Done, Steps, Idle
<1>25. CASE DbThrows(r)
  <2>1. ThrownType(r)
    BY <1>25, DbThrowsType
  <2>2. QED
    BY <1>25, <2>1 DEF ThrownType, DbThrows, TypeOK, LocksTypeOK, locks
<1>26. QED
  BY <1>1, <1>2, <1>3, <1>4, <1>5, <1>6, <1>7, <1>8, <1>9, <1>10, <1>11, <1>12, <1>13,
     <1>14, <1>15, <1>16, <1>17, <1>18, <1>19, <1>20, <1>21, <1>22, <1>23, <1>24, <1>25
     DEF Replica, Worker, Daemon, Mark

-----------------------------------------------------------------------------
(* Steps of a replica preserve the invariant.                              *)

\* A step of replica r leaves the local state of the others alone.
OthersStay(r) ==
    \A q \in Replicas \ {r} :
        pc'[q] = pc[q] /\ cur'[q] = cur[q] /\ goal'[q] = goal[q] /\ reply'[q] = reply[q]

\* What the other replicas know stays true: a success on chain is never undone
\* and a recorded hash is never erased.
LEMMA OthersKeep ==
    ASSUME Inv, NEW r \in Replicas, OthersStay(r), ReplicaOK(r)',
           \A o \in Orders : Paid(o) => Paid(o)',
           \A o \in Orders : hash[o] # 0 => hash'[o] # 0
    PROVE  \A q \in Replicas : ReplicaOK(q)'
<1>1. SUFFICES ASSUME NEW q \in Replicas, q # r
               PROVE  ReplicaOK(q)'
  OBVIOUS
<1>2. /\ ReplicaOK(q) /\ pc'[q] = pc[q] /\ cur'[q] = cur[q]
      /\ goal'[q] = goal[q] /\ reply'[q] = reply[q]
  BY <1>1 DEF OthersStay, Inv
<1>3. Paid(cur[q]) /\ cur[q] \in Orders => Paid(cur[q])'
  BY <1>2 DEF Paid
<1>4. QED
  BY <1>2, <1>3 DEF ReplicaOK, Idle

\* A step that touches neither the chain nor what is booked.
LEMMA QuietStep ==
    ASSUME Inv, TypeOK', NEW r \in Replicas, OthersStay(r), ReplicaOK(r)',
           UNCHANGED <<order, reservation, status, hash, sent, txs>>
    PROVE  Inv'
<1>1. \A o \in Orders : Paid(o)' <=> Paid(o)
  BY DEF Paid
<1>2. ChainOK' /\ CompletedIsPaid'
  BY <1>1 DEF Inv, ChainOK, CompletedIsPaid
<1>3. QED
  BY <1>1, <1>2, OthersKeep DEF Inv

\* A step that touches the books but not the chain.
LEMMA BookStep ==
    ASSUME Inv, TypeOK', NEW r \in Replicas, OthersStay(r), ReplicaOK(r)',
           UNCHANGED <<sent, txs>>,
           \A o \in Orders : hash[o] # 0 => hash'[o] # 0,
           \A o \in Orders : \/ Paid(o)
                            \/ /\ status'[o] = "COMPLETED" => status[o] = "COMPLETED"
                               /\ order'[o] = "COMPLETED" => order[o] = "COMPLETED"
                               /\ reservation'[o] = "CONSUMED" => reservation[o] = "CONSUMED"
    PROVE  Inv'
<1>1. \A o \in Orders : Paid(o)' <=> Paid(o)
  BY DEF Paid
<1>2. ChainOK' /\ CompletedIsPaid'
  BY <1>1 DEF Inv, ChainOK, CompletedIsPaid
<1>3. QED
  BY <1>1, <1>2, OthersKeep DEF Inv

\* Every step of a replica preserves the invariant.
LEMMA InvStep ==
    ASSUME Inv, NEW r \in Replicas, Replica(r)
    PROVE  Inv'
<1> DEFINE Quiet == UNCHANGED <<order, reservation, status, hash, sent, txs>>
<1>0. TypeOK /\ TypeOK' /\ ReplicaOK(r)
  BY TypeStep DEF Inv, ReplicaOK
<1>1. CASE processPendingOrders(r)
  <2>1. Quiet /\ OthersStay(r)
    BY <1>1, <1>0 DEF processPendingOrders, BeginSweep, SkipSweep, EndSweep,
       OthersStay, TypeOK, Go, db, chain
  <2>2. ReplicaOK(r)'
    BY <1>1, <1>0 DEF processPendingOrders, BeginSweep, SkipSweep, EndSweep, ReplicaOK,
       TypeOK, Paid, At, Go, Idle, db, chain
  <2>3. QED
    BY <1>0, <2>1, <2>2, QuietStep
<1>2. CASE AcquireSettlementLock(r)
  <2>1. Quiet /\ OthersStay(r)
    BY <1>2, <1>0 DEF AcquireSettlementLock, OthersStay, TypeOK, Go, db, chain
  <2>2. ReplicaOK(r)'
    BY <1>2, <1>0 DEF AcquireSettlementLock, ReplicaOK, TypeOK, Paid, At, Go, Idle, db,
       chain
  <2>3. QED
    BY <1>0, <2>1, <2>2, QuietStep
<1>3. CASE AcquireTimesOut(r)
  <2>1. Quiet /\ OthersStay(r)
    BY <1>3, <1>0 DEF AcquireTimesOut, OthersStay, TypeOK, Go, db, chain
  <2>2. ReplicaOK(r)'
    BY <1>3, <1>0 DEF AcquireTimesOut, ReplicaOK, TypeOK, Paid, At, Go, Idle, db, chain
  <2>3. QED
    BY <1>0, <2>1, <2>2, QuietStep
<1>4. CASE ReadUnderLock(r)
  <2>1. Quiet /\ OthersStay(r)
    BY <1>4, <1>0 DEF ReadUnderLock, OthersStay, TypeOK, Go, db, chain
  <2>2. ReplicaOK(r)'
    BY <1>4, <1>0 DEF ReadUnderLock, ReplicaOK, TypeOK, Paid, At, Go, Idle, db, chain
  <2>3. QED
    BY <1>0, <2>1, <2>2, QuietStep
<1>5. CASE ReleaseSettlementLock(r)
  <2>1. Quiet /\ OthersStay(r)
    BY <1>5, <1>0 DEF ReleaseSettlementLock, OthersStay, TypeOK, Go, db, chain
  <2>2. ReplicaOK(r)'
    BY <1>5, <1>0 DEF ReleaseSettlementLock, ReplicaOK, TypeOK, Paid, At, Go, Idle, db,
       chain
  <2>3. QED
    BY <1>0, <2>1, <2>2, QuietStep
<1>6. CASE CatchError(r)
  <2>1. Quiet /\ OthersStay(r)
    BY <1>6, <1>0 DEF CatchError, OthersStay, TypeOK, Go, MarkAs, db, chain
  <2>2. ReplicaOK(r)'
    BY <1>6, <1>0 DEF CatchError, ReplicaOK, TypeOK, Paid, At, Go, MarkAs, Idle, db, chain
  <2>3. QED
    BY <1>0, <2>1, <2>2, QuietStep
<1>7. CASE ReverifyRow(r)
  <2>1. Quiet /\ OthersStay(r)
    BY <1>7, <1>0 DEF ReverifyRow, OthersStay, TypeOK, Go, MarkAs, Throw, Done, db, chain
  <2>2. ReplicaOK(r)'
    BY <1>7, <1>0 DEF ReverifyRow, ReplicaOK, TypeOK, Paid, At, Go, MarkAs, Throw,
       Done, Idle, db, chain
  <2>3. QED
    BY <1>0, <2>1, <2>2, QuietStep
<1>8. CASE validateAndApprove(r)
  <2>1. Quiet /\ OthersStay(r)
    BY <1>8, <1>0 DEF validateAndApprove, OthersStay, TypeOK, Go, db, chain
  <2>2. ReplicaOK(r)'
    BY <1>8, <1>0 DEF validateAndApprove, ReplicaOK, TypeOK, Paid, At, Go, Idle, db, chain
  <2>3. QED
    BY <1>0, <2>1, <2>2, QuietStep
<1>9. CASE RefuseToSign(r)
  <2>1. Quiet /\ OthersStay(r)
    BY <1>9, <1>0 DEF RefuseToSign, OthersStay, TypeOK, Go, MarkAs, db, chain
  <2>2. ReplicaOK(r)'
    BY <1>9, <1>0 DEF RefuseToSign, ReplicaOK, TypeOK, Paid, At, Go, MarkAs, Idle, db,
       chain
  <2>3. QED
    BY <1>0, <2>1, <2>2, QuietStep
<1>10. CASE BroadcastFails(r)
  <2>1. Quiet /\ OthersStay(r)
    BY <1>10, <1>0 DEF BroadcastFails, OthersStay, TypeOK, Go, MarkAs, db, chain
  <2>2. ReplicaOK(r)'
    BY <1>10, <1>0 DEF BroadcastFails, ReplicaOK, TypeOK, Paid, At, Go, MarkAs, Idle,
       db, chain
  <2>3. QED
    BY <1>0, <2>1, <2>2, QuietStep
<1>11. CASE Confirmed(r)
  <2>1. Quiet /\ OthersStay(r)
    BY <1>11, <1>0 DEF Confirmed, OthersStay, TypeOK, Go, MarkAs, db, chain
  <2>2. ReplicaOK(r)'
    BY <1>11, <1>0 DEF Confirmed, ReplicaOK, TypeOK, Paid, At, Go, MarkAs, Idle, db, chain
  <2>3. QED
    BY <1>0, <2>1, <2>2, QuietStep
<1>12. CASE NotConfirmed(r)
  <2>1. Quiet /\ OthersStay(r)
    BY <1>12, <1>0 DEF NotConfirmed, OthersStay, TypeOK, Go, MarkAs, db, chain
  <2>2. ReplicaOK(r)'
    BY <1>12, <1>0 DEF NotConfirmed, ReplicaOK, TypeOK, Paid, At, Go, MarkAs, Idle, db,
       chain
  <2>3. QED
    BY <1>0, <2>1, <2>2, QuietStep
<1>13. CASE processReconciliation(r)
  <2>1. Quiet /\ OthersStay(r)
    BY <1>13, <1>0 DEF processReconciliation, BeginSweep, SkipSweep, EndSweep,
       OthersStay, TypeOK, Go, db, chain
  <2>2. ReplicaOK(r)'
    BY <1>13, <1>0 DEF processReconciliation, BeginSweep, SkipSweep, EndSweep,
       ReplicaOK, TypeOK, Paid, At, Go, Idle, db, chain
  <2>3. QED
    BY <1>0, <2>1, <2>2, QuietStep
<1>14. CASE reconcileSingleSettlement(r)
  <2>1. Quiet /\ OthersStay(r)
    BY <1>14, <1>0 DEF reconcileSingleSettlement, OthersStay, TypeOK, Go, MarkAs, db,
       chain
  <2>2. ReplicaOK(r)'
    BY <1>14, <1>0 DEF reconcileSingleSettlement, ReplicaOK, TypeOK, Paid, At, Go,
       MarkAs, Idle, db, chain
  <2>3. QED
    BY <1>0, <2>1, <2>2, QuietStep
<1>15. CASE QueryChain(r)
  <2>1. Quiet /\ OthersStay(r)
    BY <1>15, <1>0 DEF QueryChain, OthersStay, TypeOK, Go, MarkAs, Done, db, chain
  <2>2. ReplicaOK(r)'
    BY <1>15, <1>0 DEF QueryChain, ReplicaOK, TypeOK, Paid, At, Go, MarkAs, Done, Idle,
       db, chain
  <2>3. QED
    BY <1>0, <2>1, <2>2, QuietStep
<1>16. CASE QueryThrows(r)
  <2>1. Quiet /\ OthersStay(r)
    BY <1>16, <1>0 DEF QueryThrows, OthersStay, TypeOK, Go, MarkAs, db, chain
  <2>2. ReplicaOK(r)'
    BY <1>16, <1>0 DEF QueryThrows, ReplicaOK, TypeOK, Paid, At, Go, MarkAs, Idle, db,
       chain
  <2>3. QED
    BY <1>0, <2>1, <2>2, QuietStep
<1>17. CASE Validate(r)
  <2>1. Quiet /\ OthersStay(r)
    BY <1>17, <1>0 DEF Validate, OthersStay, TypeOK, Go, Throw, Done, db, chain
  <2>2. ReplicaOK(r)'
    BY <1>17, <1>0 DEF Validate, ReplicaOK, TypeOK, Paid, At, Go, Throw, Done, Idle,
       db, chain
  <2>3. QED
    BY <1>0, <2>1, <2>2, QuietStep
<1>18. CASE createSettlementForOrder(r)
  <2>1. UNCHANGED <<sent, txs, hash>> /\ OthersStay(r)
    BY <1>18, <1>0 DEF createSettlementForOrder, OthersStay, TypeOK, Go, chain
  <2>2. ReplicaOK(r)'
    BY <1>18, <1>0 DEF createSettlementForOrder, ReplicaOK, TypeOK, Paid, At, Go, Idle,
       chain
  <2>3. \A o \in Orders : \/ Paid(o)
                         \/ /\ status'[o] = "COMPLETED" => status[o] = "COMPLETED"
                            /\ order'[o] = "COMPLETED" => order[o] = "COMPLETED"
                            /\ reservation'[o] = "CONSUMED" => reservation[o] = "CONSUMED"
    BY <1>18, <1>0 DEF createSettlementForOrder, ReplicaOK, TypeOK, At, Idle
  <2>4. QED
    BY <1>0, <2>1, <2>2, <2>3, BookStep
<1>19. CASE markSubmitting(r)
  <2>1. UNCHANGED <<sent, txs, hash>> /\ OthersStay(r)
    BY <1>19, <1>0 DEF markSubmitting, OthersStay, TypeOK, Go, Throw, chain
  <2>2. ReplicaOK(r)'
    BY <1>19, <1>0 DEF markSubmitting, ReplicaOK, TypeOK, Paid, At, Go, Throw, Idle, chain
  <2>3. \A o \in Orders : \/ Paid(o)
                         \/ /\ status'[o] = "COMPLETED" => status[o] = "COMPLETED"
                            /\ order'[o] = "COMPLETED" => order[o] = "COMPLETED"
                            /\ reservation'[o] = "CONSUMED" => reservation[o] = "CONSUMED"
    BY <1>19, <1>0 DEF markSubmitting, ReplicaOK, TypeOK, At, Idle
  <2>4. QED
    BY <1>0, <2>1, <2>2, <2>3, BookStep
<1>20. CASE consumeReservation(r)
  <2>1. UNCHANGED <<sent, txs, hash>> /\ OthersStay(r)
    BY <1>20, <1>0 DEF consumeReservation, OthersStay, TypeOK, Go, Done, chain
  <2>2. ReplicaOK(r)'
    BY <1>20, <1>0 DEF consumeReservation, ReplicaOK, TypeOK, Paid, At, Go, Done, Idle,
       chain
  <2>3. \A o \in Orders : \/ Paid(o)
                         \/ /\ status'[o] = "COMPLETED" => status[o] = "COMPLETED"
                            /\ order'[o] = "COMPLETED" => order[o] = "COMPLETED"
                            /\ reservation'[o] = "CONSUMED" => reservation[o] = "CONSUMED"
    BY <1>20, <1>0 DEF consumeReservation, ReplicaOK, TypeOK, At, Idle
  <2>4. QED
    BY <1>0, <2>1, <2>2, <2>3, BookStep
<1>21. CASE releaseReservation(r)
  <2>1. UNCHANGED <<sent, txs, hash>> /\ OthersStay(r)
    BY <1>21, <1>0 DEF releaseReservation, OthersStay, TypeOK, Go, chain
  <2>2. ReplicaOK(r)'
    BY <1>21, <1>0 DEF releaseReservation, ReplicaOK, TypeOK, Paid, At, Go, Idle, chain
  <2>3. \A o \in Orders : \/ Paid(o)
                         \/ /\ status'[o] = "COMPLETED" => status[o] = "COMPLETED"
                            /\ order'[o] = "COMPLETED" => order[o] = "COMPLETED"
                            /\ reservation'[o] = "CONSUMED" => reservation[o] = "CONSUMED"
    BY <1>21, <1>0 DEF releaseReservation, ReplicaOK, TypeOK, At, Idle
  <2>4. QED
    BY <1>0, <2>1, <2>2, <2>3, BookStep
<1>22. CASE FailOrder(r)
  <2>1. UNCHANGED <<sent, txs, hash>> /\ OthersStay(r)
    BY <1>22, <1>0 DEF FailOrder, OthersStay, TypeOK, Go, Done, chain
  <2>2. ReplicaOK(r)'
    BY <1>22, <1>0 DEF FailOrder, ReplicaOK, TypeOK, Paid, At, Go, Done, Idle, chain
  <2>3. \A o \in Orders : \/ Paid(o)
                         \/ /\ status'[o] = "COMPLETED" => status[o] = "COMPLETED"
                            /\ order'[o] = "COMPLETED" => order[o] = "COMPLETED"
                            /\ reservation'[o] = "CONSUMED" => reservation[o] = "CONSUMED"
    BY <1>22, <1>0 DEF FailOrder, ReplicaOK, TypeOK, At, Idle
  <2>4. QED
    BY <1>0, <2>1, <2>2, <2>3, BookStep
<1>23. CASE Write(r)
  <2> DEFINE o == cur[r]  s == goal[r]
  <2>1. UNCHANGED <<sent, txs>> /\ OthersStay(r)
    BY <1>23, <1>0 DEF Write, OthersStay, TypeOK, Go, MarkAs, Done, chain
  <2>2. o \in Orders /\ s \in Statuses
    BY <1>23, <1>0 DEF Write, At, ReplicaOK, Idle, TypeOK
  <2>3. /\ hash' = [hash EXCEPT ![o] = IF s = "SUBMITTED" THEN reply[r] ELSE @]
        /\ s = "SUBMITTED" => reply[r] # 0
        /\ s = "CONFIRMING" => hash[o] # 0
        /\ s = "COMPLETED" => Paid(o)
    BY <1>23, <1>0 DEF Write, At, ReplicaOK
  <2>4. \A p \in Orders : hash[p] # 0 => hash'[p] # 0
    BY <2>2, <2>3, <1>0 DEF TypeOK
  <2>5. \A p \in Orders : \/ Paid(p)
                         \/ /\ status'[p] = "COMPLETED" => status[p] = "COMPLETED"
                            /\ order'[p] = "COMPLETED" => order[p] = "COMPLETED"
                            /\ reservation'[p] = "CONSUMED" => reservation[p] = "CONSUMED"
    BY <1>23, <1>0, <2>2, <2>3 DEF Write, TypeOK
  <2>6. ReplicaOK(r)'
    <3>1. cur'[r] = o /\ (s = "COMPLETED" => Paid(cur[r])')
      BY <1>23, <2>1, <2>3 DEF Write, Paid
    <3>2. CASE s = "SUBMITTED"
      BY <1>23, <1>0, <2>2, <2>3, <3>1, <3>2 DEF Write, ReplicaOK, TypeOK, MarkAs, Go,
         Idle
    <3>3. CASE s = "CONFIRMING"
      BY <1>23, <1>0, <2>2, <2>3, <3>1, <3>3 DEF Write, ReplicaOK, TypeOK, Go, Idle
    <3>4. CASE s = "COMPLETED"
      BY <1>23, <1>0, <2>2, <3>1, <3>4 DEF Write, ReplicaOK, TypeOK, Go, Idle
    <3>5. CASE s = "FAILED" /\ role[r] = "daemon"
      BY <1>23, <1>0, <2>2, <3>1, <3>5 DEF Write, ReplicaOK, TypeOK, Go, Idle
    <3>6. CASE /\ s \notin {"SUBMITTED", "CONFIRMING", "COMPLETED"}
               /\ ~(s = "FAILED" /\ role[r] = "daemon")
      <4>1. Done(r)
        BY <1>23, <3>6 DEF Write
      <4>2. QED
        BY <4>1, <1>0, <2>2, <3>1, DoneType DEF ReplicaOK, Idle
    <3>7. QED
      BY <3>2, <3>3, <3>4, <3>5, <3>6
  <2>7. QED
    BY <1>0, <2>1, <2>4, <2>5, <2>6, BookStep
<1>24. CASE Broadcast(r)
  <2>1. PICK o \in Orders, n \in 1..MaxBroadcasts :
          /\ o = cur[r] /\ n = sent[o] + 1
          /\ sent' = [sent EXCEPT ![o] = n]
          /\ txs' = [txs EXCEPT ![o][n] = "pending"]
    <3>1. cur[r] \in Orders /\ sent[cur[r]] + 1 \in 1..MaxBroadcasts
      BY <1>24, <1>0, BoundAssumption DEF Broadcast, At, ReplicaOK, Idle, TypeOK
    <3>2. QED
      BY <1>24, <3>1 DEF Broadcast
  <2>2. OthersStay(r) /\ UNCHANGED <<order, reservation, status, hash>>
    BY <1>24, <1>0 DEF Broadcast, OthersStay, TypeOK, MarkAs, Go, db
  <2>3. n \in Nat /\ sent[o] \in Nat /\ n > sent[o] /\ txs[o][n] = "none"
    <3>1. n \in Nat /\ sent[o] \in Nat /\ n > sent[o]
      BY <2>1, <1>0, BoundAssumption DEF TypeOK
    <3>2. QED
      BY <3>1 DEF Inv, ChainOK
  <2>4. \A p \in Orders, m \in 1..MaxBroadcasts :
          txs'[p][m] = IF p = o /\ m = n THEN "pending" ELSE txs[p][m]
    <3>1. TypeOK /\ txs' = [txs EXCEPT ![o][n] = "pending"]
      BY <1>0, <2>1
    <3>2. QED
      BY <3>1 DEF TypeOK
  <2>5. \A p \in Orders : Paid(p) => Paid(p)'
    BY <2>3, <2>4 DEF Paid
  <2>6. ChainOK'
    <3>1. \A p \in Orders : sent[p] \in Nat /\ sent'[p] = IF p = o THEN n ELSE sent[p]
      BY <2>1, <1>0, BoundAssumption DEF TypeOK
    <3>2. QED
      BY <3>1, <2>3, <2>4 DEF Inv, ChainOK
  <2>7. ReplicaOK(r)'
    <3>1. cur'[r] = o /\ pc'[r] = "mark"
      BY <1>24, <1>0, <2>1 DEF Broadcast, TypeOK, MarkAs, Go
    <3>2. \/ goal'[r] = "SUBMITTED" /\ reply'[r] = n
          \/ goal'[r] = "REQUIRES_RECONCILIATION"
      BY <1>24, <1>0, <2>1 DEF Broadcast, TypeOK, MarkAs
    <3>3. QED
      BY <3>1, <3>2 DEF ReplicaOK, Idle
  <2>8. CompletedIsPaid'
    BY <2>2, <2>5 DEF Inv, CompletedIsPaid
  <2>9. QED
    BY <1>0, <2>2, <2>5, <2>6, <2>7, <2>8, OthersKeep DEF Inv
<1>25. CASE DbThrows(r)
  <2>1. ThrownType(r) /\ Quiet /\ UNCHANGED cur
    BY <1>25, <1>0, DbThrowsType DEF DbThrows, db, chain
  <2>2. OthersStay(r) /\ ReplicaOK(r)'
    BY <1>0, <2>1 DEF ThrownType, OthersStay, ReplicaOK, Idle
  <2>3. QED
    BY <1>0, <2>1, <2>2, QuietStep
<1>26. QED
  BY <1>1, <1>2, <1>3, <1>4, <1>5, <1>6, <1>7, <1>8, <1>9, <1>10, <1>11, <1>12, <1>13,
     <1>14, <1>15, <1>16, <1>17, <1>18, <1>19, <1>20, <1>21, <1>22, <1>23, <1>24, <1>25
     DEF Replica, Worker, Daemon, Mark

-----------------------------------------------------------------------------
(* The environment, and the theorems.                                      *)

\* Heartbeats, expiring keys, the network, time and crashes preserve the
\* invariant.
LEMMA InvEnvironment ==
    ASSUME Inv, Environment
    PROVE  Inv'
<1>0. TypeOK
  BY DEF Inv
<1>1. CASE \E r \in Replicas, k \in Keys : Heartbeat(r, k)
  <2>1. UNCHANGED <<db, chain, crashes, local>> /\ LocksTypeOK'
    BY <1>0, <1>1, LockType DEF Heartbeat, TypeOK
  <2>2. QED
    BY <1>0, <2>1 DEF Inv, TypeOK, ChainOK, CompletedIsPaid, ReplicaOK, Paid, db,
       chain, local
<1>2. CASE \E k \in Keys : Expire(k)
  <2>1. UNCHANGED <<db, chain, crashes, local>> /\ LocksTypeOK'
    BY <1>0, <1>2, ExpireType DEF Expire, TypeOK
  <2>2. QED
    BY <1>0, <2>1 DEF Inv, TypeOK, ChainOK, CompletedIsPaid, ReplicaOK, Paid, db,
       chain, local
<1>3. CASE \E o \in Orders, n \in 1..MaxBroadcasts : Resolve(o, n)
  <2>1. PICK o \in Orders, n \in 1..MaxBroadcasts : Resolve(o, n)
    BY <1>3
  <2>2. PICK s \in {"success", "failed", "dropped"} : txs' = [txs EXCEPT ![o][n] = s]
    BY <2>1 DEF Resolve
  <2>3. txs[o][n] = "pending" /\ UNCHANGED <<db, locks, sent, misread, crashes, local>>
    BY <2>1 DEF Resolve
  <2>4. TypeOK'
    <3>1. txs' \in [Orders -> [1..MaxBroadcasts ->
                             {"none", "pending", "success", "failed", "dropped"}]]
      BY <1>0, <2>2 DEF TypeOK
    <3>2. QED
      BY <1>0, <2>3, <3>1 DEF TypeOK, LocksTypeOK, db, locks, local
  <2>5. ChainOK'
    BY <1>0, <2>2, <2>3 DEF Inv, ChainOK, TypeOK
  <2>6. \A p \in Orders : Paid(p) => Paid(p)'
    BY <1>0, <2>2, <2>3 DEF Paid, TypeOK
  <2>7. CompletedIsPaid'
    BY <2>3, <2>6 DEF Inv, CompletedIsPaid, db
  <2>8. ASSUME NEW q \in Replicas PROVE ReplicaOK(q)'
    <3>1. ReplicaOK(q) /\ UNCHANGED <<pc, cur, goal, reply, hash>>
      BY <2>3 DEF Inv, db, local
    <3>2. cur[q] \in Orders /\ Paid(cur[q]) => Paid(cur[q])'
      BY <2>6, <3>1 DEF Paid
    <3>3. QED
      BY <3>1, <3>2 DEF ReplicaOK, Idle
  <2>9. QED
    BY <2>4, <2>5, <2>7, <2>8 DEF Inv
<1>4. CASE \E o \in Orders : Age(o)
  <2>1. /\ UNCHANGED <<order, reservation, status, hash, locks, chain, crashes, local>>
        /\ stale' \in [Orders -> BOOLEAN]
    BY <1>0, <1>4 DEF Age, TypeOK
  <2>2. QED
    BY <1>0, <2>1 DEF Inv, TypeOK, LocksTypeOK, ChainOK, CompletedIsPaid, ReplicaOK,
       Paid, locks, chain, local
<1>5. CASE \E r \in Replicas : Crash(r)
  <2>1. PICK r \in Replicas : Crash(r)
    BY <1>5
  <2>2. TypeOK'
    BY <1>0, <2>1, BoundAssumption, ForgetType DEF Crash, TypeOK, Go, Steps, Statuses,
       db, chain
  <2>3. OthersStay(r) /\ UNCHANGED <<order, reservation, status, hash, sent, txs>>
    BY <1>0, <2>1 DEF Crash, TypeOK, OthersStay, Go, db, chain
  <2>4. ReplicaOK(r)'
    BY <1>0, <2>1 DEF Crash, TypeOK, ReplicaOK, Go, Idle
  <2>5. QED
    BY <2>2, <2>3, <2>4, QuietStep
<1>6. QED
  BY <1>1, <1>2, <1>3, <1>4, <1>5 DEF Environment

\* The invariant holds initially.
LEMMA InvInit == Init => Inv
<1> SUFFICES ASSUME Init PROVE Inv
  OBVIOUS
<1>1. TypeOK
  BY BoundAssumption, LocksAssumption DEF Init, TypeOK, LocksInit, LocksTypeOK, Statuses,
     Steps
<1>2. QED
  BY <1>1 DEF Init, Inv, ChainOK, CompletedIsPaid, ReplicaOK, Idle

\* The invariant holds in every reachable state.
THEOREM SettlementInvariant == Spec => []Inv
<1>1. Inv /\ [Next]_vars => Inv'
  <2>1. ASSUME Inv, UNCHANGED vars PROVE Inv'
    BY <2>1 DEF Inv, TypeOK, LocksTypeOK, ChainOK, CompletedIsPaid, ReplicaOK, Paid,
       vars, db, locks, chain, local
  <2>2. QED
    BY <2>1, InvStep, InvEnvironment DEF Next
<1>2. QED
  BY InvInit, <1>1, PTL DEF Spec

\* Every column and every local variable keeps its type.
THEOREM TypeCorrect == Spec => []TypeOK
BY SettlementInvariant, PTL DEF Inv

\* A COMPLETED settlement or order and a CONSUMED reservation always have a
\* successful transaction on chain: markCompleted (settlements.service.ts:284)
\* is only reached with a hash whose SUCCESS was seen.
THEOREM NothingBookedUnpaid == Spec => []CompletedIsPaid
BY SettlementInvariant, PTL DEF Inv

-----------------------------------------------------------------------------
(* The worker uses its locks as the lock service means them to be used,    *)
(* and with locks required one order leads to one transaction.             *)
(*                                                                         *)
(* The settlement's own lock does not carry the argument: after a crash    *)
(* its key expires and another worker may enter.  What does is the lock of *)
(* the sweep.  Only its holder broadcasts, an order in its batch has not   *)
(* been broadcast, and the status an order has by the time it is broadcast *)
(* keeps it out of every later batch.                                      *)

\* Steps that only the daemon takes, and those it shares with the sweep.
DaemonSteps == {"daemon", "query", "release", "failOrder"}
SharedSteps == {"mark", "write", "consume", "settle", "reconcile"}

\* A replica's role tells which code it is in; nothing marks a settlement
\* PENDING; the order at hand is no longer in the batch.
RoleOK(r) ==
    /\ role[r] = "daemon" => pc[r] \in DaemonSteps \union SharedSteps
    /\ pc[r] \in DaemonSteps => role[r] = "daemon"
    /\ pc[r] \in {"mark", "write"} => goal[r] # "PENDING"
    /\ pc[r] \in {"mark", "write"} /\ role[r] = "daemon" =>
         goal[r] \notin {"SUBMITTED", "CONFIRMING"}
    /\ pc[r] \notin Idle => cur[r] \notin todo[r]

Sweeping(r) == pc[r] \notin {"settle", "reconcile"} /\ role[r] # "daemon"

Fresh(o) == status[o] \in {"NONE", "PENDING"}

\* What a replica in its settlement sweep may rely on.
SweepOK(r) ==
    Sweeping(r) =>
      /\ SweepKey \in held[r]
      /\ \A o \in todo[r] : sent[o] = 0
      /\ pc[r] \in {"acquire", "locked", "submitting", "flow", "prepare", "signed"}
            => sent[cur[r]] = 0
      /\ pc[r] \in {"flow", "prepare", "signed"} => ~Fresh(cur[r])

\* An order that was broadcast is out of reach of later batches.
SentOK == \A o \in Orders : sent[o] <= 1 /\ (sent[o] # 0 => ~Fresh(o))

OnceInv ==
    /\ Inv /\ LocksInv
    /\ \A r \in Replicas : RoleOK(r)
    /\ RequireLocks /\ missed = 0 => SentOK /\ \A r \in Replicas : SweepOK(r)

-----------------------------------------------------------------------------
(* The locks change only as the lock service lets them.                    *)

\* Every step of the system is a step of the lock service or none.
LEMMA LocksSimulate ==
    ASSUME Inv, [Next]_vars
    PROVE  [LocksNext]_locks
<1>1. ASSUME NEW r \in Replicas, NEW k \in Keys,
             \/ Lock(r, k) \/ LockFails(r, k) \/ Unlock(r, k) \/ RenewFails(r, k)
             \/ RenewThrows(r, k) \/ Forget(r) \/ KeyExpires(k) \/ UNCHANGED locks
      PROVE  [LocksNext]_locks
  BY <1>1 DEF LocksNext
<1>2. ASSUME NEW r \in Replicas, processPendingOrders(r) \/ processReconciliation(r)
      PROVE  [LocksNext]_locks
  BY <1>1, <1>2, KeyTypes DEF processPendingOrders, processReconciliation, BeginSweep,
     SkipSweep, EndSweep
<1>3. ASSUME NEW r \in Replicas,
             AcquireSettlementLock(r) \/ AcquireTimesOut(r) \/ ReleaseSettlementLock(r)
      PROVE  [LocksNext]_locks
  <2>1. cur[r] \in Keys
    BY <1>3, KeyTypes DEF Inv, ReplicaOK, Idle, AcquireSettlementLock, AcquireTimesOut,
       ReleaseSettlementLock, At
  <2>2. QED
    BY <1>1, <1>3, <2>1 DEF AcquireSettlementLock, AcquireTimesOut, ReleaseSettlementLock
<1>4. ASSUME NEW r \in Replicas,
             \/ createSettlementForOrder(r) \/ ReadUnderLock(r) \/ markSubmitting(r)
             \/ CatchError(r) \/ ReverifyRow(r) \/ validateAndApprove(r) \/ RefuseToSign(r)
             \/ Broadcast(r) \/ BroadcastFails(r) \/ Confirmed(r) \/ NotConfirmed(r)
      PROVE  UNCHANGED locks
  BY <1>4 DEF createSettlementForOrder, ReadUnderLock, markSubmitting, CatchError,
     ReverifyRow, validateAndApprove, RefuseToSign, Broadcast, BroadcastFails, Confirmed,
     NotConfirmed
<1>5. ASSUME NEW r \in Replicas,
             \/ reconcileSingleSettlement(r) \/ QueryChain(r) \/ QueryThrows(r)
             \/ releaseReservation(r) \/ FailOrder(r) \/ Mark(r) \/ DbThrows(r)
      PROVE  UNCHANGED locks
  BY <1>5 DEF reconcileSingleSettlement, QueryChain, QueryThrows, releaseReservation,
     FailOrder, Mark, Validate, Write, consumeReservation, DbThrows
<1>6. ASSUME NEW r \in Replicas, Replica(r) PROVE [LocksNext]_locks
  BY <1>2, <1>3, <1>4, <1>5, <1>6 DEF Replica, Worker, Daemon
<1>7. CASE Environment
  <2>1. CASE \E r \in Replicas, k \in Keys : Heartbeat(r, k)
    BY <1>1, <2>1 DEF Heartbeat
  <2>2. CASE \E k \in Keys : Expire(k)
    BY <2>2 DEF Expire, LocksNext
  <2>3. CASE \E r \in Replicas : Crash(r)
    BY <2>3 DEF Crash, LocksNext
  <2>4. CASE \/ \E o \in Orders, n \in 1..MaxBroadcasts : Resolve(o, n)
             \/ \E o \in Orders : Age(o)
    BY <2>4 DEF Resolve, Age
  <2>5. QED
    BY <1>7, <2>1, <2>2, <2>3, <2>4 DEF Environment
<1>8. QED
  BY <1>6, <1>7 DEF Next, vars

\* The system uses its locks only through the operations of the lock service
\* (settlement.worker.ts:72, 147; reconciliation.daemon.ts:56).
THEOREM UsesLockService == Spec => LocksSpec
<1>1. Init => LocksInit
  BY DEF Init
<1>2. QED
  BY <1>1, LocksSimulate, SettlementInvariant, PTL DEF Spec, LocksSpec

\* Two replicas own one key only after a missed renewal.
THEOREM SettlementExcludes == Spec => []Exclusive
BY UsesLockService, LocksExclude, PTL

\* A key is released by its holder or by its TTL.
THEOREM SettlementReleases == Spec => OnlyHolderReleases
BY UsesLockService, HolderReleases, PTL

-----------------------------------------------------------------------------
(* Steps of a replica.                                                     *)

\* A step of replica r leaves what the others have to themselves alone.
OthersIdle(r) ==
    \A q \in Replicas \ {r} :
        /\ pc'[q] = pc[q] /\ role'[q] = role[q] /\ todo'[q] = todo[q]
        /\ cur'[q] = cur[q] /\ goal'[q] = goal[q] /\ held'[q] = held[q]

\* No order becomes eligible again.
StaysUsed == \A o \in Orders : Fresh(o)' => Fresh(o)

\* What every step of replica r that broadcasts nothing does.
Harmless(r) == OthersIdle(r) /\ UNCHANGED sent /\ StaysUsed

\* A replica's role and its step stay in tune, whatever it does.
LEMMA RoleStep ==
    ASSUME Inv, NEW r \in Replicas, RoleOK(r), Replica(r)
    PROVE  RoleOK(r)'
<1>0. TypeOK
  BY DEF Inv
<1> USE DEF RoleOK, TypeOK, DaemonSteps, SharedSteps, Idle, At, Go
<1>1. CASE processPendingOrders(r)
  BY <1>0, <1>1 DEF processPendingOrders, BeginSweep, SkipSweep, EndSweep
<1>2. CASE createSettlementForOrder(r)
  BY <1>0, <1>2 DEF createSettlementForOrder
<1>3. CASE AcquireSettlementLock(r)
  BY <1>0, <1>3 DEF AcquireSettlementLock
<1>4. CASE AcquireTimesOut(r)
  BY <1>0, <1>4 DEF AcquireTimesOut
<1>5. CASE ReadUnderLock(r)
  BY <1>0, <1>5 DEF ReadUnderLock
<1>6. CASE markSubmitting(r)
  BY <1>0, <1>6 DEF markSubmitting, Throw
<1>7. CASE ReleaseSettlementLock(r)
  BY <1>0, <1>7 DEF ReleaseSettlementLock
<1>8. CASE CatchError(r)
  BY <1>0, <1>8 DEF CatchError, MarkAs
<1>9. CASE ReverifyRow(r)
  BY <1>0, <1>9 DEF ReverifyRow, MarkAs, Throw, Done
<1>10. CASE validateAndApprove(r)
  BY <1>0, <1>10 DEF validateAndApprove
<1>11. CASE RefuseToSign(r)
  BY <1>0, <1>11 DEF RefuseToSign, MarkAs
<1>12. CASE Broadcast(r)
  BY <1>0, <1>12 DEF Broadcast, MarkAs
<1>13. CASE BroadcastFails(r)
  BY <1>0, <1>13 DEF BroadcastFails, MarkAs
<1>14. CASE Confirmed(r)
  BY <1>0, <1>14 DEF Confirmed, MarkAs
<1>15. CASE NotConfirmed(r)
  BY <1>0, <1>15 DEF NotConfirmed, MarkAs
<1>16. CASE processReconciliation(r)
  BY <1>0, <1>16 DEF processReconciliation, BeginSweep, SkipSweep, EndSweep
<1>17. CASE reconcileSingleSettlement(r)
  BY <1>0, <1>17 DEF reconcileSingleSettlement, MarkAs
<1>18. CASE QueryChain(r)
  BY <1>0, <1>18 DEF QueryChain, MarkAs, Done
<1>19. CASE QueryThrows(r)
  BY <1>0, <1>19 DEF QueryThrows, MarkAs
<1>20. CASE releaseReservation(r)
  BY <1>0, <1>20 DEF releaseReservation
<1>21. CASE FailOrder(r)
  BY <1>0, <1>21 DEF FailOrder, Done
<1>22. CASE Validate(r)
  BY <1>0, <1>22 DEF Validate, Throw, Done
<1>23. CASE Write(r)
  <2>1. UNCHANGED <<role, todo, cur>> /\ goal[r] # "PENDING"
    BY <1>23 DEF Write
  <2>2. CASE MarkAs(r, "CONFIRMING")
    BY <1>0, <1>23, <2>1, <2>2 DEF Write, MarkAs
  <2>3. CASE Go(r, "consume") \/ (Go(r, "confirm") /\ goal[r] = "CONFIRMING")
    BY <1>0, <1>23, <2>1, <2>3 DEF Write
  <2>4. CASE Go(r, "release") /\ role[r] = "daemon"
    BY <1>0, <1>23, <2>1, <2>4 DEF Write
  <2>5. CASE Done(r)
    BY <1>0, <1>23, <2>1, <2>5 DEF Write, Done
  <2>6. QED
    BY <1>23, <2>2, <2>3, <2>4, <2>5 DEF Write
<1>24. CASE consumeReservation(r)
  BY <1>0, <1>24 DEF consumeReservation, Done
<1>25. CASE DbThrows(r)
  <2>1. ThrownType(r) /\ UNCHANGED cur
    BY <1>0, <1>25, DbThrowsType DEF DbThrows
  <2>2. QED
    BY <1>0, <2>1 DEF ThrownType
<1>26. QED
  BY <1>1, <1>2, <1>3, <1>4, <1>5, <1>6, <1>7, <1>8, <1>9, <1>10, <1>11, <1>12, <1>13,
     <1>14, <1>15, <1>16, <1>17, <1>18, <1>19, <1>20, <1>21, <1>22, <1>23, <1>24, <1>25 DEF
     Replica, Worker, Daemon, Mark

\* Every step but Broadcast is harmless.
LEMMA HarmlessStep ==
    ASSUME Inv, NEW r \in Replicas, RoleOK(r), Replica(r), ~Broadcast(r)
    PROVE  Harmless(r)
<1>0. TypeOK /\ LocksTypeOK
  BY DEF Inv, TypeOK
<1> USE DEF RoleOK, TypeOK, LocksTypeOK, Harmless, OthersIdle, StaysUsed, Fresh, db,
          chain, At, Go
<1>1. CASE processPendingOrders(r)
  BY <1>0, <1>1 DEF processPendingOrders, BeginSweep, SkipSweep, EndSweep, Eligible,
     Lock, LockFails, Unlock, locks
<1>2. CASE createSettlementForOrder(r)
  BY <1>0, <1>2 DEF createSettlementForOrder, locks
<1>3. CASE AcquireSettlementLock(r)
  BY <1>0, <1>3 DEF AcquireSettlementLock, Lock
<1>4. CASE AcquireTimesOut(r)
  BY <1>0, <1>4 DEF AcquireTimesOut, LockFails
<1>5. CASE ReadUnderLock(r)
  BY <1>0, <1>5 DEF ReadUnderLock, locks
<1>6. CASE markSubmitting(r)
  BY <1>0, <1>6 DEF markSubmitting, Throw, locks
<1>7. CASE ReleaseSettlementLock(r)
  BY <1>0, <1>7 DEF ReleaseSettlementLock, Unlock
<1>8. CASE CatchError(r)
  BY <1>0, <1>8 DEF CatchError, MarkAs, locks
<1>9. CASE ReverifyRow(r)
  BY <1>0, <1>9 DEF ReverifyRow, MarkAs, Throw, Done, locks
<1>10. CASE validateAndApprove(r)
  BY <1>0, <1>10 DEF validateAndApprove, locks
<1>11. CASE RefuseToSign(r)
  BY <1>0, <1>11 DEF RefuseToSign, MarkAs, locks
<1>12. CASE BroadcastFails(r)
  BY <1>0, <1>12 DEF BroadcastFails, MarkAs, locks
<1>13. CASE Confirmed(r)
  BY <1>0, <1>13 DEF Confirmed, MarkAs, locks
<1>14. CASE NotConfirmed(r)
  BY <1>0, <1>14 DEF NotConfirmed, MarkAs, locks
<1>15. CASE processReconciliation(r)
  BY <1>0, <1>15 DEF processReconciliation, BeginSweep, SkipSweep, EndSweep, Lock,
     LockFails, Unlock, locks
<1>16. CASE reconcileSingleSettlement(r)
  BY <1>0, <1>16 DEF reconcileSingleSettlement, MarkAs, locks
<1>17. CASE QueryChain(r)
  BY <1>0, <1>17 DEF QueryChain, MarkAs, Done, locks
<1>18. CASE QueryThrows(r)
  BY <1>0, <1>18 DEF QueryThrows, MarkAs, locks
<1>19. CASE releaseReservation(r)
  BY <1>0, <1>19 DEF releaseReservation, locks
<1>20. CASE FailOrder(r)
  BY <1>0, <1>20 DEF FailOrder, Done, locks
<1>21. CASE Validate(r)
  BY <1>0, <1>21 DEF Validate, Throw, Done, locks
<1>22. CASE Write(r)
  <2>1. goal[r] \in Statuses \ {"PENDING"}
    BY <1>0, <1>22 DEF Write
  <2>2. /\ status' = [status EXCEPT ![cur[r]] = goal[r]]
        /\ UNCHANGED <<sent, role, todo, cur, held>>
    BY <1>22 DEF Write, locks
  <2>3. StaysUsed
    BY <1>0, <2>1, <2>2 DEF Statuses
  <2>4. \A q \in Replicas \ {r} : pc'[q] = pc[q] /\ goal'[q] = goal[q]
    BY <1>0, <1>22 DEF Write, MarkAs, Done
  <2>5. QED
    BY <2>2, <2>3, <2>4
<1>23. CASE consumeReservation(r)
  BY <1>0, <1>23 DEF consumeReservation, Done, locks
<1>24. CASE DbThrows(r)
  <2>1. ThrownType(r) /\ UNCHANGED <<status, sent, cur, held>>
    BY <1>0, <1>24, DbThrowsType DEF DbThrows, locks
  <2>2. QED
    BY <2>1 DEF ThrownType
<1>25. QED
  BY <1>1, <1>2, <1>3, <1>4, <1>5, <1>6, <1>7, <1>8, <1>9, <1>10, <1>11, <1>12, <1>13,
     <1>14, <1>15, <1>16, <1>17, <1>18, <1>19, <1>20, <1>21, <1>22, <1>23, <1>24 DEF
     Replica, Worker, Daemon, Mark

\* With locks required, a replica keeps what it relies on in its sweep.
LEMMA SweepStep ==
    ASSUME OnceInv, NEW r \in Replicas, Replica(r), ~Broadcast(r), RequireLocks, missed = 0
    PROVE  SweepOK(r)'
<1>0. TypeOK /\ LocksTypeOK /\ RoleOK(r) /\ SweepOK(r) /\ SentOK /\ ReplicaOK(r)
  BY DEF OnceInv, Inv, TypeOK
<1> USE DEF SweepOK, Sweeping, RoleOK, TypeOK, LocksTypeOK, Fresh, Idle, DaemonSteps,
          SharedSteps, db, chain, At, Go
<1>1. CASE processPendingOrders(r)
  <2>1. CASE BeginSweep(r, SweepKey, Eligible, "sweep", "worker")
    <3>1. SweepKey \in held'[r]
      BY <1>0, <2>1, KeyTypes DEF BeginSweep, Lock
    <3>2. \A o \in Eligible : sent[o] = 0
      BY <1>0 DEF Eligible, SentOK
    <3>3. QED
      BY <1>0, <2>1, <3>1, <3>2 DEF BeginSweep, Eligible
  <2>2. CASE pc'[r] = "reconcile"
    BY <2>2
  <2>3. QED
    BY <1>0, <1>1, <2>1, <2>2 DEF processPendingOrders, SkipSweep, EndSweep
<1>2. CASE createSettlementForOrder(r)
  BY <1>0, <1>2 DEF createSettlementForOrder, locks
<1>3. CASE AcquireSettlementLock(r)
  BY <1>0, <1>3 DEF AcquireSettlementLock, Lock
<1>4. CASE AcquireTimesOut(r)
  BY <1>0, <1>4 DEF AcquireTimesOut, LockFails
<1>5. CASE ReadUnderLock(r)
  BY <1>0, <1>5 DEF ReadUnderLock, locks
<1>6. CASE markSubmitting(r)
  <2>1. cur[r] \in Orders
    BY <1>0, <1>6 DEF markSubmitting, ReplicaOK
  <2>2. QED
    BY <1>0, <1>6, <2>1 DEF markSubmitting, Throw, locks
<1>7. CASE ReleaseSettlementLock(r)
  <2>1. cur[r] # SweepKey
    BY <1>0, <1>7, SweepAssumption DEF ReleaseSettlementLock, ReplicaOK
  <2>2. QED
    BY <1>0, <1>7, <2>1 DEF ReleaseSettlementLock, Unlock
<1>8. CASE CatchError(r)
  BY <1>0, <1>8 DEF CatchError, MarkAs, locks
<1>9. CASE ReverifyRow(r)
  BY <1>0, <1>9 DEF ReverifyRow, MarkAs, Throw, Done, locks
<1>10. CASE validateAndApprove(r)
  BY <1>0, <1>10 DEF validateAndApprove, locks
<1>11. CASE RefuseToSign(r)
  BY <1>0, <1>11 DEF RefuseToSign, MarkAs, locks
<1>12. CASE BroadcastFails(r)
  BY <1>0, <1>12 DEF BroadcastFails, MarkAs, locks
<1>13. CASE Confirmed(r)
  BY <1>0, <1>13 DEF Confirmed, MarkAs, locks
<1>14. CASE NotConfirmed(r)
  BY <1>0, <1>14 DEF NotConfirmed, MarkAs, locks
<1>15. CASE processReconciliation(r)
  BY <1>0, <1>15 DEF processReconciliation, BeginSweep, SkipSweep, EndSweep, Lock,
     LockFails, Unlock, locks
<1>16. CASE reconcileSingleSettlement(r)
  BY <1>0, <1>16 DEF reconcileSingleSettlement, MarkAs, locks
<1>17. CASE QueryChain(r)
  BY <1>0, <1>17 DEF QueryChain, MarkAs, Done, locks
<1>18. CASE QueryThrows(r)
  BY <1>0, <1>18 DEF QueryThrows, MarkAs, locks
<1>19. CASE releaseReservation(r)
  BY <1>0, <1>19 DEF releaseReservation, locks
<1>20. CASE FailOrder(r)
  BY <1>0, <1>20 DEF FailOrder, Done, locks
<1>21. CASE Validate(r)
  BY <1>0, <1>21 DEF Validate, Throw, Done, locks
<1>22. CASE Write(r)
  BY <1>0, <1>22 DEF Write, MarkAs, Done, locks
<1>23. CASE consumeReservation(r)
  BY <1>0, <1>23 DEF consumeReservation, Done, locks
<1>24. CASE DbThrows(r)
  <2>1. ThrownType(r) /\ UNCHANGED <<status, sent, cur, held>>
    BY <1>0, <1>24, DbThrowsType DEF DbThrows, locks
  <2>2. QED
    BY <1>0, <2>1 DEF ThrownType
<1>25. QED
  BY <1>1, <1>2, <1>3, <1>4, <1>5, <1>6, <1>7, <1>8, <1>9, <1>10, <1>11, <1>12, <1>13,
     <1>14, <1>15, <1>16, <1>17, <1>18, <1>19, <1>20, <1>21, <1>22, <1>23, <1>24 DEF
     Replica, Worker, Daemon, Mark

\* Broadcast: its replica is the only one that sweeps.
LEMMA BroadcastStep ==
    ASSUME OnceInv, NEW r \in Replicas, Broadcast(r), RequireLocks, missed = 0
    PROVE  SentOK' /\ \A q \in Replicas : SweepOK(q)'
<1>1. TypeOK /\ RoleOK(r) /\ SweepOK(r) /\ ReplicaOK(r) /\ SentOK /\ Exclusive
  BY LockedAlone DEF OnceInv, Inv
<1>2. cur[r] \in Orders /\ cur[r] \notin todo[r] /\ Sweeping(r)
  BY <1>1 DEF Broadcast, At, ReplicaOK, RoleOK, Idle, Sweeping, DaemonSteps, SharedSteps
<1>3. sent[cur[r]] = 0 /\ ~Fresh(cur[r]) /\ SweepKey \in held[r]
  BY <1>1, <1>2 DEF Broadcast, At, SweepOK
<1>4. sent' = [sent EXCEPT ![cur[r]] = 1] /\ UNCHANGED <<status, held, role, todo, cur>>
  BY <1>3 DEF Broadcast, db, locks
<1>5. SentOK'
  BY <1>1, <1>2, <1>3, <1>4, BoundAssumption DEF SentOK, Fresh, TypeOK
<1>6. ASSUME NEW q \in Replicas, q # r PROVE ~Sweeping(q)'
  <2>1. ~Sweeping(q)
    BY <1>1, <1>3, <1>6, KeyTypes DEF OnceInv, SweepOK, Exclusive
  <2>2. QED
    BY <1>1, <1>4, <1>6, <2>1 DEF Broadcast, MarkAs, Go, TypeOK, Sweeping
<1>7. SweepOK(r)'
  <2>1. pc'[r] = "mark"
    BY <1>1 DEF Broadcast, MarkAs, Go, TypeOK
  <2>2. \A o \in todo[r] : sent'[o] = 0
    BY <1>1, <1>2, <1>4 DEF SweepOK, TypeOK
  <2>3. QED
    BY <1>3, <1>4, <2>1, <2>2 DEF SweepOK
<1>8. QED
  BY <1>5, <1>6, <1>7 DEF SweepOK

\* Every step of a replica preserves the invariant.
LEMMA OnceReplica ==
    ASSUME OnceInv, NEW r \in Replicas, Replica(r), Inv', LocksInv'
    PROVE  OnceInv'
<1>1. Inv /\ RoleOK(r) /\ (missed' = 0 => missed = 0)
  <2>1. [LocksNext]_locks /\ LocksTypeOK
    BY LocksSimulate DEF OnceInv, Next, Inv, TypeOK
  <2>2. QED
    BY <2>1 DEF OnceInv, LocksNext, Lock, LockFails, Unlock, RenewFails, RenewThrows,
       Forget, KeyExpires, locks, LocksTypeOK
<1>2. OthersIdle(r)
  <2>1. CASE Broadcast(r)
    BY <1>1, <2>1 DEF Broadcast, OthersIdle, MarkAs, Go, Inv, TypeOK, locks
  <2>2. QED
    BY <1>1, <2>1, HarmlessStep DEF Harmless
<1>3. ASSUME NEW q \in Replicas PROVE RoleOK(q)'
  <2>1. CASE q = r
    BY <1>1, <2>1, RoleStep
  <2>2. CASE q # r
    BY <1>2, <2>2 DEF OnceInv, OthersIdle, RoleOK
  <2>3. QED
    BY <2>1, <2>2
<1>4. ASSUME RequireLocks, missed' = 0 PROVE SentOK' /\ \A q \in Replicas : SweepOK(q)'
  <2>1. missed = 0 /\ SentOK /\ \A q \in Replicas : SweepOK(q)
    BY <1>1, <1>4 DEF OnceInv
  <2>2. CASE Broadcast(r)
    BY <1>4, <2>1, <2>2, BroadcastStep
  <2>3. CASE ~Broadcast(r)
    <3>1. Harmless(r)
      BY <1>1, <2>3, HarmlessStep
    <3>2. SentOK'
      BY <2>1, <3>1 DEF Harmless, StaysUsed, SentOK
    <3>3. SweepOK(r)'
      BY <1>4, <2>1, <2>3, SweepStep
    <3>4. ASSUME NEW q \in Replicas, q # r PROVE SweepOK(q)'
      <4>1. pc[q] \in {"flow", "prepare", "signed"} => cur[q] \in Orders
        BY <1>1 DEF Inv, ReplicaOK, Idle
      <4>2. QED
        BY <2>1, <3>1, <3>4, <4>1 DEF Harmless, OthersIdle, StaysUsed, SweepOK, Sweeping,
           Fresh
    <3>5. QED
      BY <3>2, <3>3, <3>4
  <2>4. QED
    BY <2>2, <2>3
<1>5. QED
  BY <1>3, <1>4 DEF OnceInv

\* The environment preserves it: while no renewal is missed, no heartbeat finds
\* its lock lost.
LEMMA OnceEnvironment ==
    ASSUME OnceInv, Environment, Inv', LocksInv'
    PROVE  OnceInv'
<1>0. TypeOK /\ LocksTypeOK
  BY DEF OnceInv, Inv, TypeOK
<1> USE DEF RoleOK, SentOK, SweepOK, Sweeping, Fresh
<1>1. ASSUME NEW r \in Replicas, NEW k \in Keys, Heartbeat(r, k) PROVE OnceInv'
  <2>1. UNCHANGED <<db, chain, local>>
    BY <1>1 DEF Heartbeat
  <2>2. ASSUME missed' = 0 PROVE FALSE
    BY <1>0, <1>1, <2>2 DEF Heartbeat, RenewFails, RenewThrows, OnceInv, LocksInv,
       HeldIsLocked, LocksTypeOK
  <2>3. QED
    BY <2>1, <2>2 DEF OnceInv, db, chain, local
<1>2. ASSUME NEW k \in Keys, Expire(k) PROVE OnceInv'
  <2>1. UNCHANGED <<db, chain, local, held>> /\ (missed' = 0 => missed = 0)
    BY <1>0, <1>2 DEF Expire, KeyExpires, LocksTypeOK
  <2>2. QED
    BY <2>1 DEF OnceInv, db, chain, local
<1>3. ASSUME NEW o \in Orders, NEW n \in 1..MaxBroadcasts, Resolve(o, n) PROVE OnceInv'
  BY <1>3 DEF Resolve, OnceInv, db, locks, local
<1>4. ASSUME NEW o \in Orders, Age(o) PROVE OnceInv'
  BY <1>4 DEF Age, OnceInv, chain, locks, local
<1>5. ASSUME NEW r \in Replicas, Crash(r) PROVE OnceInv'
  <2>1. /\ UNCHANGED <<status, sent, missed>> /\ OthersIdle(r)
        /\ pc'[r] = "settle" /\ role'[r] = "worker"
    BY <1>0, <1>5 DEF Crash, Forget, Go, OthersIdle, TypeOK, LocksTypeOK, db, chain
  <2>2. ASSUME NEW q \in Replicas PROVE RoleOK(q)' /\ (SweepOK(q) => SweepOK(q)')
    BY <2>1 DEF OnceInv, OthersIdle, Idle, DaemonSteps, SharedSteps
  <2>3. QED
    BY <2>1, <2>2 DEF OnceInv
<1>6. QED
  BY <1>1, <1>2, <1>3, <1>4, <1>5 DEF Environment

\* The invariant of the single broadcast holds in every reachable state.
THEOREM OnceInvariant == Spec => []OnceInv
<1>1. Init /\ Inv => OnceInv
  BY LocksAssumption DEF Init, LocksInit, OnceInv, LocksInv, LocksTypeOK, HeldIsLocked,
     Inv, TypeOK, RoleOK, SentOK, SweepOK, Sweeping, Idle, DaemonSteps, SharedSteps
<1>2. OnceInv /\ Inv' /\ [Next]_vars => OnceInv'
  <2> SUFFICES ASSUME OnceInv, Inv', [Next]_vars PROVE OnceInv'
    OBVIOUS
  <2>1. LocksInv'
    BY LocksSimulate, LocksStep DEF OnceInv
  <2>2. CASE UNCHANGED vars
    BY <2>1, <2>2 DEF OnceInv, RoleOK, SentOK, SweepOK, Sweeping, Fresh, vars, db, locks,
       chain, local
  <2>3. QED
    BY <2>1, <2>2, OnceReplica, OnceEnvironment DEF Next
<1>3. QED
  BY <1>1, <1>2, SettlementInvariant, PTL DEF Spec

\* With locks required and renewed in time, an order never leads to a second
\* transaction: wherever a worker dies, whichever reply is lost and whatever
\* Redis throws, no later sweep sends it again (settlement.worker.ts:72-84).
THEOREM PaidOutOnce == Spec => [](RequireLocks => BroadcastOnce)
<1>1. OnceInv => (RequireLocks => BroadcastOnce)
  BY DEF OnceInv, SentOK, BroadcastOnce
<1>2. QED
  BY <1>1, OnceInvariant, PTL

-----------------------------------------------------------------------------
(* With locks required and renewed in time, a settlement whose hash is on  *)
(* record is given up only when that transaction can no longer succeed,    *)
(* whatever the database throws after the broadcast.                       *)
(*                                                                         *)
(* FAILED is written from three places, and RecordedPayoutKept says of     *)
(* none of them why it is right.  The worker and the catch block decide on *)
(* a status before SUBMITTED, which means that no hash is on record, and   *)
(* nobody else may record one before they write, since recording needs the *)
(* lock of the sweep.  The daemon takes no such lock: it decides on a      *)
(* missing hash only for a stale settlement, which nobody signs any more,  *)
(* and otherwise on the fate of the one transaction there is.              *)

\* Nothing on record can still pay the order, or its RPC node misled the daemon.
Hopeless(o) ==
    o \in misread \/ hash[o] = 0 \/ txs[o][hash[o]] \in {"failed", "dropped"}

\* Statuses before the hash is on record.
Unsubmitted == {"NONE", "PENDING", "SUBMITTING"}

\* What a row says of its transaction.
RowOK(o) ==
    /\ hash[o] <= sent[o]
    /\ status[o] \in Unsubmitted => hash[o] = 0
    /\ stale[o] => \A n \in 1..MaxBroadcasts : txs[o][n] # "pending"
    /\ status[o] = "FAILED" => Hopeless(o)

\* What a replica has in hand that signs, queries or is about to mark.
KnowsOK(r) ==
    /\ pc[r] = "signed" => ~stale[cur[r]]
    /\ pc[r] = "query" => reply[r] = hash[cur[r]]
    /\ pc[r] \in {"mark", "write"} =>
         /\ goal[r] # "SUBMITTING"
         /\ goal[r] = "SUBMITTED" => ~stale[cur[r]] /\ reply[r] <= sent[cur[r]]
         /\ goal[r] = "FAILED" =>
              /\ Hopeless(cur[r])
              /\ role[r] = "daemon" => stale[cur[r]] \/ hash[cur[r]] # 0

Kept == (\A o \in Orders : RowOK(o)) /\ (\A r \in Replicas : KnowsOK(r))

KeptInv == OnceInv /\ (RequireLocks /\ missed = 0 => Kept)

\* What the steps of a replica do to the rows and to the chain.
LEMMA RowStep ==
    ASSUME Inv, NEW r \in Replicas, Replica(r)
    PROVE  /\ UNCHANGED stale /\ misread \subseteq misread'
           /\ Write(r) \/ UNCHANGED hash
           /\ Broadcast(r) \/ UNCHANGED <<sent, txs>>
           /\ Write(r) \/ \A o \in Orders :
                             /\ status'[o] \in Unsubmitted => status[o] \in Unsubmitted
                             /\ status'[o] = "FAILED" => status[o] = "FAILED"
<1>0. TypeOK /\ ReplicaOK(r)
  BY DEF Inv
<1> USE DEF db, chain
<1>1. CASE createSettlementForOrder(r)
  BY <1>0, <1>1 DEF createSettlementForOrder, TypeOK, Unsubmitted
<1>2. CASE markSubmitting(r)
  <2>1. cur[r] \in Orders
    BY <1>0, <1>2 DEF markSubmitting, At, ReplicaOK, Idle
  <2>2. canTransition(status[cur[r]], "SUBMITTING") => status[cur[r]] \in Unsubmitted
    BY DEF canTransition, allowedTransitions, Statuses, Unsubmitted
  <2>3. QED
    BY <1>0, <1>2, <2>1, <2>2 DEF markSubmitting, TypeOK, Unsubmitted
<1>3. CASE /\ Worker(r) /\ ~createSettlementForOrder(r) /\ ~markSubmitting(r)
  <2>1. UNCHANGED <<db, misread>> /\ (Broadcast(r) \/ UNCHANGED <<sent, txs>>)
    BY <1>3 DEF Worker, processPendingOrders, BeginSweep, SkipSweep, EndSweep,
       AcquireSettlementLock, AcquireTimesOut, ReadUnderLock, ReleaseSettlementLock,
       CatchError, ReverifyRow, validateAndApprove, RefuseToSign, Broadcast, BroadcastFails,
       Confirmed, NotConfirmed
  <2>2. QED
    BY <2>1
<1>4. CASE Daemon(r)
  <2>1. /\ UNCHANGED <<status, hash, stale, sent, txs>> /\ misread \subseteq misread'
    BY <1>4 DEF Daemon, processReconciliation, BeginSweep, SkipSweep, EndSweep,
       reconcileSingleSettlement, QueryChain, QueryThrows, releaseReservation, FailOrder
  <2>2. QED
    BY <2>1
<1>5. CASE Mark(r) \/ DbThrows(r)
  BY <1>5 DEF Mark, Validate, Write, consumeReservation, DbThrows
<1>6. QED
  BY <1>1, <1>2, <1>3, <1>4, <1>5 DEF Replica

\* The replica's own knowledge is sound at every step it reaches.
LEMMA KnowsStep ==
    ASSUME OnceInv, Kept, NEW r \in Replicas, Replica(r), RequireLocks, missed = 0
    PROVE  KnowsOK(r)'
<1>0. /\ TypeOK /\ ReplicaOK(r) /\ RoleOK(r) /\ SweepOK(r) /\ KnowsOK(r)
      /\ \A o \in Orders : RowOK(o)
  BY DEF OnceInv, Inv, Kept
<1>1. ASSUME pc'[r] \notin {"signed", "query", "mark", "write"} PROVE KnowsOK(r)'
  BY <1>1 DEF KnowsOK
<1> USE DEF TypeOK, At, Go, db, chain
<1>2. CASE \/ processPendingOrders(r) \/ processReconciliation(r)
           \/ createSettlementForOrder(r) \/ AcquireSettlementLock(r) \/ AcquireTimesOut(r)
           \/ ReadUnderLock(r) \/ markSubmitting(r) \/ ReleaseSettlementLock(r)
  BY <1>0, <1>1, <1>2 DEF processPendingOrders, processReconciliation, BeginSweep,
     SkipSweep, EndSweep, createSettlementForOrder, AcquireSettlementLock, AcquireTimesOut,
     ReadUnderLock, markSubmitting, ReleaseSettlementLock, Throw
<1>3. CASE CatchError(r)
  <2>1. cur[r] \in Orders
    BY <1>0, <1>3 DEF CatchError, ReplicaOK, Idle
  <2>2. status[cur[r]] \in {"PENDING", "SUBMITTING", "FAILED"} => Hopeless(cur[r])
    BY <1>0, <2>1 DEF RowOK, Unsubmitted, Hopeless
  <2>3. QED
    BY <1>0, <1>3, <2>2 DEF CatchError, MarkAs, KnowsOK, Hopeless
<1>4. CASE ReverifyRow(r)
  <2>1. pc'[r] \in {"prepare", "unlock", "mark", "confirm", "sweep", "daemon"}
    BY <1>0, <1>4 DEF ReverifyRow, MarkAs, Throw, Done
  <2>2. pc'[r] = "mark" => goal'[r] = "CONFIRMING"
    BY <1>0, <1>4 DEF ReverifyRow, MarkAs, Throw, Done
  <2>3. QED
    BY <2>1, <2>2 DEF KnowsOK
<1>5. CASE validateAndApprove(r)
  BY <1>0, <1>5 DEF validateAndApprove, KnowsOK
<1>6. CASE RefuseToSign(r)
  <2>1. cur[r] \in Orders /\ role[r] # "daemon"
    BY <1>0, <1>6 DEF RefuseToSign, ReplicaOK, RoleOK, Idle, DaemonSteps, SharedSteps
  <2>2. sent[cur[r]] = 0
    BY <1>0, <1>6, <2>1 DEF RefuseToSign, SweepOK, Sweeping
  <2>3. hash[cur[r]] = 0
    BY <1>0, <2>1, <2>2, BoundAssumption DEF RowOK
  <2>4. QED
    BY <1>0, <1>6, <2>1, <2>3 DEF RefuseToSign, MarkAs, KnowsOK, Hopeless
<1>7. CASE Broadcast(r)
  <2>1. cur[r] \in Orders /\ ~stale[cur[r]]
    BY <1>0, <1>7 DEF Broadcast, ReplicaOK, Idle, KnowsOK
  <2>2. sent'[cur[r]] = sent[cur[r]] + 1 /\ sent[cur[r]] \in Nat /\ UNCHANGED <<stale, cur>>
    BY <1>0, <1>7, <2>1, BoundAssumption DEF Broadcast
  <2>3. /\ pc'[r] = "mark"
        /\ \/ goal'[r] = "SUBMITTED" /\ reply'[r] = sent[cur[r]] + 1
           \/ goal'[r] = "REQUIRES_RECONCILIATION"
    BY <1>0, <1>7 DEF Broadcast, MarkAs
  <2>4. QED
    BY <2>1, <2>2, <2>3 DEF KnowsOK
<1>8. CASE BroadcastFails(r) \/ Confirmed(r) \/ NotConfirmed(r)
  BY <1>0, <1>8 DEF BroadcastFails, Confirmed, NotConfirmed, MarkAs, KnowsOK
<1>9. CASE reconcileSingleSettlement(r)
  BY <1>0, <1>9 DEF reconcileSingleSettlement, MarkAs, KnowsOK, Hopeless
<1>10. CASE QueryChain(r)
  <2>1. PICK o \in Orders : o = cur[r]
    BY <1>0, <1>10 DEF QueryChain, ReplicaOK, Idle
  <2>2. reply[r] = hash[o] /\ hash[o] # 0 /\ hash[o] \in 1..MaxBroadcasts
    BY <1>0, <1>10, <2>1, BoundAssumption DEF QueryChain, ReplicaOK, KnowsOK
  <2>3. /\ txs[o][hash[o]] = "failed" => Hopeless(o)
        /\ txs[o][hash[o]] \in {"pending", "dropped"} /\ stale[o] => Hopeless(o)
    BY <1>0, <2>2 DEF RowOK, Hopeless
  <2>4. UNCHANGED <<hash, txs, misread, stale, cur>>
    BY <1>10 DEF QueryChain
  <2>5. \/ pc'[r] \in {"unlock", "sweep", "daemon"}
        \/ pc'[r] = "mark" /\ goal'[r] = "COMPLETED"
        \/ pc'[r] = "mark" /\ goal'[r] = "FAILED" /\ Hopeless(o)
    BY <1>0, <1>10, <2>1, <2>2, <2>3 DEF QueryChain, MarkAs, Done
  <2>6. QED
    BY <2>1, <2>2, <2>4, <2>5 DEF KnowsOK, Hopeless
<1>11. CASE QueryThrows(r)
  <2>1. hash[cur[r]] # 0
    BY <1>0, <1>11 DEF QueryThrows, ReplicaOK, KnowsOK
  <2>2. pc'[r] = "mark" /\ goal'[r] = "FAILED" /\ cur[r] \in misread' /\ UNCHANGED <<hash, cur>>
    BY <1>0, <1>11 DEF QueryThrows, MarkAs
  <2>3. QED
    BY <2>1, <2>2 DEF KnowsOK, Hopeless
<1>12. CASE releaseReservation(r) \/ FailOrder(r) \/ consumeReservation(r)
  BY <1>0, <1>1, <1>12 DEF releaseReservation, FailOrder, consumeReservation, Done
<1>13. CASE Validate(r)
  <2>1. /\ pc[r] = "mark" /\ UNCHANGED <<hash, stale, sent, txs, misread, cur, goal, reply>>
        /\ \/ pc'[r] = "write" /\ role'[r] = role[r]
           \/ pc'[r] \in {"unlock", "sweep", "daemon"}
    BY <1>0, <1>13 DEF Validate, Throw, Done
  <2>2. QED
    BY <1>0, <2>1 DEF KnowsOK, Hopeless
<1>14. CASE Write(r)
  <2>1. \/ pc'[r] \notin {"signed", "query", "mark", "write"}
        \/ pc'[r] = "mark" /\ goal'[r] = "CONFIRMING"
    BY <1>0, <1>14 DEF Write, MarkAs, Done
  <2>2. QED
    BY <2>1 DEF KnowsOK
<1>15. CASE DbThrows(r)
  <2>1. ThrownType(r)
    BY <1>0, <1>15, DbThrowsType
  <2>2. pc'[r] \notin {"signed", "query", "mark", "write"}
    BY <2>1 DEF ThrownType
  <2>3. QED
    BY <1>1, <2>2
<1>16. QED
  BY <1>2, <1>3, <1>4, <1>5, <1>6, <1>7, <1>8, <1>9, <1>10, <1>11, <1>12, <1>13, <1>14,
     <1>15 DEF Replica, Worker, Daemon, Mark

\* A replica that records a hash is the only one that sweeps: it finds none on
\* record, or the very one it brings, and nobody has the settlement in hand to
\* fail it.
LEMMA Records ==
    ASSUME OnceInv, Kept, NEW r \in Replicas, Write(r), goal[r] = "SUBMITTED",
           RequireLocks, missed = 0
    PROVE  /\ cur[r] \in Orders
           /\ hash' = [hash EXCEPT ![cur[r]] = 1] /\ sent[cur[r]] = 1
           /\ hash[cur[r]] \in {0, 1}
           /\ hash[cur[r]] = 0 => \A q \in Replicas \ {r} :
                  ~(cur[q] = cur[r] /\ pc[q] \in {"mark", "write"} /\ goal[q] = "FAILED")
<1>0. /\ TypeOK /\ ReplicaOK(r) /\ RoleOK(r) /\ SweepOK(r) /\ KnowsOK(r) /\ SentOK
      /\ Exclusive /\ \A o \in Orders : RowOK(o)
  BY LockedAlone DEF OnceInv, Inv, Kept
<1>1. pc[r] = "write" /\ cur[r] \in Orders
  BY <1>0 DEF Write, At, ReplicaOK, Idle
<1>2. /\ reply[r] # 0 /\ reply[r] <= sent[cur[r]] /\ ~stale[cur[r]] /\ role[r] # "daemon"
      /\ sent[cur[r]] <= 1 /\ hash[cur[r]] <= sent[cur[r]]
  BY <1>0, <1>1 DEF ReplicaOK, KnowsOK, RoleOK, SentOK, RowOK
<1>3. reply[r] \in Nat /\ sent[cur[r]] \in Nat /\ hash[cur[r]] \in Nat
  BY <1>0, <1>1, BoundAssumption DEF TypeOK
<1>4. reply[r] = 1 /\ sent[cur[r]] = 1 /\ hash[cur[r]] \in {0, 1}
  BY <1>2, <1>3
<1>5. hash' = [hash EXCEPT ![cur[r]] = 1]
  BY <1>4 DEF Write
<1>6. ASSUME hash[cur[r]] = 0, NEW q \in Replicas, q # r, cur[q] = cur[r],
             pc[q] \in {"mark", "write"}, goal[q] = "FAILED"
      PROVE  FALSE
  <2>1. KnowsOK(q) /\ SweepOK(q)
    BY <1>0 DEF OnceInv, Kept
  <2>2. role[q] # "daemon"
    BY <1>2, <1>6, <2>1 DEF KnowsOK
  <2>3. SweepKey \in held[q] /\ SweepKey \in held[r]
    BY <1>0, <1>1, <1>2, <1>6, <2>1, <2>2 DEF SweepOK, Sweeping
  <2>4. QED
    BY <1>0, <1>6, <2>3, KeyTypes DEF Exclusive
<1>7. QED
  BY <1>1, <1>4, <1>5, <1>6

\* A hash on record is never replaced, and its transaction is not either.
LEMMA HopelessStays ==
    ASSUME OnceInv, Kept, NEW r \in Replicas, Replica(r), RequireLocks, missed = 0,
           NEW o \in Orders
    PROVE  /\ hash[o] # 0 => hash'[o] = hash[o]
           /\ hash'[o] = hash[o] /\ Hopeless(o) => Hopeless(o)'
<1>0. Inv /\ TypeOK /\ ReplicaOK(r) /\ RowOK(o)
  BY DEF OnceInv, Inv, Kept
<1>1. hash[o] # 0 => hash'[o] = hash[o]
  <2>1. CASE Write(r) /\ goal[r] = "SUBMITTED"
    BY <1>0, <2>1, Records DEF TypeOK
  <2>2. CASE ~(Write(r) /\ goal[r] = "SUBMITTED")
    BY <1>0, <2>2, RowStep DEF Write, TypeOK
  <2>3. QED BY <2>1, <2>2
<1>2. ASSUME hash'[o] = hash[o], Hopeless(o) PROVE Hopeless(o)'
  <2>1. misread \subseteq misread'
    BY <1>0, RowStep
  <2>2. CASE hash[o] = 0
    BY <1>2, <2>2 DEF Hopeless
  <2>3. CASE hash[o] # 0
    <3>1. txs'[o][hash[o]] = txs[o][hash[o]]
      <4>1. CASE Broadcast(r)
        <5>1. cur[r] \in Orders /\ sent[cur[r]] + 1 \in 1..MaxBroadcasts
          BY <1>0, <4>1, BoundAssumption DEF Broadcast, At, ReplicaOK, Idle, TypeOK
        <5>2. txs' = [txs EXCEPT ![cur[r]][sent[cur[r]] + 1] = "pending"]
          BY <4>1 DEF Broadcast
        <5>3. hash[o] \in 1..MaxBroadcasts /\ sent[o] \in Nat /\ hash[o] <= sent[o]
          BY <1>0, <2>3, BoundAssumption DEF TypeOK, RowOK
        <5>4. hash[o] # sent[o] + 1
          BY <5>3
        <5>5. QED
          BY <1>0, <5>1, <5>2, <5>3, <5>4 DEF TypeOK
      <4>2. CASE ~Broadcast(r)
        BY <1>0, <4>2, RowStep
      <4>3. QED BY <4>1, <4>2
    <3>2. QED
      BY <1>2, <2>1, <3>1 DEF Hopeless
  <2>4. QED BY <2>2, <2>3
<1>3. QED
  BY <1>1, <1>2

\* What the other replicas know stays true.
LEMMA KnowsOthers ==
    ASSUME OnceInv, Kept, NEW r \in Replicas, Replica(r), RequireLocks, missed = 0,
           NEW q \in Replicas, q # r
    PROVE  KnowsOK(q)'
<1>0. Inv /\ TypeOK /\ RoleOK(r) /\ ReplicaOK(q) /\ KnowsOK(q) /\ RoleOK(q)
  BY DEF OnceInv, Inv, Kept
<1>1. /\ pc'[q] = pc[q] /\ role'[q] = role[q] /\ cur'[q] = cur[q] /\ goal'[q] = goal[q]
  <2>1. CASE Broadcast(r)
    BY <1>0, <2>1 DEF Broadcast, MarkAs, Go, TypeOK
  <2>2. QED
    BY <1>0, <2>1, HarmlessStep DEF Harmless, OthersIdle
<1>2. reply'[q] = reply[q]
  <2>1. CASE Worker(r)
    BY <1>0, <2>1 DEF Worker, processPendingOrders, BeginSweep, SkipSweep, EndSweep,
       createSettlementForOrder, AcquireSettlementLock, AcquireTimesOut, ReadUnderLock,
       markSubmitting, ReleaseSettlementLock, CatchError, ReverifyRow, validateAndApprove,
       RefuseToSign, Broadcast, BroadcastFails, Confirmed, NotConfirmed, TypeOK
  <2>2. CASE Daemon(r)
    BY <1>0, <2>2 DEF Daemon, processReconciliation, BeginSweep, SkipSweep, EndSweep,
       reconcileSingleSettlement, QueryChain, QueryThrows, releaseReservation, FailOrder,
       TypeOK
  <2>3. CASE Mark(r) \/ DbThrows(r)
    BY <1>0, <2>3 DEF Mark, Validate, Write, consumeReservation, DbThrows, TypeOK
  <2>4. QED
    BY <2>1, <2>2, <2>3 DEF Replica
<1>3. CASE pc[q] \notin {"signed", "query", "mark", "write"}
  BY <1>1, <1>3 DEF KnowsOK
<1>4. CASE pc[q] \in {"signed", "query", "mark", "write"}
  <2>1. PICK o \in Orders : o = cur[q]
    BY <1>0, <1>4 DEF ReplicaOK, Idle
  <2>2. UNCHANGED stale
    BY <1>0, RowStep
  <2>3. sent[o] \in Nat /\ sent'[o] \in Nat /\ sent[o] <= sent'[o]
    <3>1. CASE Broadcast(r)
      BY <1>0, <3>1, BoundAssumption DEF Broadcast, TypeOK
    <3>2. CASE ~Broadcast(r)
      BY <1>0, <3>2, RowStep, BoundAssumption DEF TypeOK
    <3>3. QED BY <3>1, <3>2
  <2>4. reply[q] \in Nat
    BY <1>0, BoundAssumption DEF TypeOK
  <2>5. pc[q] = "query" => hash'[o] = hash[o]
    BY <1>0, <2>1, HopelessStays DEF ReplicaOK, KnowsOK
  <2>6. pc[q] \in {"mark", "write"} /\ goal[q] = "FAILED" => hash'[o] = hash[o]
    <3>1. CASE Write(r) /\ goal[r] = "SUBMITTED"
      BY <1>0, <2>1, <3>1, Records, HopelessStays DEF TypeOK
    <3>2. CASE ~(Write(r) /\ goal[r] = "SUBMITTED")
      BY <1>0, <3>2, RowStep DEF Write, TypeOK
    <3>3. QED BY <3>1, <3>2
  <2>7. pc[q] \in {"mark", "write"} /\ goal[q] = "FAILED" => Hopeless(cur[q])'
    <3>1. SUFFICES ASSUME pc[q] \in {"mark", "write"}, goal[q] = "FAILED"
                   PROVE  Hopeless(o)'
      BY <1>1, <2>1 DEF Hopeless
    <3>2. Hopeless(o)
      BY <1>0, <2>1, <3>1 DEF KnowsOK
    <3>3. QED
      BY <2>6, <3>1, <3>2, HopelessStays
  <2>8. QED
    BY <1>0, <1>1, <1>2, <2>1, <2>2, <2>3, <2>4, <2>5, <2>6, <2>7 DEF KnowsOK
<1>5. QED
  BY <1>3, <1>4

\* The rows stay in order.
LEMMA RowsKept ==
    ASSUME OnceInv, Kept, NEW r \in Replicas, Replica(r), RequireLocks, missed = 0,
           NEW o \in Orders
    PROVE  RowOK(o)'
<1>0. Inv /\ TypeOK /\ ReplicaOK(r) /\ RoleOK(r) /\ KnowsOK(r) /\ RowOK(o)
  BY DEF OnceInv, Inv, Kept
<1>1. hash[o] \in Nat /\ sent[o] \in Nat /\ UNCHANGED stale
  BY <1>0, RowStep, BoundAssumption DEF TypeOK
<1>2. CASE Write(r)
  <2>1. /\ cur[r] \in Orders /\ goal[r] \in Statuses \ {"PENDING", "SUBMITTING"}
        /\ status' = [status EXCEPT ![cur[r]] = goal[r]] /\ UNCHANGED <<sent, txs, misread>>
    BY <1>0, <1>2 DEF Write, At, ReplicaOK, Idle, RoleOK, KnowsOK, TypeOK, chain
  <2>2. CASE o # cur[r]
    <3>1. hash'[o] = hash[o] /\ status'[o] = status[o]
      BY <1>0, <1>2, <2>1, <2>2 DEF Write, TypeOK
    <3>2. QED
      BY <1>0, <1>1, <2>1, <3>1 DEF RowOK, Hopeless
  <2>3. CASE o = cur[r] /\ goal[r] = "SUBMITTED"
    <3>1. hash'[o] = 1 /\ sent[o] = 1 /\ status'[o] = "SUBMITTED"
      BY <1>0, <1>2, <2>1, <2>3, Records DEF TypeOK
    <3>2. QED
      BY <1>0, <1>1, <2>1, <3>1 DEF RowOK, Unsubmitted
  <2>4. CASE o = cur[r] /\ goal[r] # "SUBMITTED"
    <3>1. hash'[o] = hash[o] /\ status'[o] = goal[r]
      BY <1>0, <1>2, <2>1, <2>4 DEF Write, TypeOK
    <3>2. goal[r] = "FAILED" => Hopeless(o)
      BY <1>0, <1>2, <2>4 DEF Write, At, KnowsOK
    <3>3. status'[o] \notin Unsubmitted
      BY <2>1, <3>1 DEF Unsubmitted, Statuses
    <3>4. QED
      BY <1>0, <1>1, <2>1, <3>1, <3>2, <3>3 DEF RowOK, Hopeless
  <2>5. QED BY <2>2, <2>3, <2>4
<1>3. CASE ~Write(r)
  <2>1. /\ hash'[o] = hash[o]
        /\ status'[o] \in Unsubmitted => status[o] \in Unsubmitted
        /\ status'[o] = "FAILED" => status[o] = "FAILED"
    BY <1>0, <1>3, RowStep
  <2>2. sent'[o] \in Nat /\ sent[o] <= sent'[o]
    <3>1. CASE Broadcast(r)
      BY <1>0, <3>1, BoundAssumption DEF Broadcast, TypeOK
    <3>2. CASE ~Broadcast(r)
      BY <1>0, <1>1, <3>2, RowStep
    <3>3. QED BY <3>1, <3>2
  <2>3. stale[o] => \A n \in 1..MaxBroadcasts : txs'[o][n] # "pending"
    <3>1. CASE Broadcast(r)
      <4>1. cur[r] \in Orders /\ ~stale[cur[r]]
        BY <1>0, <3>1 DEF Broadcast, At, ReplicaOK, Idle, KnowsOK
      <4>2. o # cur[r] => txs'[o] = txs[o]
        BY <1>0, <3>1, <4>1 DEF Broadcast, TypeOK
      <4>3. QED
        BY <1>0, <4>1, <4>2 DEF RowOK
    <3>2. CASE ~Broadcast(r)
      BY <1>0, <3>2, RowStep DEF RowOK
    <3>3. QED BY <3>1, <3>2
  <2>4. status'[o] = "FAILED" => Hopeless(o)'
    BY <1>0, <2>1, HopelessStays DEF RowOK
  <2>5. QED
    BY <1>0, <1>1, <2>1, <2>2, <2>3, <2>4 DEF RowOK
<1>4. QED
  BY <1>2, <1>3

\* The environment keeps them too: time passes only when nobody works on the
\* order and nothing is pending, and what the chain has refused stays refused.
LEMMA KeptEnvironment ==
    ASSUME OnceInv, Kept, Environment, RequireLocks, missed = 0
    PROVE  Kept'
<1>0. Inv /\ TypeOK
  BY DEF OnceInv, Inv
<1>1. ASSUME UNCHANGED <<db, chain, local>> PROVE Kept'
  BY <1>1 DEF Kept, RowOK, KnowsOK, Hopeless, db, chain, local
<1>2. ASSUME NEW o \in Orders, NEW n \in 1..MaxBroadcasts, Resolve(o, n) PROVE Kept'
  <2>1. PICK s \in {"success", "failed", "dropped"} : txs' = [txs EXCEPT ![o][n] = s]
    BY <1>2 DEF Resolve
  <2>2. /\ txs[o][n] = "pending"
        /\ UNCHANGED <<status, hash, stale, sent, misread, pc, role, cur, goal, reply>>
    BY <1>2 DEF Resolve, db, local
  <2>3. \A p \in Orders, m \in 1..MaxBroadcasts :
          /\ txs[p][m] \in {"failed", "dropped"} => txs'[p][m] = txs[p][m]
          /\ txs'[p][m] = "pending" => txs[p][m] = "pending"
    BY <1>0, <2>1, <2>2 DEF TypeOK
  <2>4. ASSUME NEW p \in Orders, Hopeless(p) PROVE Hopeless(p)'
    <3>1. hash[p] = 0 \/ hash[p] \in 1..MaxBroadcasts
      BY <1>0, BoundAssumption DEF TypeOK
    <3>2. QED
      BY <2>2, <2>3, <2>4, <3>1 DEF Hopeless
  <2>5. ASSUME NEW p \in Orders PROVE RowOK(p)'
    BY <2>2, <2>3, <2>4 DEF Kept, RowOK
  <2>6. ASSUME NEW q \in Replicas PROVE KnowsOK(q)'
    <3>1. KnowsOK(q) /\ ReplicaOK(q)
      BY <1>0 DEF Kept, Inv
    <3>2. pc[q] \in {"mark", "write"} /\ goal[q] = "FAILED" => Hopeless(cur[q])'
      <4>1. SUFFICES ASSUME pc[q] \in {"mark", "write"}, goal[q] = "FAILED"
                     PROVE  Hopeless(cur[q])'
        OBVIOUS
      <4>2. PICK p \in Orders : p = cur[q] /\ Hopeless(p)
        BY <3>1, <4>1 DEF ReplicaOK, KnowsOK, Idle
      <4>3. Hopeless(p)'
        BY <2>4, <4>2
      <4>4. QED
        BY <2>2, <4>2, <4>3 DEF Hopeless
    <3>3. QED
      BY <2>2, <3>1, <3>2 DEF KnowsOK
  <2>7. QED
    BY <2>5, <2>6 DEF Kept
<1>3. ASSUME NEW o \in Orders, Age(o) PROVE Kept'
  <2>1. /\ \A q \in Replicas : ~Busy(q, o)
        /\ \A n \in 1..MaxBroadcasts : txs[o][n] # "pending"
        /\ stale' = [stale EXCEPT ![o] = TRUE]
        /\ UNCHANGED <<status, hash, sent, txs, misread, pc, role, cur, goal, reply>>
    BY <1>3 DEF Age, chain, local
  <2>2. \A p \in Orders : RowOK(p)'
    BY <1>0, <2>1 DEF Kept, RowOK, Hopeless, TypeOK
  <2>3. ASSUME NEW q \in Replicas PROVE KnowsOK(q)'
    <3>1. KnowsOK(q) /\ ReplicaOK(q)
      BY <1>0 DEF Kept, Inv
    <3>2. pc[q] \in {"signed", "mark", "write"} => cur[q] # o /\ cur[q] \in Orders
      BY <2>1, <3>1 DEF Busy, ReplicaOK, Idle
    <3>3. pc[q] \in {"signed", "mark", "write"} => stale'[cur[q]] = stale[cur[q]]
      BY <1>0, <2>1, <3>2 DEF TypeOK
    <3>4. QED
      BY <2>1, <3>1, <3>3 DEF KnowsOK, Hopeless
  <2>4. QED
    BY <2>2, <2>3 DEF Kept
<1>4. ASSUME NEW r \in Replicas, Crash(r) PROVE Kept'
  <2>1. /\ UNCHANGED <<status, hash, stale, sent, txs, misread>> /\ pc'[r] = "settle"
        /\ \A q \in Replicas : q # r =>
              /\ pc'[q] = pc[q] /\ role'[q] = role[q] /\ cur'[q] = cur[q]
              /\ goal'[q] = goal[q] /\ reply'[q] = reply[q]
    BY <1>0, <1>4 DEF Crash, Go, TypeOK, db, chain
  <2>2. \A p \in Orders : RowOK(p)'
    BY <2>1 DEF Kept, RowOK, Hopeless
  <2>3. \A q \in Replicas : KnowsOK(q)'
    BY <2>1 DEF Kept, KnowsOK, Hopeless
  <2>4. QED
    BY <2>2, <2>3 DEF Kept
<1>5. QED
  BY <1>1, <1>2, <1>3, <1>4 DEF Environment, Heartbeat, Expire

\* What is on record is kept in every reachable state.
LEMMA KeptInvariant == Spec => []KeptInv
<1>1. Init /\ OnceInv => KeptInv
  <2> SUFFICES ASSUME Init, OnceInv PROVE Kept
    BY DEF KeptInv
  <2>1. \A o \in Orders : /\ hash[o] = 0 /\ sent[o] = 0 /\ status[o] = "NONE" /\ ~stale[o]
    BY DEF Init
  <2>2. \A r \in Replicas : pc[r] = "settle"
    BY DEF Init
  <2>3. QED
    BY <2>1, <2>2 DEF Kept, RowOK, KnowsOK
<1>2. KeptInv /\ OnceInv' /\ [Next]_vars => KeptInv'
  <2> SUFFICES ASSUME KeptInv, OnceInv', [Next]_vars, RequireLocks, missed' = 0
               PROVE  Kept'
    BY DEF KeptInv
  <2>1. OnceInv /\ missed = 0 /\ Kept
    <3>1. [LocksNext]_locks /\ LocksTypeOK
      BY LocksSimulate DEF KeptInv, OnceInv, Inv, TypeOK
    <3>2. missed = 0
      BY <3>1 DEF LocksNext, Lock, LockFails, Unlock, RenewFails, RenewThrows, Forget,
         KeyExpires, locks, LocksTypeOK
    <3>3. QED
      BY <3>2 DEF KeptInv
  <2>2. ASSUME NEW r \in Replicas, Replica(r) PROVE Kept'
    <3>1. \A o \in Orders : RowOK(o)'
      BY <2>1, <2>2, RowsKept
    <3>2. ASSUME NEW q \in Replicas PROVE KnowsOK(q)'
      BY <2>1, <2>2, KnowsStep, KnowsOthers
    <3>3. QED
      BY <3>1, <3>2 DEF Kept
  <2>3. CASE Environment
    BY <2>1, <2>3, KeptEnvironment
  <2>4. CASE UNCHANGED vars
    BY <2>1, <2>4 DEF Kept, RowOK, KnowsOK, Hopeless, vars, db, chain, local
  <2>5. QED
    BY <2>2, <2>3, <2>4 DEF Next
<1>3. QED
  BY <1>1, <1>2, OnceInvariant, PTL DEF Spec

\* With locks required and renewed in time, a settlement whose hash was recorded
\* (markSubmitted, settlements.service.ts:231) is marked FAILED only when the
\* chain has refused or dropped that transaction, for any number of replicas,
\* wherever they crash and whatever the database, Redis and the network throw;
\* the only exception is an exception of the status query, which the daemon
\* takes for a failure (confirmation.service.ts:55).
THEOREM RecordedIsKept == Spec => [](RequireLocks => RecordedPayoutKept)
<1>1. KeptInv => (RequireLocks => RecordedPayoutKept)
  BY DEF KeptInv, Kept, RowOK, Hopeless, RecordedPayoutKept
<1>2. QED
  BY <1>1, KeptInvariant, PTL

-----------------------------------------------------------------------------
(* One replica that neither crashes nor is misled by its RPC node or left  *)
(* alone by its database releases only what was not and will not be paid,  *)
(* and settlement keeps the promise of Payout.  With a second replica, a   *)
(* crash, a lost reply, an RPC exception or two exceptions of the database *)
(* after a broadcast, any one of them, TLC refutes it.                     *)
(*                                                                         *)
(* The argument is that a sequential replica knows what it broadcast.  The *)
(* recorded hash is the transaction that was sent, except between          *)
(* sendTransaction and markSubmitted; a status before SUBMITTED means that *)
(* nothing was sent; and a replica that is about to write FAILED has seen  *)
(* a transaction that can no longer succeed, or has sent none.             *)

\* One worker process, no crash, a database that does not throw, and an RPC node
\* that answers what it knows.
Alone ==
    /\ \E r : Replicas = {r}
    /\ MaxCrashes = 0 /\ ~RpcFaults /\ ~LostReplies /\ ~DbFaults

\* No transaction of the order has succeeded or still may.
Dead(o) == \A n \in 1..MaxBroadcasts : txs[o][n] \notin {"success", "pending"}

\* The replica has a hash that it has yet to record.
Submits(r, o) == cur[r] = o /\ pc[r] \in {"mark", "write"} /\ goal[r] = "SUBMITTED"

\* What the books say of an order.
OrderOK(r, o) ==
    /\ sent[o] <= 1
    /\ \/ hash[o] = sent[o] /\ (status[o] \in {"NONE", "PENDING", "SUBMITTING"} => sent[o] = 0)
       \/ Submits(r, o)
    /\ stale[o] => \A n \in 1..MaxBroadcasts : txs[o][n] # "pending"
    /\ status[o] = "FAILED" \/ reservation[o] = "CANCELLED_RELEASED" => Dead(o)

\* What the replica knows at each step.
WorkOK(r) ==
    /\ role[r] # "daemon" => \A o \in todo[r] : Fresh(o)
    /\ pc[r] \in {"acquire", "locked", "submitting"} => status[cur[r]] = "PENDING"
    /\ pc[r] \in {"flow", "prepare", "signed"} => status[cur[r]] = "SUBMITTING"
    /\ pc[r] = "signed" => ~stale[cur[r]] /\ reservation[cur[r]] = "CONFIRMED"
    /\ pc[r] \in {"mark", "write"} =>
         /\ goal[r] # "SUBMITTING"
         /\ goal[r] = "FAILED" => Dead(cur[r])
         /\ goal[r] = "SUBMITTED" => /\ status[cur[r]] = "SUBMITTING"
                                     /\ sent[cur[r]] = 1 /\ hash[cur[r]] = 0 /\ reply[r] = 1
    /\ pc[r] \in {"release", "failOrder"} => Dead(cur[r])
    /\ pc[r] = "query" => reply[r] = hash[cur[r]]

SoleOK(r) == WorkOK(r) /\ \A o \in Orders : OrderOK(r, o)

\* Without a broadcast the order is dead.
LEMMA UnsentIsDead ==
    ASSUME Inv, NEW o \in Orders, sent[o] = 0
    PROVE  Dead(o)
BY DEF Inv, ChainOK, Dead

\* The fate of the only transaction is the fate of the order.
LEMMA OnlyOneSent ==
    ASSUME Inv, NEW o \in Orders, sent[o] = 1, 1 \in 1..MaxBroadcasts,
           txs[o][1] \notin {"success", "pending"}
    PROVE  Dead(o)
<1>1. ASSUME NEW n \in 1..MaxBroadcasts, n # 1 PROVE txs[o][n] = "none"
  BY <1>1, BoundAssumption DEF Inv, ChainOK
<1>2. QED
  BY <1>1 DEF Dead

\* A step that touches neither the books nor the chain, nor forgets a hash.
LEMMA BooksKept ==
    ASSUME NEW r \in Replicas, \A o \in Orders : OrderOK(r, o),
           UNCHANGED <<reservation, status, hash, stale, sent, txs>>,
           \A o \in Orders : Submits(r, o) => Submits(r, o)'
    PROVE  \A o \in Orders : OrderOK(r, o)'
BY DEF OrderOK, Dead

\* Every step of the sweep but Broadcast keeps what the replica knows.
LEMMA SoleWorker ==
    ASSUME Inv, NEW r \in Replicas, RoleOK(r), SoleOK(r), Worker(r), ~Broadcast(r)
    PROVE  SoleOK(r)'
<1>0. /\ TypeOK /\ ReplicaOK(r) /\ RoleOK(r) /\ WorkOK(r)
      /\ \A o \in Orders : OrderOK(r, o)
  BY DEF Inv, SoleOK
<1> USE DEF TypeOK, WorkOK, Fresh, Idle, db, chain, At, Go
<1>1. ASSUME UNCHANGED <<reservation, status, hash, stale, sent, txs>>,
             pc[r] \notin {"mark", "write"}, WorkOK(r)'
      PROVE  SoleOK(r)'
  BY <1>0, <1>1, BooksKept DEF SoleOK, Submits
<1>2. CASE processPendingOrders(r)
  <2>1. WorkOK(r)'
    BY <1>0, <1>2 DEF processPendingOrders, BeginSweep, SkipSweep, EndSweep, Eligible
  <2>2. QED
    BY <1>1, <1>2, <2>1 DEF processPendingOrders, BeginSweep, SkipSweep, EndSweep
<1>3. CASE createSettlementForOrder(r)
  <2>1. PICK o \in todo[r] :
          /\ todo' = [todo EXCEPT ![r] = @ \ {o}]
          /\ cur' = [cur EXCEPT ![r] = o]
          /\ status' = [status EXCEPT ![o] = IF @ = "NONE" THEN "PENDING" ELSE @]
    BY <1>3 DEF createSettlementForOrder
  <2>2. o \in Orders /\ Fresh(o) /\ status'[o] = "PENDING"
    BY <1>0, <1>3, <2>1 DEF createSettlementForOrder, RoleOK, DaemonSteps, SharedSteps
  <2>3. /\ pc'[r] = "acquire" /\ role'[r] = "worker" /\ cur'[r] = o
        /\ todo'[r] \subseteq todo[r] /\ role[r] # "daemon"
        /\ UNCHANGED <<reservation, hash, stale, sent, txs>>
    BY <1>0, <1>3, <2>1 DEF createSettlementForOrder, RoleOK, DaemonSteps, SharedSteps
  <2>4. \A p \in Orders : p # o => status'[p] = status[p]
    BY <1>0, <2>1
  <2>5. WorkOK(r)'
    BY <1>0, <2>2, <2>3, <2>4
  <2>6. \A p \in Orders : ~Submits(r, p)
    BY <1>3 DEF createSettlementForOrder, Submits
  <2>7. ASSUME NEW p \in Orders PROVE OrderOK(r, p)'
    <3>1. OrderOK(r, p) /\ ~Submits(r, p)
      BY <1>0, <2>6
    <3>2. CASE p = o
      BY <2>2, <2>3, <3>1, <3>2 DEF OrderOK, Dead
    <3>3. CASE p # o
      BY <2>3, <2>4, <3>1, <3>3 DEF OrderOK, Dead
    <3>4. QED BY <3>2, <3>3
  <2>8. QED
    BY <2>5, <2>7 DEF SoleOK
<1>4. CASE AcquireSettlementLock(r)
  BY <1>0, <1>1, <1>4 DEF AcquireSettlementLock
<1>5. CASE AcquireTimesOut(r)
  BY <1>0, <1>1, <1>5 DEF AcquireTimesOut
<1>6. CASE ReadUnderLock(r)
  BY <1>0, <1>1, <1>6 DEF ReadUnderLock
<1>7. CASE markSubmitting(r)
  <2>1. cur[r] \in Orders /\ cur[r] \notin todo[r] /\ status[cur[r]] = "PENDING"
    BY <1>0, <1>7 DEF markSubmitting, ReplicaOK, RoleOK
  <2>2. canTransition(status[cur[r]], "SUBMITTING")
    BY <2>1 DEF canTransition, allowedTransitions, Statuses
  <2>3. /\ status' = [status EXCEPT ![cur[r]] = "SUBMITTING"] /\ pc'[r] = "flow"
        /\ UNCHANGED <<reservation, hash, stale, sent, txs, role, todo, cur>>
    BY <1>0, <1>7, <2>2 DEF markSubmitting
  <2>4. WorkOK(r)'
    BY <1>0, <2>1, <2>3
  <2>5. \A p \in Orders : OrderOK(r, p)'
    BY <1>0, <1>7, <2>1, <2>3 DEF markSubmitting, OrderOK, Dead, Submits
  <2>6. QED
    BY <2>4, <2>5 DEF SoleOK
<1>8. CASE ReleaseSettlementLock(r)
  BY <1>0, <1>1, <1>8 DEF ReleaseSettlementLock
<1>9. CASE CatchError(r)
  <2>1. cur[r] \in Orders /\ OrderOK(r, cur[r]) /\ ~Submits(r, cur[r])
    BY <1>0, <1>9 DEF CatchError, ReplicaOK, Submits
  <2>2. status[cur[r]] \in {"PENDING", "SUBMITTING", "FAILED"} => Dead(cur[r])
    BY <2>1, UnsentIsDead DEF OrderOK
  <2>3. WorkOK(r)'
    BY <1>0, <1>9, <2>2 DEF CatchError, MarkAs, RoleOK, DaemonSteps, SharedSteps, Dead
  <2>4. QED
    BY <1>1, <1>9, <2>3 DEF CatchError
<1>10. CASE ReverifyRow(r)
  <2>1. cur[r] \in Orders /\ OrderOK(r, cur[r]) /\ ~Submits(r, cur[r])
    BY <1>0, <1>10 DEF ReverifyRow, ReplicaOK, Submits
  <2>2. hash[cur[r]] = 0
    BY <1>0, <1>10, <2>1 DEF ReverifyRow, OrderOK
  <2>3. WorkOK(r)'
    BY <1>0, <1>10, <2>2 DEF ReverifyRow, Throw, RoleOK, DaemonSteps, SharedSteps
  <2>4. QED
    BY <1>1, <1>10, <2>3 DEF ReverifyRow
<1>11. CASE validateAndApprove(r)
  BY <1>0, <1>1, <1>11 DEF validateAndApprove
<1>12. CASE RefuseToSign(r)
  <2>1. cur[r] \in Orders /\ OrderOK(r, cur[r]) /\ ~Submits(r, cur[r])
    BY <1>0, <1>12 DEF RefuseToSign, ReplicaOK, Submits
  <2>2. Dead(cur[r])
    BY <1>0, <1>12, <2>1, UnsentIsDead DEF RefuseToSign, OrderOK
  <2>3. WorkOK(r)'
    BY <1>0, <1>12, <2>2 DEF RefuseToSign, MarkAs, Dead
  <2>4. QED
    BY <1>1, <1>12, <2>3 DEF RefuseToSign
<1>13. CASE BroadcastFails(r)
  BY <1>0, <1>1, <1>13 DEF BroadcastFails, MarkAs
<1>14. CASE Confirmed(r)
  BY <1>0, <1>1, <1>14 DEF Confirmed, MarkAs
<1>15. CASE NotConfirmed(r)
  BY <1>0, <1>1, <1>15 DEF NotConfirmed, MarkAs
<1>16. QED
  BY <1>2, <1>3, <1>4, <1>5, <1>6, <1>7, <1>8, <1>9, <1>10, <1>11, <1>12, <1>13, <1>14,
     <1>15 DEF Worker

\* Broadcast: the hash that comes back is the only one there is.
LEMMA SoleBroadcast ==
    ASSUME Alone, Inv, NEW r \in Replicas, RoleOK(r), SoleOK(r), Broadcast(r)
    PROVE  SoleOK(r)'
<1>0. /\ TypeOK /\ ReplicaOK(r) /\ RoleOK(r) /\ WorkOK(r)
      /\ \A o \in Orders : OrderOK(r, o)
  BY DEF Inv, SoleOK
<1>1. PICK o \in Orders : o = cur[r] /\ o \notin todo[r]
  BY <1>0 DEF Broadcast, At, ReplicaOK, RoleOK, Idle
<1>2. status[o] = "SUBMITTING" /\ ~stale[o] /\ reservation[o] = "CONFIRMED"
  BY <1>0, <1>1 DEF Broadcast, At, WorkOK
<1>3. sent[o] = 0 /\ hash[o] = 0
  BY <1>0, <1>1, <1>2 DEF Broadcast, At, OrderOK, Submits
<1>4. /\ sent' = [sent EXCEPT ![o] = 1] /\ txs' = [txs EXCEPT ![o][1] = "pending"]
      /\ MarkAs(r, "SUBMITTED") /\ reply' = [reply EXCEPT ![r] = 1]
      /\ UNCHANGED <<reservation, status, hash, stale, role, todo, cur>>
  BY <1>1, <1>3 DEF Broadcast, Alone, db
<1>5. /\ pc'[r] = "mark" /\ goal'[r] = "SUBMITTED" /\ reply'[r] = 1 /\ sent'[o] = 1
      /\ \A p \in Orders : p # o => sent'[p] = sent[p] /\ txs'[p] = txs[p]
  BY <1>0, <1>4, BoundAssumption DEF MarkAs, Go, TypeOK
<1>6. WorkOK(r)'
  BY <1>0, <1>1, <1>2, <1>3, <1>4, <1>5 DEF WorkOK, Fresh
<1>7. ASSUME NEW p \in Orders PROVE OrderOK(r, p)'
  <2>1. CASE p = o
    BY <1>1, <1>2, <1>4, <1>5, <2>1 DEF OrderOK, Submits
  <2>2. CASE p # o
    <3>1. ~Submits(r, p)
      BY <1>1, <2>2 DEF Submits
    <3>2. QED
      BY <1>0, <1>4, <1>5, <2>2, <3>1 DEF OrderOK, Dead
  <2>3. QED BY <2>1, <2>2
<1>8. QED
  BY <1>6, <1>7 DEF SoleOK

\* The daemon fails a settlement only when its transaction is dead.
LEMMA SoleDaemon ==
    ASSUME Alone, Inv, NEW r \in Replicas, RoleOK(r), SoleOK(r), Daemon(r)
    PROVE  SoleOK(r)'
<1>0. /\ TypeOK /\ ReplicaOK(r) /\ RoleOK(r) /\ WorkOK(r)
      /\ \A o \in Orders : OrderOK(r, o)
  BY DEF Inv, SoleOK
<1> USE DEF TypeOK, WorkOK, Fresh, Idle, db, chain, At, Go
<1>1. ASSUME UNCHANGED <<reservation, status, hash, stale, sent, txs>>,
             pc[r] \notin {"mark", "write"}, WorkOK(r)'
      PROVE  SoleOK(r)'
  BY <1>0, <1>1, BooksKept DEF SoleOK, Submits
<1>2. CASE processReconciliation(r)
  <2>1. WorkOK(r)'
    BY <1>0, <1>2 DEF processReconciliation, BeginSweep, SkipSweep, EndSweep
  <2>2. QED
    BY <1>1, <1>2, <2>1 DEF processReconciliation, BeginSweep, SkipSweep, EndSweep
<1>3. CASE reconcileSingleSettlement(r)
  <2>1. PICK o \in todo[r] :
          /\ cur' = [cur EXCEPT ![r] = o]
          /\ reply' = [reply EXCEPT ![r] = hash[o]]
          /\ \/ hash[o] # 0 /\ Go(r, "query") /\ UNCHANGED goal
             \/ hash[o] = 0 /\ MarkAs(r, IF stale[o] THEN "FAILED"
                                                     ELSE "REQUIRES_RECONCILIATION")
    BY <1>3 DEF reconcileSingleSettlement
  <2>2. /\ o \in Orders /\ role[r] = "daemon" /\ cur'[r] = o /\ reply'[r] = hash[o]
        /\ UNCHANGED <<reservation, status, hash, stale, sent, txs, role>>
    BY <1>0, <1>3, <2>1 DEF reconcileSingleSettlement, RoleOK, DaemonSteps
  <2>3. hash[o] = 0 => Dead(o)
    BY <1>0, <1>3, <2>2, UnsentIsDead DEF reconcileSingleSettlement, OrderOK, Submits
  <2>4. WorkOK(r)'
    BY <1>0, <2>1, <2>2, <2>3 DEF MarkAs, Dead
  <2>5. QED
    BY <1>1, <1>3, <2>2, <2>4 DEF reconcileSingleSettlement
<1>4. CASE QueryChain(r)
  <2>1. PICK o \in Orders : o = cur[r]
    BY <1>0, <1>4 DEF QueryChain, ReplicaOK
  <2>2. reply[r] = 1 /\ sent[o] = 1 /\ 1 \in 1..MaxBroadcasts
    BY <1>0, <1>4, <2>1, BoundAssumption DEF QueryChain, ReplicaOK, OrderOK, Submits
  <2>3. /\ txs[o][1] = "failed" => Dead(o)
        /\ txs[o][1] \in {"pending", "dropped"} /\ stale[o] => Dead(o)
    BY <1>0, <2>2, OnlyOneSent DEF OrderOK
  <2>4. role[r] = "daemon" /\ UNCHANGED <<reservation, status, hash, stale, sent, txs, role, cur>>
    BY <1>0, <1>4 DEF QueryChain, RoleOK, DaemonSteps
  <2>5. WorkOK(r)'
    BY <1>0, <1>4, <2>1, <2>2, <2>3, <2>4 DEF QueryChain, MarkAs, Done, Dead
  <2>6. QED
    BY <1>1, <1>4, <2>4, <2>5 DEF QueryChain
<1>5. CASE QueryThrows(r)
  BY <1>5 DEF QueryThrows, Alone
<1>6. CASE releaseReservation(r)
  <2>1. PICK o \in Orders : o = cur[r] /\ Dead(o)
    BY <1>0, <1>6 DEF releaseReservation, ReplicaOK
  <2>2. /\ pc'[r] = "failOrder" /\ role[r] = "daemon"
        /\ \A p \in Orders : p # o => reservation'[p] = reservation[p]
        /\ UNCHANGED <<status, hash, stale, sent, txs, role, cur>>
    BY <1>0, <1>6, <2>1 DEF releaseReservation, RoleOK, DaemonSteps
  <2>3. WorkOK(r)'
    BY <2>1, <2>2 DEF Dead
  <2>4. ASSUME NEW p \in Orders PROVE OrderOK(r, p)'
    <3>1. OrderOK(r, p) /\ ~Submits(r, p)
      BY <1>0, <1>6 DEF releaseReservation, Submits
    <3>2. CASE p = o
      BY <2>1, <2>2, <3>1, <3>2 DEF OrderOK, Dead
    <3>3. CASE p # o
      BY <2>2, <3>1, <3>3 DEF OrderOK, Dead
    <3>4. QED BY <3>2, <3>3
  <2>5. QED
    BY <2>3, <2>4 DEF SoleOK
<1>7. CASE FailOrder(r)
  <2>1. WorkOK(r)'
    BY <1>0, <1>7 DEF FailOrder, Done, RoleOK, DaemonSteps
  <2>2. QED
    BY <1>1, <1>7, <2>1 DEF FailOrder
<1>8. QED
  BY <1>2, <1>3, <1>4, <1>5, <1>6, <1>7 DEF Daemon

\* What a replica is about to mark is written only over a status it may replace.
LEMMA SoleMark ==
    ASSUME Inv, NEW r \in Replicas, RoleOK(r), SoleOK(r), Mark(r)
    PROVE  SoleOK(r)'
<1>0. /\ TypeOK /\ ReplicaOK(r) /\ RoleOK(r) /\ WorkOK(r)
      /\ \A o \in Orders : OrderOK(r, o)
  BY DEF Inv, SoleOK
<1>1. PICK o \in Orders : o = cur[r] /\ o \notin todo[r]
  BY <1>0 DEF Mark, Validate, Write, consumeReservation, At, ReplicaOK, RoleOK, Idle
<1> USE DEF TypeOK, Idle, At, Go
<1>2. CASE Validate(r)
  <2>1. UNCHANGED <<reservation, status, hash, stale, sent, txs, cur, goal, reply>>
    BY <1>2 DEF Validate, db, chain
  <2>2. /\ pc'[r] = "write" \/ (goal[r] # "SUBMITTED" /\ pc'[r] \in {"unlock", "sweep", "daemon"})
        /\ todo'[r] \subseteq todo[r]
        /\ role'[r] # "daemon" => role[r] # "daemon"
    <3>1. goal[r] = "SUBMITTED" => canTransition(status[cur[r]], goal[r])
      BY <1>0, <1>2 DEF Validate, WorkOK, canTransition, allowedTransitions, Statuses
    <3>2. QED
      BY <1>0, <1>2, <3>1 DEF Validate, Throw, Done
  <2>3. WorkOK(r)'
    BY <1>0, <1>2, <2>1, <2>2 DEF Validate, WorkOK, Fresh, Dead
  <2>4. \A p \in Orders : Submits(r, p) => Submits(r, p)'
    BY <2>1, <2>2 DEF Submits
  <2>5. QED
    BY <1>0, <2>1, <2>3, <2>4, BooksKept DEF SoleOK
<1>3. CASE Write(r)
  <2>1. /\ pc[r] = "write" /\ goal[r] \in Statuses \ {"PENDING", "SUBMITTING"}
        /\ status' = [status EXCEPT ![o] = goal[r]]
        /\ hash' = [hash EXCEPT ![o] = IF goal[r] = "SUBMITTED" THEN reply[r] ELSE @]
        /\ UNCHANGED <<reservation, stale, sent, txs, role, todo, cur>>
    BY <1>0, <1>1, <1>3 DEF Write, RoleOK, WorkOK, chain
  <2>2. /\ status'[o] = goal[r] /\ hash'[o] = IF goal[r] = "SUBMITTED" THEN reply[r] ELSE hash[o]
        /\ \A p \in Orders : p # o => status'[p] = status[p] /\ hash'[p] = hash[p]
    BY <1>0, <2>1
  <2>3. /\ pc'[r] \in {"mark", "confirm", "consume", "release", "unlock", "sweep", "daemon"}
        /\ pc'[r] = "mark" => goal'[r] = "CONFIRMING"
        /\ pc'[r] = "release" => goal[r] = "FAILED"
    BY <1>0, <1>3 DEF Write, MarkAs, Done
  <2>4. goal[r] = "FAILED" => Dead(o)
    BY <1>0, <1>1, <2>1 DEF WorkOK
  <2>5. WorkOK(r)'
    BY <1>0, <1>1, <2>1, <2>2, <2>3, <2>4 DEF WorkOK, Fresh, Dead
  <2>6. ASSUME NEW p \in Orders PROVE OrderOK(r, p)'
    <3>1. CASE p = o
      <4>1. sent[o] <= 1 /\ hash'[o] = sent[o]
        BY <1>0, <1>1, <2>1, <2>2 DEF OrderOK, WorkOK, Submits
      <4>2. status'[o] \notin {"NONE", "PENDING", "SUBMITTING"}
        BY <2>1, <2>2 DEF Statuses
      <4>3. /\ stale[o] => \A n \in 1..MaxBroadcasts : txs[o][n] # "pending"
            /\ status'[o] = "FAILED" \/ reservation[o] = "CANCELLED_RELEASED" => Dead(o)
        BY <1>0, <2>2, <2>4 DEF OrderOK
      <4>4. QED
        BY <2>1, <3>1, <4>1, <4>2, <4>3 DEF OrderOK, Dead
    <3>2. CASE p # o
      <4>1. ~Submits(r, p)
        BY <1>1, <3>2 DEF Submits
      <4>2. QED
        BY <1>0, <2>1, <2>2, <3>2, <4>1 DEF OrderOK, Dead
    <3>3. QED BY <3>1, <3>2
  <2>7. QED
    BY <2>5, <2>6 DEF SoleOK
<1>4. CASE consumeReservation(r)
  <2>1. /\ pc[r] = "consume" /\ pc'[r] \in {"unlock", "sweep", "daemon"}
        /\ \A p \in Orders : reservation'[p] = "CANCELLED_RELEASED" =>
                                 reservation[p] = "CANCELLED_RELEASED"
        /\ UNCHANGED <<status, hash, stale, sent, txs, role, todo, cur>>
    BY <1>0, <1>4 DEF consumeReservation, Done, chain
  <2>2. WorkOK(r)'
    BY <1>0, <2>1 DEF WorkOK, Fresh
  <2>3. \A p \in Orders : OrderOK(r, p)'
    BY <1>0, <2>1 DEF OrderOK, Submits, Dead
  <2>4. QED
    BY <2>2, <2>3 DEF SoleOK
<1>5. QED
  BY <1>2, <1>3, <1>4 DEF Mark

\* The network resolves what is pending, time passes when nobody works on the
\* order, and nothing crashes.
LEMMA SoleEnvironment ==
    ASSUME Alone, Inv, NEW r \in Replicas, SoleOK(r), Environment
    PROVE  SoleOK(r)'
<1>0. /\ TypeOK /\ ReplicaOK(r) /\ WorkOK(r) /\ \A o \in Orders : OrderOK(r, o)
  BY DEF Inv, SoleOK
<1>1. ASSUME UNCHANGED <<db, chain, local>> PROVE SoleOK(r)'
  <2>1. UNCHANGED <<reservation, status, hash, stale, sent, txs, pc, role, todo, cur, goal,
                    reply>>
    BY <1>1 DEF db, chain, local
  <2>2. WorkOK(r)'
    BY <1>0, <2>1 DEF WorkOK, Fresh, Dead
  <2>3. \A o \in Orders : Submits(r, o) => Submits(r, o)'
    BY <2>1 DEF Submits
  <2>4. QED
    BY <1>0, <2>1, <2>2, <2>3, BooksKept DEF SoleOK
<1>2. ASSUME NEW o \in Orders, NEW n \in 1..MaxBroadcasts, Resolve(o, n) PROVE SoleOK(r)'
  <2>1. PICK s \in {"success", "failed", "dropped"} : txs' = [txs EXCEPT ![o][n] = s]
    BY <1>2 DEF Resolve
  <2>2. /\ txs[o][n] = "pending" /\ \A p \in Orders : p # o => txs'[p] = txs[p]
        /\ \A m \in 1..MaxBroadcasts : txs'[o][m] = "pending" => txs[o][m] = "pending"
        /\ UNCHANGED <<reservation, status, hash, stale, sent, pc, role, todo, cur, goal, reply>>
    BY <1>0, <1>2, <2>1 DEF Resolve, TypeOK, db, local
  <2>3. \A p \in Orders : Dead(p) => Dead(p)'
    BY <2>2 DEF Dead
  <2>4. pc[r] \notin Idle => cur[r] \in Orders /\ (Dead(cur[r]) => Dead(cur[r])')
    BY <1>0, <2>2, <2>3 DEF ReplicaOK, Dead
  <2>5. WorkOK(r)'
    BY <1>0, <2>2, <2>4 DEF WorkOK, Fresh, Idle
  <2>6. ASSUME NEW p \in Orders PROVE OrderOK(r, p)'
    <3>1. OrderOK(r, p) /\ (Submits(r, p) => Submits(r, p)') /\ (Dead(p) => Dead(p)')
      BY <1>0, <2>2, <2>3 DEF Submits
    <3>2. stale[p] => \A m \in 1..MaxBroadcasts : txs'[p][m] # "pending"
      BY <2>2, <3>1 DEF OrderOK
    <3>3. QED
      BY <2>2, <3>1, <3>2 DEF OrderOK
  <2>7. QED
    BY <2>5, <2>6 DEF SoleOK
<1>3. ASSUME NEW o \in Orders, Age(o) PROVE SoleOK(r)'
  <2>1. /\ ~Busy(r, o) /\ \A n \in 1..MaxBroadcasts : txs[o][n] # "pending"
        /\ stale' = [stale EXCEPT ![o] = TRUE]
        /\ UNCHANGED <<reservation, status, hash, sent, txs, pc, role, todo, cur, goal, reply>>
    BY <1>3 DEF Age, chain, local
  <2>2. pc[r] = "signed" => cur[r] # o /\ stale'[cur[r]] = stale[cur[r]]
    BY <1>0, <2>1 DEF Busy, TypeOK, ReplicaOK, Idle
  <2>3. WorkOK(r)'
    BY <1>0, <2>1, <2>2 DEF WorkOK, Fresh, Dead
  <2>4. ASSUME NEW p \in Orders PROVE OrderOK(r, p)'
    BY <1>0, <2>1 DEF OrderOK, Submits, Dead, TypeOK
  <2>5. QED
    BY <2>3, <2>4 DEF SoleOK
<1>4. ASSUME NEW q \in Replicas, Crash(q) PROVE FALSE
  BY <1>0, <1>4 DEF Alone, Crash, TypeOK
<1>5. QED
  BY <1>1, <1>2, <1>3, <1>4 DEF Environment, Heartbeat, Expire

\* The books of a lone replica are in order in every reachable state.
LEMMA SoleInvariant ==
    ASSUME Alone
    PROVE  Spec => [](\A r \in Replicas : SoleOK(r))
<1>1. Init => \A r \in Replicas : SoleOK(r)
  <2> SUFFICES ASSUME Init, NEW r \in Replicas PROVE SoleOK(r)
    OBVIOUS
  <2>1. pc[r] = "settle" /\ todo[r] = {}
    BY DEF Init
  <2>2. \A o \in Orders : /\ sent[o] = 0 /\ hash[o] = 0 /\ status[o] = "NONE" /\ ~stale[o]
                          /\ reservation[o] = "CONFIRMED"
    BY DEF Init
  <2>3. WorkOK(r)
    BY <2>1 DEF WorkOK
  <2>4. \A o \in Orders : OrderOK(r, o)
    BY <2>2 DEF OrderOK
  <2>5. QED
    BY <2>3, <2>4 DEF SoleOK
<1>2. OnceInv /\ (\A r \in Replicas : SoleOK(r)) /\ [Next]_vars
          => (\A r \in Replicas : SoleOK(r))'
  <2> SUFFICES ASSUME OnceInv, \A r \in Replicas : SoleOK(r), [Next]_vars,
                      NEW r \in Replicas
               PROVE  SoleOK(r)'
    OBVIOUS
  <2>1. Inv /\ RoleOK(r) /\ SoleOK(r)
    BY DEF OnceInv
  <2>2. CASE Replica(r)
    BY <2>1, <2>2, SoleWorker, SoleBroadcast, SoleDaemon, SoleMark
       DEF Replica, DbThrows, Alone
  <2>3. CASE Environment
    BY <2>1, <2>3, SoleEnvironment
  <2>4. CASE UNCHANGED vars
    <3>1. UNCHANGED <<reservation, status, hash, stale, sent, txs, pc, role, todo, cur, goal,
                      reply>>
      BY <2>4 DEF vars, db, chain, local
    <3>2. QED
      BY <2>1, <3>1 DEF SoleOK, WorkOK, OrderOK, Fresh, Dead, Submits
  <2>5. \A q \in Replicas : q = r
    BY DEF Alone
  <2>6. QED
    BY <2>2, <2>3, <2>4, <2>5 DEF Next
<1>3. QED
  BY <1>1, <1>2, OnceInvariant, PTL DEF Spec

-----------------------------------------------------------------------------
(* The lone replica keeps the promise of Payout.                           *)

\* What Payout calls the claim of an order.
ClaimOf(o) == CASE reservation[o] = "CONFIRMED" -> "held"
                [] reservation[o] = "CONSUMED" -> "spent"
                [] OTHER -> "returned"

\* A step in which no order becomes paid and no reservation moves is a stutter
\* of Payout.
LEMMA PayoutStutters ==
    ASSUME \A o \in Orders : (Paid(o)' <=> Paid(o)) /\ reservation'[o] = reservation[o]
    PROVE  UNCHANGED Vault!vars
<1>1. {o \in Orders : Paid(o)'} = {o \in Orders : Paid(o)}
  OBVIOUS
<1>2. [o \in Orders |-> ClaimOf(o)'] = [o \in Orders |-> ClaimOf(o)]
  BY DEF ClaimOf
<1>3. QED
  BY <1>1, <1>2 DEF Vault!vars, ClaimOf

\* A step in which the reservation of one order moves.
LEMMA PayoutClaims ==
    ASSUME TypeOK, NEW o \in Orders, NEW s, UNCHANGED txs,
           reservation' = [reservation EXCEPT ![o] = s], reservation[o] = "CONFIRMED",
           \/ s = "CONSUMED" /\ Paid(o)
           \/ s = "CANCELLED_RELEASED" /\ ~Paid(o)
    PROVE  Vault!Next
<1>1. {p \in Orders : Paid(p)'} = {p \in Orders : Paid(p)}
  BY DEF Paid
<1>2. reservation'[o] = s /\ \A p \in Orders : p # o => reservation'[p] = reservation[p]
  BY DEF TypeOK
<1>3. ClaimOf(o) = "held" /\ ClaimOf(o)' = IF s = "CONSUMED" THEN "spent" ELSE "returned"
  BY <1>2 DEF ClaimOf
<1>4. \A p \in Orders : p # o => ClaimOf(p)' = ClaimOf(p)
  BY <1>2 DEF ClaimOf
<1>5. [p \in Orders |-> ClaimOf(p)'] =
        [[p \in Orders |-> ClaimOf(p)] EXCEPT ![o] = IF s = "CONSUMED" THEN "spent"
                                                                     ELSE "returned"]
  BY <1>3, <1>4
<1>6. CASE s = "CONSUMED" /\ Paid(o)
  <2>1. Vault!Spend(o)
    BY <1>1, <1>3, <1>5, <1>6 DEF Vault!Spend, ClaimOf
  <2>2. QED BY <2>1 DEF Vault!Next
<1>7. CASE s = "CANCELLED_RELEASED" /\ ~Paid(o)
  <2>1. Vault!Return(o)
    BY <1>1, <1>3, <1>5, <1>7 DEF Vault!Return, ClaimOf
  <2>2. QED BY <2>1 DEF Vault!Next
<1>8. QED BY <1>6, <1>7

\* A step in which a transaction of an order succeeds.
LEMMA PayoutPays ==
    ASSUME TypeOK, NEW o \in Orders, UNCHANGED reservation, ~Paid(o), Paid(o)',
           \A p \in Orders : p # o => (Paid(p)' <=> Paid(p)),
           reservation[o] = "CONFIRMED"
    PROVE  Vault!Next
<1>1. {p \in Orders : Paid(p)'} = {p \in Orders : Paid(p)} \union {o}
  OBVIOUS
<1>2. [p \in Orders |-> ClaimOf(p)'] = [p \in Orders |-> ClaimOf(p)]
  BY DEF ClaimOf
<1>3. ClaimOf(o) = "held"
  BY DEF ClaimOf
<1>4. Vault!Pay(o)
  BY <1>1, <1>2, <1>3 DEF Vault!Pay, ClaimOf
<1>5. QED
  BY <1>4 DEF Vault!Next

\* A replica that does not broadcast leaves the chain alone, and only two of its
\* steps move a reservation.
LEMMA ReplicaTouches ==
    ASSUME NEW r \in Replicas, Replica(r)
    PROVE  /\ Broadcast(r) \/ UNCHANGED txs
           /\ consumeReservation(r) \/ releaseReservation(r) \/ UNCHANGED reservation
<1> USE DEF db, chain
<1>1. Worker(r) => (Broadcast(r) \/ UNCHANGED txs) /\ UNCHANGED reservation
  BY DEF Worker, processPendingOrders, BeginSweep, SkipSweep, EndSweep,
     createSettlementForOrder, AcquireSettlementLock, AcquireTimesOut, ReadUnderLock,
     markSubmitting, ReleaseSettlementLock, CatchError, ReverifyRow, validateAndApprove,
     RefuseToSign, Broadcast, BroadcastFails, Confirmed, NotConfirmed
<1>2. Daemon(r) => UNCHANGED txs /\ (releaseReservation(r) \/ UNCHANGED reservation)
  BY DEF Daemon, processReconciliation, BeginSweep, SkipSweep, EndSweep,
     reconcileSingleSettlement, QueryChain, QueryThrows, releaseReservation, FailOrder
<1>3. Mark(r) => UNCHANGED txs /\ (consumeReservation(r) \/ UNCHANGED reservation)
  BY DEF Mark, Validate, Write, consumeReservation
<1>4. DbThrows(r) => UNCHANGED <<txs, reservation>>
  BY DEF DbThrows
<1>5. QED
  BY <1>1, <1>2, <1>3, <1>4 DEF Replica

\* Every step of a lone replica is a step of Payout or none.
LEMMA PayoutReplica ==
    ASSUME Inv, NEW r \in Replicas, SoleOK(r), Replica(r)
    PROVE  [Vault!Next]_(Vault!vars)
<1>0. TypeOK /\ ReplicaOK(r) /\ WorkOK(r)
  BY DEF Inv, SoleOK
<1>1. CASE Broadcast(r)
  <2>1. PICK o \in Orders : o = cur[r]
    BY <1>0, <1>1 DEF Broadcast, At, ReplicaOK, Idle
  <2>2. /\ txs' = [txs EXCEPT ![o][sent[o] + 1] = "pending"] /\ sent[o] < MaxBroadcasts
        /\ UNCHANGED reservation
    BY <1>1, <2>1 DEF Broadcast, db
  <2>3. sent[o] + 1 \in 1..MaxBroadcasts /\ sent[o] + 1 > sent[o]
    BY <1>0, <2>2, BoundAssumption DEF TypeOK
  <2>4. txs[o][sent[o] + 1] = "none"
    BY <2>3 DEF Inv, ChainOK
  <2>5. \A p \in Orders, n \in 1..MaxBroadcasts : txs'[p][n] = "success" <=> txs[p][n] = "success"
    BY <1>0, <2>2, <2>3, <2>4 DEF TypeOK
  <2>6. QED
    BY <2>2, <2>5, PayoutStutters DEF Paid
<1>2. CASE consumeReservation(r)
  <2>1. PICK o \in Orders : o = cur[r] /\ Paid(o)
    BY <1>0, <1>2 DEF consumeReservation, At, ReplicaOK, Idle
  <2>2. /\ reservation' = [reservation EXCEPT ![o] =
                              IF @ = "CONFIRMED" THEN "CONSUMED" ELSE @]
        /\ UNCHANGED txs
    BY <1>2, <2>1 DEF consumeReservation, chain
  <2>3. CASE reservation[o] = "CONFIRMED"
    BY <1>0, <2>1, <2>2, <2>3, PayoutClaims
  <2>4. CASE reservation[o] # "CONFIRMED"
    BY <1>0, <2>2, <2>4, PayoutStutters DEF TypeOK, Paid
  <2>5. QED BY <2>3, <2>4
<1>3. CASE releaseReservation(r)
  <2>1. PICK o \in Orders : o = cur[r] /\ ~Paid(o)
    BY <1>0, <1>3 DEF releaseReservation, At, ReplicaOK, WorkOK, Dead, Paid, Idle
  <2>2. /\ reservation' = [reservation EXCEPT ![o] =
                              IF @ = "CONFIRMED" THEN "CANCELLED_RELEASED" ELSE @]
        /\ UNCHANGED txs
    BY <1>3, <2>1 DEF releaseReservation, chain
  <2>3. CASE reservation[o] = "CONFIRMED"
    BY <1>0, <2>1, <2>2, <2>3, PayoutClaims
  <2>4. CASE reservation[o] # "CONFIRMED"
    BY <1>0, <2>2, <2>4, PayoutStutters DEF TypeOK, Paid
  <2>5. QED BY <2>3, <2>4
<1>4. CASE UNCHANGED <<txs, reservation>>
  BY <1>4, PayoutStutters DEF Paid
<1>5. QED
  BY <1>1, <1>2, <1>3, <1>4, ReplicaTouches

\* So is every step of the environment: what was released is dead, and what was
\* consumed has succeeded already.
LEMMA PayoutEnvironment ==
    ASSUME Alone, Inv, NEW r \in Replicas, SoleOK(r), Environment
    PROVE  [Vault!Next]_(Vault!vars)
<1>0. TypeOK /\ CompletedIsPaid /\ \A o \in Orders : OrderOK(r, o)
  BY DEF Inv, SoleOK
<1>1. ASSUME NEW o \in Orders, NEW n \in 1..MaxBroadcasts, Resolve(o, n)
      PROVE  [Vault!Next]_(Vault!vars)
  <2>1. PICK s \in {"success", "failed", "dropped"} :
          /\ s = "success" => \A m \in 1..MaxBroadcasts : txs[o][m] # "success"
          /\ txs' = [txs EXCEPT ![o][n] = s]
    BY <1>1 DEF Resolve
  <2>2. /\ txs[o][n] = "pending" /\ txs'[o][n] = s /\ UNCHANGED reservation
        /\ \A m \in 1..MaxBroadcasts : m # n => txs'[o][m] = txs[o][m]
        /\ \A p \in Orders : p # o => txs'[p] = txs[p]
    BY <1>0, <1>1, <2>1 DEF Resolve, TypeOK, db
  <2>3. \A p \in Orders : p # o => (Paid(p)' <=> Paid(p))
    BY <2>2 DEF Paid
  <2>4. CASE s = "success"
    <3>1. ~Paid(o) /\ Paid(o)'
      BY <2>1, <2>2, <2>4 DEF Paid
    <3>2. reservation[o] = "CONFIRMED"
      BY <1>0, <2>2, <3>1 DEF CompletedIsPaid, OrderOK, Dead, TypeOK
    <3>3. QED
      BY <1>0, <2>2, <2>3, <3>1, <3>2, PayoutPays
  <2>5. CASE s # "success"
    <3>1. Paid(o)' <=> Paid(o)
      BY <2>2, <2>5 DEF Paid
    <3>2. QED
      BY <2>2, <2>3, <3>1, PayoutStutters
  <2>6. QED BY <2>4, <2>5
<1>2. CASE UNCHANGED <<txs, reservation>>
  BY <1>2, PayoutStutters DEF Paid
<1>3. QED
  BY <1>1, <1>2 DEF Environment, Heartbeat, Expire, Age, Crash, db, chain

\* With a lone replica the liquidity of an order leaves the vault once and is
\* then consumed, or stays and is released, and what was released is never paid
\* out afterwards (liquidity.service.ts:172, reconciliation.daemon.ts:137, 228, 265).
THEOREM PayoutImplemented ==
    ASSUME Alone
    PROVE  Spec => ImplementsPayout
<1>1. Init => Vault!Init
  <2> SUFFICES ASSUME Init PROVE Vault!Init
    OBVIOUS
  <2>1. \A o \in Orders : ~Paid(o) /\ ClaimOf(o) = "held"
    BY DEF Init, Paid, ClaimOf
  <2>2. {o \in Orders : Paid(o)} = {}
    BY <2>1
  <2>3. [o \in Orders |-> ClaimOf(o)] = [o \in Orders |-> "held"]
    BY <2>1
  <2>4. QED
    BY <2>2, <2>3 DEF Vault!Init, ClaimOf
<1>2. Inv /\ (\A r \in Replicas : SoleOK(r)) /\ [Next]_vars => [Vault!Next]_(Vault!vars)
  <2> SUFFICES ASSUME Inv, \A r \in Replicas : SoleOK(r), [Next]_vars
               PROVE  [Vault!Next]_(Vault!vars)
    OBVIOUS
  <2>1. PICK r : Replicas = {r}
    BY DEF Alone
  <2>2. CASE \E q \in Replicas : Replica(q)
    BY <2>2, PayoutReplica
  <2>3. CASE Environment
    BY <2>1, <2>3, PayoutEnvironment
  <2>4. CASE UNCHANGED vars
    BY <2>4, PayoutStutters DEF vars, db, chain, Paid
  <2>5. QED
    BY <2>2, <2>3, <2>4 DEF Next
<1>3. QED
  BY <1>1, <1>2, SettlementInvariant, SoleInvariant, PTL DEF Spec, ImplementsPayout, Vault!Spec
=============================================================================

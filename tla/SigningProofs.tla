----------------------------- MODULE SigningProofs -----------------------------
(***************************************************************************)
(* Proofs about Signing, for any number of processes, orders and crashes:  *)
(* with locks required and renewed in time, nobody broadcasts between      *)
(* another's read of the account and its broadcast.                        *)
(*                                                                         *)
(* SequenceSection needs to know that a process in the section has the     *)
(* lock (InSection), and that a failing submission does not take back a    *)
(* transaction that was sent: the order of a process is its own and has    *)
(* not been sent (OwnOrder).                                               *)
(***************************************************************************)
EXTENDS Signing, LocksProofs, Sums

Section == {"read", "approve", "sign", "send"}

\* A process is alone at work on its order, which is not sent before its
\* broadcast.
OwnOrder(r) ==
    pc[r] # "idle" =>
      /\ cur[r] \in Orders /\ tx[cur[r]] # "none"
      /\ pc[r] \in Section \union {"lock"} => cur[r] \notin Sent
      /\ \A q \in Replicas : q # r /\ pc[q] # "idle" => cur[q] # cur[r]

\* A process in the section holds the lock and knows what was sent.
InSection(r) ==
    /\ pc[r] \in Section \union {"unlock"} => SequenceKey \in held[r]
    /\ pc[r] \in Section \ {"read"} => Sent = seen[r]

SectionInv ==
    /\ TypeOK /\ LocksInv
    /\ \A r \in Replicas : OwnOrder(r)
    /\ RequireLocks /\ missed = 0 => \A r \in Replicas : InSection(r)

-----------------------------------------------------------------------------
(* The sequence lock changes only as the lock service lets it.             *)

\* The lock of the sequence number is the only key.
LEMMA TheKey == SequenceKey \in Keys
BY SequenceKeyAssumption

\* Every step is a step of the lock service or none.
LEMMA LocksSimulate ==
    ASSUME [Next]_vars
    PROVE  [LocksNext]_locks
<1>1. ASSUME NEW r \in Replicas, Process(r) \/ Heartbeat(r) \/ Crash(r)
      PROVE  [LocksNext]_locks
  <2>1. CASE AcquireSequenceLock(r) \/ SequenceLockTimesOut(r) \/ ReleaseSequenceLock(r)
    BY <2>1, TheKey DEF AcquireSequenceLock, SequenceLockTimesOut, ReleaseSequenceLock, LocksNext
  <2>2. CASE Heartbeat(r) \/ Crash(r)
    BY <2>2, TheKey DEF Heartbeat, Crash, LocksNext
  <2>3. CASE \/ BuildUnsigned(r) \/ validateAndApprove(r) \/ SignWithKms(r) \/ Broadcast(r)
             \/ SubmissionFails(r) \/ ConfirmAndBook(r) \/ GiveUp(r)
    BY <2>3 DEF BuildUnsigned, validateAndApprove, SignWithKms, Broadcast, SubmissionFails,
       ConfirmAndBook, GiveUp
  <2>4. QED
    BY <1>1, <2>1, <2>2, <2>3 DEF Process
<1>2. CASE \E r \in Replicas, o \in Orders : Submit(r, o) \/ ReconcileAndBook(r, o)
  BY <1>2 DEF Submit, ReconcileAndBook
<1>3. CASE \E o \in Orders : CloseLedger(o) \/ Drop(o)
  BY <1>3 DEF CloseLedger, Drop
<1>4. CASE Expire
  BY <1>4, TheKey DEF Expire, LocksNext
<1>5. QED
  BY <1>1, <1>2, <1>3, <1>4 DEF Next, vars

\* A missed renewal is not taken back.
LEMMA MissedGrows ==
    ASSUME LocksTypeOK, [LocksNext]_locks, missed' = 0
    PROVE  missed = 0
BY DEF LocksTypeOK, LocksNext, Lock, LockFails, Unlock, RenewFails, RenewThrows, Forget,
   KeyExpires, locks

-----------------------------------------------------------------------------
(* Types.                                                                  *)

\* Every step preserves types.
LEMMA TypeStep ==
    ASSUME TypeOK, LocksTypeOK', \A r \in Replicas : OwnOrder(r), [Next]_vars
    PROVE  TypeOK'
<1> USE SigningAssumption DEF TypeOK, OwnOrder, Go, ledger, process
<1>1. ASSUME NEW r \in Replicas, AcquireSequenceLock(r) PROVE TypeOK'
  BY <1>1 DEF AcquireSequenceLock
<1>2. ASSUME NEW r \in Replicas, SequenceLockTimesOut(r) PROVE TypeOK'
  BY <1>2 DEF SequenceLockTimesOut
<1>3. ASSUME NEW r \in Replicas, BuildUnsigned(r) PROVE TypeOK'
  BY <1>3 DEF BuildUnsigned, Sent
<1>4. ASSUME NEW r \in Replicas, validateAndApprove(r) PROVE TypeOK'
  BY <1>4 DEF validateAndApprove, InFlight
<1>5. ASSUME NEW r \in Replicas, SignWithKms(r) PROVE TypeOK'
  BY <1>5 DEF SignWithKms
<1>6. ASSUME NEW r \in Replicas, Broadcast(r) PROVE TypeOK'
  BY <1>6 DEF Broadcast
<1>7. ASSUME NEW r \in Replicas, SubmissionFails(r) PROVE TypeOK'
  BY <1>7 DEF SubmissionFails
<1>8. ASSUME NEW r \in Replicas, ReleaseSequenceLock(r) PROVE TypeOK'
  BY <1>8 DEF ReleaseSequenceLock
<1>9. ASSUME NEW r \in Replicas, ConfirmAndBook(r) PROVE TypeOK'
  BY <1>9 DEF ConfirmAndBook
<1>10. ASSUME NEW r \in Replicas, GiveUp(r) PROVE TypeOK'
  BY <1>10 DEF GiveUp
<1>11. ASSUME NEW r \in Replicas, Heartbeat(r) PROVE TypeOK'
  BY <1>11 DEF Heartbeat
<1>12. ASSUME NEW r \in Replicas, Crash(r) PROVE TypeOK'
  BY <1>12 DEF Crash
<1>13. ASSUME NEW r \in Replicas, NEW o \in Orders, Submit(r, o) \/ ReconcileAndBook(r, o)
       PROVE  TypeOK'
  BY <1>13 DEF Submit, ReconcileAndBook
<1>14. ASSUME NEW o \in Orders, CloseLedger(o) \/ Drop(o) PROVE TypeOK'
  BY <1>14 DEF CloseLedger, Drop
<1>15. CASE Expire
  BY <1>15 DEF Expire
<1>16. CASE UNCHANGED vars
  BY <1>16 DEF vars
<1>17. QED
  BY <1>1, <1>2, <1>3, <1>4, <1>5, <1>6, <1>7, <1>8, <1>9, <1>10, <1>11, <1>12, <1>13,
     <1>14, <1>15, <1>16 DEF Next, Process

-----------------------------------------------------------------------------
(* Whose order it is.                                                      *)

\* Every step preserves who owns which order.
LEMMA OwnStep ==
    ASSUME TypeOK, \A r \in Replicas : OwnOrder(r), [Next]_vars
    PROVE  \A q \in Replicas : OwnOrder(q)'
<1> SUFFICES ASSUME NEW q \in Replicas PROVE OwnOrder(q)'
  OBVIOUS
<1> USE DEF TypeOK, OwnOrder, Section, Sent, Go, ledger, process
<1>1. ASSUME NEW r \in Replicas, AcquireSequenceLock(r) PROVE OwnOrder(q)'
  BY <1>1 DEF AcquireSequenceLock
<1>2. ASSUME NEW r \in Replicas, SequenceLockTimesOut(r) PROVE OwnOrder(q)'
  BY <1>2 DEF SequenceLockTimesOut
<1>3. ASSUME NEW r \in Replicas, BuildUnsigned(r) PROVE OwnOrder(q)'
  BY <1>3 DEF BuildUnsigned
<1>4. ASSUME NEW r \in Replicas, validateAndApprove(r) PROVE OwnOrder(q)'
  BY <1>4 DEF validateAndApprove
<1>5. ASSUME NEW r \in Replicas, SignWithKms(r) PROVE OwnOrder(q)'
  BY <1>5 DEF SignWithKms
<1>6. ASSUME NEW r \in Replicas, Broadcast(r) PROVE OwnOrder(q)'
  BY <1>6 DEF Broadcast
<1>7. ASSUME NEW r \in Replicas, SubmissionFails(r) PROVE OwnOrder(q)'
  BY <1>7 DEF SubmissionFails
<1>8. ASSUME NEW r \in Replicas, ReleaseSequenceLock(r) PROVE OwnOrder(q)'
  BY <1>8 DEF ReleaseSequenceLock
<1>9. ASSUME NEW r \in Replicas, ConfirmAndBook(r) PROVE OwnOrder(q)'
  BY <1>9 DEF ConfirmAndBook
<1>10. ASSUME NEW r \in Replicas, GiveUp(r) PROVE OwnOrder(q)'
  BY <1>10 DEF GiveUp
<1>11. ASSUME NEW r \in Replicas, Heartbeat(r) PROVE OwnOrder(q)'
  BY <1>11 DEF Heartbeat
<1>12. ASSUME NEW r \in Replicas, Crash(r) PROVE OwnOrder(q)'
  BY <1>12 DEF Crash
<1>13. ASSUME NEW r \in Replicas, NEW o \in Orders, Submit(r, o) PROVE OwnOrder(q)'
  BY <1>13 DEF Submit
<1>14. ASSUME NEW r \in Replicas, NEW o \in Orders, ReconcileAndBook(r, o) PROVE OwnOrder(q)'
  BY <1>14 DEF ReconcileAndBook
<1>15. ASSUME NEW o \in Orders, CloseLedger(o) \/ Drop(o) PROVE OwnOrder(q)'
  BY <1>15 DEF CloseLedger, Drop
<1>16. CASE Expire
  BY <1>16 DEF Expire
<1>17. CASE UNCHANGED vars
  BY <1>17 DEF vars
<1>18. QED
  BY <1>1, <1>2, <1>3, <1>4, <1>5, <1>6, <1>7, <1>8, <1>9, <1>10, <1>11, <1>12, <1>13,
     <1>14, <1>15, <1>16, <1>17 DEF Next, Process

-----------------------------------------------------------------------------
(* The section.                                                            *)

\* With locks required, every step keeps those in the section in possession of
\* the lock and of what was sent.
LEMMA SectionStep ==
    ASSUME SectionInv, LocksInv', [Next]_vars, RequireLocks, missed = 0, missed' = 0
    PROVE  \A q \in Replicas : InSection(q)'
<1> SUFFICES ASSUME NEW q \in Replicas PROVE InSection(q)'
  OBVIOUS
<1>0. /\ TypeOK /\ LocksTypeOK /\ \A r \in Replicas : OwnOrder(r) /\ InSection(r)
      /\ \A r \in Replicas : \A k \in held[r] : redis[k] = r
  BY DEF SectionInv, LocksInv, HeldIsLocked
<1>a. ASSUME NEW r \in Replicas, SequenceKey \in held[r], SequenceKey \in held[q] PROVE r = q
  BY <1>0, <1>a
<1> USE DEF InSection, OwnOrder, Section, Sent, Go, TypeOK, LocksTypeOK, ledger, process
<1>1. ASSUME NEW r \in Replicas, AcquireSequenceLock(r) PROVE InSection(q)'
  BY <1>0, <1>a, <1>1, TheKey DEF AcquireSequenceLock, Lock
<1>2. ASSUME NEW r \in Replicas, SequenceLockTimesOut(r) PROVE InSection(q)'
  BY <1>0, <1>a, <1>2, TheKey DEF SequenceLockTimesOut, LockFails
<1>3. ASSUME NEW r \in Replicas, BuildUnsigned(r) PROVE InSection(q)'
  BY <1>0, <1>a, <1>3, TheKey DEF BuildUnsigned, locks
<1>4. ASSUME NEW r \in Replicas, validateAndApprove(r) PROVE InSection(q)'
  BY <1>0, <1>a, <1>4, TheKey DEF validateAndApprove, locks
<1>5. ASSUME NEW r \in Replicas, SignWithKms(r) PROVE InSection(q)'
  BY <1>0, <1>a, <1>5, TheKey DEF SignWithKms, locks
<1>6. ASSUME NEW r \in Replicas, Broadcast(r) PROVE InSection(q)'
  BY <1>0, <1>a, <1>6, TheKey DEF Broadcast, locks
<1>7. ASSUME NEW r \in Replicas, SubmissionFails(r) PROVE InSection(q)'
  BY <1>0, <1>a, <1>7, TheKey DEF SubmissionFails, locks
<1>8. ASSUME NEW r \in Replicas, ReleaseSequenceLock(r) PROVE InSection(q)'
  BY <1>0, <1>a, <1>8, TheKey DEF ReleaseSequenceLock, Unlock
<1>9. ASSUME NEW r \in Replicas, ConfirmAndBook(r) PROVE InSection(q)'
  BY <1>0, <1>a, <1>9, TheKey DEF ConfirmAndBook, locks
<1>10. ASSUME NEW r \in Replicas, GiveUp(r) PROVE InSection(q)'
  BY <1>0, <1>a, <1>10, TheKey DEF GiveUp, locks
<1>11. ASSUME NEW r \in Replicas, Heartbeat(r) PROVE InSection(q)'
  BY <1>0, <1>a, <1>11, TheKey DEF Heartbeat, RenewFails, RenewThrows
<1>12. ASSUME NEW r \in Replicas, Crash(r) PROVE InSection(q)'
  BY <1>0, <1>a, <1>12, TheKey DEF Crash, Forget
<1>13. ASSUME NEW r \in Replicas, NEW o \in Orders, Submit(r, o) PROVE InSection(q)'
  BY <1>0, <1>13 DEF Submit, locks
<1>14. ASSUME NEW r \in Replicas, NEW o \in Orders, ReconcileAndBook(r, o) PROVE InSection(q)'
  BY <1>0, <1>14 DEF ReconcileAndBook, locks
<1>15. ASSUME NEW o \in Orders, CloseLedger(o) \/ Drop(o) PROVE InSection(q)'
  BY <1>0, <1>15 DEF CloseLedger, Drop, locks
<1>16. CASE Expire
  BY <1>0, <1>16 DEF Expire, KeyExpires
<1>17. CASE UNCHANGED vars
  BY <1>0, <1>17 DEF vars, locks
<1>18. QED
  BY <1>1, <1>2, <1>3, <1>4, <1>5, <1>6, <1>7, <1>8, <1>9, <1>10, <1>11, <1>12, <1>13,
     <1>14, <1>15, <1>16, <1>17 DEF Next, Process

\* The invariant holds in every reachable state.
THEOREM SectionInvariant == Spec => []SectionInv
<1>1. Init => SectionInv
  BY SigningAssumption, LocksAssumption DEF Init, LocksInit, SectionInv, TypeOK, LocksInv,
     LocksTypeOK, HeldIsLocked, OwnOrder, InSection, Section
<1>2. SectionInv /\ [Next]_vars => SectionInv'
  <2> SUFFICES ASSUME SectionInv, [Next]_vars PROVE SectionInv'
    OBVIOUS
  <2>1. LocksInv'
    BY LocksSimulate, LocksStep DEF SectionInv
  <2>2. TypeOK' /\ \A q \in Replicas : OwnOrder(q)'
    BY <2>1, TypeStep, OwnStep DEF SectionInv, LocksInv
  <2>3. missed' = 0 => missed = 0
    BY LocksSimulate, MissedGrows DEF SectionInv, LocksInv
  <2>4. QED
    BY <2>1, <2>2, <2>3, SectionStep DEF SectionInv
<1>3. QED
  BY <1>1, <1>2, PTL DEF Spec

\* Locks, ledger, rows and processes keep their types.
THEOREM TypeCorrect == Spec => []TypeOK
BY SectionInvariant, PTL DEF SectionInv

\* With the sequence lock required (transaction.service.ts:261) and renewed in
\* time, nobody broadcasts between another's read of the account and its
\* broadcast, whoever dies and whatever Redis throws.
THEOREM SectionIsExclusive == Spec => [](RequireLocks => SequenceSection)
<1>1. SectionInv => (RequireLocks => SequenceSection)
  BY DEF SectionInv, InSection, Section, SequenceSection
<1>2. QED
  BY <1>1, SectionInvariant, PTL

-----------------------------------------------------------------------------
(* The outflow limit.                                                      *)

\* The transaction that a process signs or sends is the one it got approved.
ApprovedOwn(r) == pc[r] \in {"sign", "send"} => tx[cur[r]] = "signed"

\* What is booked or may still succeed.
Committed == booked \union InFlight

OutflowInv ==
    /\ SectionInv /\ OvershootIsInFlight
    /\ \A r \in Replicas : ApprovedOwn(r)

\* Outflows of orders are natural numbers, and grow with the orders.
LEMMA OutflowFacts ==
    ASSUME NEW A, NEW B, A \subseteq Orders, B \subseteq Orders
    PROVE  /\ Outflow(A) \in Nat /\ Outflow(B) \in Nat
           /\ Outflow(A \union B) \in Nat
           /\ Outflow(A \union B) <= Outflow(A) + Outflow(B)
           /\ A \subseteq B => Outflow(A) <= Outflow(B)
<1>1. \A S \in SUBSET Orders : IsFiniteSet(S) /\ NaturalOn(Amount, S)
  BY SigningAssumption, FS_Subset DEF NaturalOn
<1>2. A \union B \in SUBSET Orders
  OBVIOUS
<1>3. \A S \in SUBSET Orders : Outflow(S) \in Nat
  BY <1>1, SumIsNat DEF Outflow
<1>4. Outflow(A \union B) <= Outflow(A) + Outflow(B)
  BY <1>1, <1>2, SumUnion DEF Outflow
<1>5. A \subseteq B => Outflow(A) <= Outflow(B)
  BY <1>1, SumMonotone DEF Outflow
<1>6. QED
  BY <1>2, <1>3, <1>4, <1>5

\* The outflow of one order is its amount.
LEMMA OutflowOfOne ==
    ASSUME NEW o \in Orders
    PROVE  Outflow({o}) = Amount[o]
<1>1. IsFiniteSet({}) /\ {} \union {o} = {o} /\ Amount[o] \in Nat
  BY SigningAssumption, FS_EmptySet
<1>2. NaturalOn(Amount, {} \union {o})
  BY <1>1 DEF NaturalOn
<1>3. SumFunctionOnSet(Amount, {} \union {o}) = Amount[o] + SumFunctionOnSet(Amount, {})
  BY <1>1, <1>2, SumAdd
<1>4. QED
  BY <1>1, <1>3, SumEmpty DEF Outflow

\* What no step but an approval can do: commit to an order that was not
\* committed to before.
LEMMA CommittedOnlyByApproval ==
    ASSUME OutflowInv, [Next]_vars, \A r \in Replicas : ~validateAndApprove(r)
    PROVE  Committed' \subseteq Committed /\ UNCHANGED overlooked
<1>0. /\ TypeOK /\ \A r \in Replicas : OwnOrder(r) /\ ApprovedOwn(r)
  BY DEF OutflowInv, SectionInv
<1> USE DEF TypeOK, Committed, InFlight, ledger, process, Go
<1> DEFINE Goal == Committed' \subseteq Committed /\ UNCHANGED overlooked
<1>1. ASSUME NEW r \in Replicas,
             \/ AcquireSequenceLock(r) \/ SequenceLockTimesOut(r) \/ BuildUnsigned(r)
             \/ SignWithKms(r) \/ ReleaseSequenceLock(r) \/ GiveUp(r) \/ Heartbeat(r)
             \/ Crash(r)
      PROVE  Goal
  BY <1>1 DEF AcquireSequenceLock, SequenceLockTimesOut, BuildUnsigned, SignWithKms,
     ReleaseSequenceLock, GiveUp, Heartbeat, Crash
<1>2. ASSUME NEW r \in Replicas, Broadcast(r) PROVE Goal
  <2>1. cur[r] \in Orders /\ tx[cur[r]] = "signed"
    BY <1>0, <1>2 DEF Broadcast, OwnOrder, ApprovedOwn
  <2>2. QED
    BY <1>0, <1>2, <2>1 DEF Broadcast
<1>3. ASSUME NEW r \in Replicas, SubmissionFails(r) PROVE Goal
  BY <1>0, <1>3 DEF SubmissionFails
<1>4. ASSUME NEW r \in Replicas, ConfirmAndBook(r) PROVE Goal
  <2>1. cur[r] \in Orders /\ tx[cur[r]] = "success"
    BY <1>0, <1>4 DEF ConfirmAndBook, OwnOrder
  <2>2. QED
    BY <1>0, <1>4, <2>1 DEF ConfirmAndBook
<1>5. ASSUME NEW r \in Replicas, NEW o \in Orders, Submit(r, o) PROVE Goal
  BY <1>0, <1>5 DEF Submit
<1>6. ASSUME NEW r \in Replicas, NEW o \in Orders, ReconcileAndBook(r, o) PROVE Goal
  BY <1>0, <1>6 DEF ReconcileAndBook
<1>7. ASSUME NEW o \in Orders, CloseLedger(o) PROVE Goal
  BY <1>0, <1>7 DEF CloseLedger
<1>8. ASSUME NEW o \in Orders, Drop(o) PROVE Goal
  BY <1>0, <1>8 DEF Drop
<1>9. CASE Expire
  BY <1>9 DEF Expire
<1>10. CASE UNCHANGED vars
  BY <1>10 DEF vars
<1>11. QED
  BY <1>1, <1>2, <1>3, <1>4, <1>5, <1>6, <1>7, <1>8, <1>9, <1>10 DEF Next, Process

\* An approval commits to the order at hand and to no other.
LEMMA ApprovalCommits ==
    ASSUME OutflowInv, NEW r \in Replicas, validateAndApprove(r)
    PROVE  OvershootIsInFlight'
<1>0. /\ TypeOK /\ OwnOrder(r)
  BY DEF OutflowInv, SectionInv
<1>1. /\ cur[r] \in Orders /\ Outflow(booked) + Amount[cur[r]] <= Limit
      /\ overlooked' = InFlight /\ booked' = booked
      /\ tx' = [tx EXCEPT ![cur[r]] = "signed"]
  BY <1>0 DEF validateAndApprove, OwnOrder
<1>2. booked \subseteq Orders /\ InFlight \subseteq Orders
  BY <1>0 DEF TypeOK, InFlight
<1> DEFINE old == booked \union InFlight
           all == old \union {cur[r]}
<1>3. booked' \union InFlight' \subseteq all /\ all \subseteq Orders
  BY <1>0, <1>1, <1>2 DEF TypeOK, InFlight
<1>4. /\ Outflow(booked' \union InFlight') <= Outflow(all)
      /\ Outflow(booked' \union InFlight') \in Nat /\ Outflow(all) \in Nat
  <2>1. booked' \union InFlight' \subseteq Orders
    BY <1>3
  <2> HIDE DEF all
  <2>2. QED
    BY <1>3, <2>1, OutflowFacts
<1>5. /\ Outflow(all) <= Outflow(old) + Outflow({cur[r]})
      /\ Outflow(old) \in Nat
  <2>1. old \subseteq Orders /\ {cur[r]} \subseteq Orders
    BY <1>1, <1>2
  <2> HIDE DEF old
  <2>2. QED
    BY <2>1, OutflowFacts
<1>6. /\ Outflow(old) <= Outflow(booked) + Outflow(InFlight)
      /\ Outflow(booked) \in Nat /\ Outflow(InFlight) \in Nat
  BY <1>2, OutflowFacts
<1>7. Outflow({cur[r]}) = Amount[cur[r]] /\ Amount[cur[r]] \in Nat /\ Limit \in Nat
  BY <1>1, OutflowOfOne, SigningAssumption
<1>8. Outflow(overlooked)' = Outflow(InFlight)
  BY <1>1 DEF Outflow
<1> DEFINE x == Outflow(booked' \union InFlight')
           y == Outflow(all)
           z == Outflow(old)
<1>9. x <= y /\ y <= z + Amount[cur[r]] /\ z <= Outflow(booked) + Outflow(InFlight)
      /\ x \in Nat /\ y \in Nat /\ z \in Nat
  BY <1>4, <1>5, <1>6, <1>7
<1> HIDE DEF x, y, z, all, old
<1>10. x <= Limit + Outflow(InFlight)
  BY <1>1, <1>6, <1>7, <1>9
<1>11. Outflow(booked \union InFlight)' = x
  BY DEF x, Outflow
<1>12. QED
  BY <1>8, <1>10, <1>11 DEF OvershootIsInFlight

\* Nobody else takes a process's approved transaction back or sends it.
LEMMA ApprovedStep ==
    ASSUME OutflowInv, [Next]_vars
    PROVE  \A q \in Replicas : ApprovedOwn(q)'
<1> SUFFICES ASSUME NEW q \in Replicas PROVE ApprovedOwn(q)'
  OBVIOUS
<1>0. /\ TypeOK /\ \A r \in Replicas : OwnOrder(r) /\ ApprovedOwn(r)
  BY DEF OutflowInv, SectionInv
<1> USE DEF TypeOK, OwnOrder, ApprovedOwn, Go, ledger, process
<1>1. ASSUME NEW r \in Replicas,
             \/ AcquireSequenceLock(r) \/ SequenceLockTimesOut(r) \/ BuildUnsigned(r)
             \/ SignWithKms(r) \/ ReleaseSequenceLock(r) \/ GiveUp(r) \/ ConfirmAndBook(r)
      PROVE  ApprovedOwn(q)'
  BY <1>0, <1>1 DEF AcquireSequenceLock, SequenceLockTimesOut, BuildUnsigned, SignWithKms,
     ReleaseSequenceLock, GiveUp, ConfirmAndBook
<1>2. ASSUME NEW r \in Replicas, validateAndApprove(r) PROVE ApprovedOwn(q)'
  BY <1>0, <1>2 DEF validateAndApprove
<1>3. ASSUME NEW r \in Replicas, Broadcast(r) PROVE ApprovedOwn(q)'
  BY <1>0, <1>3 DEF Broadcast
<1>4. ASSUME NEW r \in Replicas, SubmissionFails(r) PROVE ApprovedOwn(q)'
  BY <1>0, <1>4 DEF SubmissionFails
<1>5. ASSUME NEW r \in Replicas, Heartbeat(r) \/ Crash(r) PROVE ApprovedOwn(q)'
  BY <1>0, <1>5 DEF Heartbeat, Crash
<1>6. ASSUME NEW r \in Replicas, NEW o \in Orders, Submit(r, o) \/ ReconcileAndBook(r, o)
      PROVE  ApprovedOwn(q)'
  BY <1>0, <1>6 DEF Submit, ReconcileAndBook
<1>7. ASSUME NEW o \in Orders, CloseLedger(o) \/ Drop(o) PROVE ApprovedOwn(q)'
  BY <1>0, <1>7 DEF CloseLedger, Drop
<1>8. CASE Expire
  BY <1>0, <1>8 DEF Expire
<1>9. CASE UNCHANGED vars
  BY <1>0, <1>9 DEF vars
<1>10. QED
  BY <1>1, <1>2, <1>3, <1>4, <1>5, <1>6, <1>7, <1>8, <1>9 DEF Next, Process

\* The outflow limit (settlement-policy.engine.ts:242) is exceeded by no more
\* than what was approved and not booked at the last check, for any number of
\* processes: no interleaving, crash or lost lock adds to that.
THEOREM OvershootBounded == Spec => []OvershootIsInFlight
<1>1. Init /\ SectionInv => OutflowInv
  <2> SUFFICES ASSUME Init, SectionInv PROVE OutflowInv
    OBVIOUS
  <2>1. booked \union InFlight = {} /\ overlooked = {} /\ {} \subseteq Orders
    BY DEF Init, InFlight
  <2>2. Outflow({}) = 0
    BY SumEmpty DEF Outflow
  <2>3. OvershootIsInFlight
    <3>1. Outflow(booked \union InFlight) = 0 /\ Outflow(overlooked) = 0
      BY <2>1, <2>2, Zenon
    <3>2. QED
      BY <3>1, SigningAssumption DEF OvershootIsInFlight
  <2>4. QED
    BY <2>3 DEF Init, OutflowInv, ApprovedOwn
<1>2. OutflowInv /\ SectionInv' /\ [Next]_vars => OutflowInv'
  <2> SUFFICES ASSUME OutflowInv, SectionInv', [Next]_vars PROVE OutflowInv'
    OBVIOUS
  <2>1. CASE \E r \in Replicas : validateAndApprove(r)
    BY <2>1, ApprovalCommits, ApprovedStep DEF OutflowInv
  <2>2. CASE \A r \in Replicas : ~validateAndApprove(r)
    <3>1. Committed' \subseteq Committed /\ overlooked' = overlooked
      BY <2>2, CommittedOnlyByApproval
    <3>2. Committed \subseteq Orders /\ overlooked \subseteq Orders
      BY DEF OutflowInv, SectionInv, TypeOK, Committed, InFlight
    <3>3. /\ Outflow(Committed') <= Outflow(Committed)
          /\ Outflow(Committed') \in Nat /\ Outflow(Committed) \in Nat
          /\ Outflow(overlooked) \in Nat
      <4>1. Committed' \subseteq Orders
        BY <3>1, <3>2
      <4>2. QED
        BY <3>1, <3>2, <4>1, OutflowFacts
    <3>4. Outflow(Committed) <= Limit + Outflow(overlooked)
      BY DEF OutflowInv, OvershootIsInFlight, Committed
    <3>5. Outflow(Committed') <= Limit + Outflow(overlooked')
      BY <3>1, <3>3, <3>4, SigningAssumption
    <3>6. OvershootIsInFlight'
      BY <3>5 DEF OvershootIsInFlight, Committed, Outflow
    <3>7. QED
      BY <3>6, ApprovedStep DEF OutflowInv
  <2>3. QED
    BY <2>1, <2>2
<1>3. OutflowInv => OvershootIsInFlight
  BY DEF OutflowInv
<1>4. QED
  BY <1>1, <1>2, <1>3, SectionInvariant, PTL DEF Spec
=============================================================================

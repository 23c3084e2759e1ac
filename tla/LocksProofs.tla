------------------------------ MODULE LocksProofs ------------------------------
(***************************************************************************)
(* Proofs about Locks, for any number of processes and keys.               *)
(*                                                                         *)
(* Exclusive speaks of two lock objects that never meet.  What makes it    *)
(* inductive is Redis in between: while no renewal has been missed, an     *)
(* object that says owned has its token in the key (HeldIsLocked).         *)
(***************************************************************************)
EXTENDS Locks, TLAPS

\* An owned lock object has its token in Redis.
HeldIsLocked ==
    missed = 0 => \A r \in Replicas : \A k \in held[r] : redis[k] = r

LocksInv == LocksTypeOK /\ HeldIsLocked

\* The operations keep the types of Redis and of the lock objects.
LEMMA LockType ==
    ASSUME LocksTypeOK, NEW r \in Replicas, NEW k \in Keys,
           Lock(r, k) \/ LockFails(r, k) \/ Unlock(r, k) \/ RenewFails(r, k) \/ RenewThrows(r, k)
    PROVE  LocksTypeOK'
<1>1. CASE Lock(r, k)
  BY <1>1 DEF LocksTypeOK, Lock
<1>2. CASE LockFails(r, k)
  BY <1>2 DEF LocksTypeOK, LockFails
<1>3. CASE Unlock(r, k)
  BY <1>3 DEF LocksTypeOK, Unlock
<1>4. CASE RenewFails(r, k)
  BY <1>4 DEF LocksTypeOK, RenewFails
<1>5. CASE RenewThrows(r, k)
  BY <1>5, LocksAssumption DEF LocksTypeOK, RenewThrows
<1>6. QED
  BY <1>1, <1>2, <1>3, <1>4, <1>5

\* A crash and an expiring key keep them too.
LEMMA ForgetType ==
    ASSUME LocksTypeOK, NEW r \in Replicas, Forget(r)
    PROVE  LocksTypeOK'
BY DEF LocksTypeOK, Forget

\* A key that expires keeps the types.
LEMMA ExpireType ==
    ASSUME LocksTypeOK, NEW k \in Keys, KeyExpires(k)
    PROVE  LocksTypeOK'
BY LocksAssumption DEF LocksTypeOK, KeyExpires

\* A missed renewal is never taken back, so that HeldIsLocked has to be shown
\* only for steps that miss none.
LEMMA LocksStep ==
    ASSUME LocksInv, [LocksNext]_locks
    PROVE  LocksInv'
<1>1. LocksTypeOK'
  <2>1. CASE LocksNext
    BY <2>1, LockType, ForgetType, ExpireType DEF LocksNext, LocksInv
  <2>2. CASE UNCHANGED locks
    BY <2>2 DEF LocksInv, LocksTypeOK, locks
  <2>3. QED
    BY <2>1, <2>2
<1>2. SUFFICES ASSUME missed' = 0, NEW q \in Replicas, NEW j \in held'[q]
               PROVE  redis'[j] = q
  BY <1>1 DEF LocksInv, HeldIsLocked
<1>3. LocksTypeOK /\ j \in Keys
  BY <1>1 DEF LocksInv, LocksTypeOK
<1>4. ASSUME missed = 0 PROVE \A p \in Replicas : \A i \in held[p] : redis[i] = p
  BY <1>4 DEF LocksInv, HeldIsLocked
<1>5. ASSUME NEW r \in Replicas, NEW k \in Keys, Lock(r, k) PROVE redis'[j] = q
  <2>1. \A p \in Replicas : k \notin held[p]
    BY <1>2, <1>3, <1>4, <1>5, LocksAssumption DEF Lock
  <2>2. QED
    BY <1>2, <1>3, <1>4, <1>5, <2>1 DEF Lock, LocksTypeOK
<1>6. ASSUME NEW r \in Replicas, NEW k \in Keys, LockFails(r, k) PROVE redis'[j] = q
  <2>1. j \in held[q] /\ redis[j] = q
    BY <1>2, <1>4, <1>6 DEF LockFails
  <2>2. QED
    BY <1>3, <1>6, <2>1, LocksAssumption DEF LockFails, LocksTypeOK
<1>7. ASSUME NEW r \in Replicas, NEW k \in Keys, Unlock(r, k) PROVE redis'[j] = q
  <2>1. j \in held[q] /\ redis[j] = q /\ ~(q = r /\ j = k)
    BY <1>2, <1>3, <1>4, <1>7 DEF Unlock, LocksTypeOK
  <2>2. QED
    BY <1>3, <1>7, <2>1 DEF Unlock, LocksTypeOK
<1>8. ASSUME NEW r \in Replicas, NEW k \in Keys, RenewFails(r, k) PROVE redis'[j] = q
  <2>1. j \in held[q]
    BY <1>2, <1>3, <1>8 DEF RenewFails, LocksTypeOK
  <2>2. QED
    BY <1>2, <1>4, <1>8, <2>1 DEF RenewFails
<1>9. ASSUME NEW r \in Replicas, NEW k \in Keys, RenewThrows(r, k) PROVE FALSE
  BY <1>2, <1>3, <1>9 DEF RenewThrows, LocksTypeOK
<1>10. ASSUME NEW r \in Replicas, Forget(r) PROVE redis'[j] = q
  <2>1. j \in held[q]
    BY <1>2, <1>3, <1>10 DEF Forget, LocksTypeOK
  <2>2. QED
    BY <1>2, <1>4, <1>10, <2>1 DEF Forget
<1>11. ASSUME NEW k \in Keys, KeyExpires(k) PROVE redis'[j] = q
  <2>1. j \in held[q] /\ missed = 0
    BY <1>2, <1>3, <1>11 DEF KeyExpires, LocksTypeOK
  <2>2. k \notin held[redis[k]]
    BY <1>2, <1>3, <1>11, <2>1 DEF KeyExpires, LocksTypeOK
  <2>3. QED
    BY <1>3, <1>4, <1>11, <2>1, <2>2 DEF KeyExpires, LocksTypeOK
<1>12. CASE UNCHANGED locks
  BY <1>2, <1>4, <1>12 DEF locks
<1>13. QED
  BY <1>5, <1>6, <1>7, <1>8, <1>9, <1>10, <1>11, <1>12 DEF LocksNext

\* Two owned lock objects of one key would both have their token in it.
LEMMA LockedAlone == LocksInv => Exclusive
BY DEF LocksInv, HeldIsLocked, Exclusive, LocksTypeOK

\* Owned lock objects have their token in Redis while no renewal is missed.
THEOREM LocksInvariant == LocksSpec => []LocksInv
<1>1. LocksInit => LocksInv
  BY LocksAssumption DEF LocksInit, LocksInv, LocksTypeOK, HeldIsLocked
<1>2. QED
  BY <1>1, LocksStep, PTL DEF LocksSpec

\* The lock service excludes (distributed-lock.service.ts:102, 182): with every
\* renewal in time no two processes own one key, whatever Redis throws and
\* whoever dies.
THEOREM LocksExclude == LocksSpec => []Exclusive
BY LocksInvariant, LockedAlone, PTL

\* A step of the service takes a key from its holder only by the holder's own
\* release or by the TTL.
LEMMA HolderStep ==
    ASSUME LocksTypeOK, [LocksNext]_locks, NEW k \in Keys,
           redis[k] # Free, redis'[k] # redis[k]
    PROVE  \/ k \in held[redis[k]] /\ k \notin held'[redis[k]]
           \/ UNCHANGED held
<1>1. ASSUME NEW r \in Replicas, NEW j \in Keys, Lock(r, j) \/ LockFails(r, j) PROVE FALSE
  BY <1>1 DEF Lock, LockFails, LocksTypeOK
<1>2. ASSUME NEW r \in Replicas, NEW j \in Keys, Unlock(r, j)
      PROVE  k \in held[redis[k]] /\ k \notin held'[redis[k]]
  <2>1. j = k /\ redis[k] = r /\ k \in held[r]
    BY <1>2 DEF Unlock, LocksTypeOK
  <2>2. QED
    BY <1>2, <2>1 DEF Unlock, LocksTypeOK
<1>3. ASSUME NEW r \in Replicas, NEW j \in Keys, RenewFails(r, j) \/ RenewThrows(r, j)
      PROVE  FALSE
  BY <1>3 DEF RenewFails, RenewThrows
<1>4. ASSUME NEW r \in Replicas, Forget(r) PROVE FALSE
  BY <1>4 DEF Forget
<1>5. ASSUME NEW j \in Keys, KeyExpires(j) PROVE UNCHANGED held
  BY <1>5 DEF KeyExpires
<1>6. ~UNCHANGED locks
  BY DEF locks
<1>7. QED
  BY <1>1, <1>2, <1>3, <1>4, <1>5, <1>6 DEF LocksNext

\* No process deletes a key that holds another's token: the comparison in the
\* release script (distributed-lock.service.ts:183) sees to it, also for a
\* holder that stalled past its TTL.
THEOREM HolderReleases == LocksSpec => OnlyHolderReleases
<1>1. LocksTypeOK /\ [LocksNext]_locks
        => [\A k \in Keys : redis[k] # Free /\ redis'[k] # redis[k] =>
                 \/ k \in held[redis[k]] /\ k \notin held'[redis[k]]
                 \/ UNCHANGED held]_locks
  BY HolderStep
<1>2. LocksSpec => []LocksTypeOK
  BY LocksInvariant, PTL DEF LocksInv
<1>3. QED
  BY <1>1, <1>2, PTL DEF LocksSpec, OnlyHolderReleases
=============================================================================

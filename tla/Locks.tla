--------------------------------- MODULE Locks ---------------------------------
(***************************************************************************)
(* DistributedLockService (infrastructure/locks): keys in Redis that hold  *)
(* a token and expire, and in each worker process a DistributedLock object *)
(* per key with a flag, isOwned(), that its heartbeat keeps.  The flag and *)
(* the key are two things: the key may be gone while the flag still says   *)
(* owned, and the flag may be lost while the key is still there.           *)
(*                                                                         *)
(* The operations are actions of the modules that use locks, which add     *)
(* what their own code does on success and on failure.  The token of an    *)
(* acquisition is represented by its process: a process never has two      *)
(* lock objects for one key at a time.                                     *)
(***************************************************************************)
EXTENDS Naturals

CONSTANTS
    Replicas,       \* worker processes
    Keys,           \* lock keys in Redis
    Free,           \* a key that does not exist
    RequireLocks,   \* requireDistributedLocks, or NODE_ENV production
    RedisFaults,    \* SET and the release script may throw
    MaxMissed       \* bound: renewals that are late or throw

ASSUME LocksAssumption ==
    Free \notin Replicas /\ MaxMissed \in Nat /\ {RequireLocks, RedisFaults} \subseteq BOOLEAN

VARIABLES
    redis,   \* the process whose token each key holds
    held,    \* keys whose DistributedLock object says owned, per process
    missed   \* renewals that came after the TTL or threw, so far

locks == <<redis, held, missed>>

LocksTypeOK ==
    /\ redis \in [Keys -> Replicas \union {Free}]
    /\ held \in [Replicas -> SUBSET Keys]
    /\ missed \in 0..MaxMissed

LocksInit ==
    /\ redis = [k \in Keys |-> Free]
    /\ held = [r \in Replicas |-> {}]
    /\ missed = 0

-----------------------------------------------------------------------------
(* What a process does.                                                    *)

\* Mutated form of Lock: SET without NX.
LockNoNX(r, k) ==
    /\ redis' = [redis EXCEPT ![k] = r]
    /\ held' = [held EXCEPT ![r] = @ \union {k}]
    /\ UNCHANGED missed

\* acquire: SET key token PX ttl NX answers OK.
Lock(r, k) ==
    /\ redis[k] = Free
    /\ redis' = [redis EXCEPT ![k] = r]
    /\ held' = [held EXCEPT ![r] = @ \union {k}]
    /\ UNCHANGED missed

\* acquire gives no lock: the key exists, or SET throws, before or after Redis
\* has executed it.
LockFails(r, k) ==
    /\ redis[k] # Free \/ RedisFaults
    /\ \/ UNCHANGED redis
       \/ redis[k] = Free /\ redis' = [redis EXCEPT ![k] = r]
    /\ UNCHANGED <<held, missed>>

\* Mutated form of Unlock: DEL whatever token the key holds.
UnlockAnyToken(r, k) ==
    /\ redis' = IF k \in held[r] THEN [redis EXCEPT ![k] = Free] ELSE redis
    /\ held' = [held EXCEPT ![r] = @ \ {k}]
    /\ UNCHANGED missed

\* release: nothing unless the object still says owned; the key is deleted
\* only when it holds this token.  Where the script throws the key stays.
Unlock(r, k) ==
    /\ \/ redis' = IF k \in held[r] /\ redis[k] = r THEN [redis EXCEPT ![k] = Free] ELSE redis
       \/ RedisFaults /\ UNCHANGED redis
    /\ held' = [held EXCEPT ![r] = @ \ {k}]
    /\ UNCHANGED missed

\* renew finds another token, or none, and marks the lock lost.
RenewFails(r, k) ==
    /\ k \in held[r] /\ redis[k] # r
    /\ held' = [held EXCEPT ![r] = @ \ {k}]
    /\ UNCHANGED <<redis, missed>>

\* renew throws: the lock is marked lost, the key lives on until its TTL.
RenewThrows(r, k) ==
    /\ k \in held[r]
    /\ missed < MaxMissed
    /\ missed' = missed + 1
    /\ held' = [held EXCEPT ![r] = @ \ {k}]
    /\ UNCHANGED redis

\* The process dies; its keys stay.
Forget(r) ==
    /\ held' = [held EXCEPT ![r] = {}]
    /\ UNCHANGED <<redis, missed>>

\* The key outlives its TTL: nobody renews it, or its holder is stalled.
KeyExpires(k) ==
    /\ redis[k] # Free
    /\ IF k \in held[redis[k]] THEN missed < MaxMissed /\ missed' = missed + 1
                               ELSE UNCHANGED missed
    /\ redis' = [redis EXCEPT ![k] = Free]
    /\ UNCHANGED held

LocksNext ==
    \/ \E r \in Replicas, k \in Keys :
          Lock(r, k) \/ LockFails(r, k) \/ Unlock(r, k) \/ RenewFails(r, k) \/ RenewThrows(r, k)
    \/ \E r \in Replicas : Forget(r)
    \/ \E k \in Keys : KeyExpires(k)

\* What a user of the lock service may rely on.
LocksSpec == LocksInit /\ [][LocksNext]_locks

-----------------------------------------------------------------------------
(* Properties.                                                             *)

\* While every renewal is in time, at most one process has a lock object of a
\* key that says owned, whatever crashes and exceptions of Redis there are.
Exclusive ==
    missed = 0 => \A k \in Keys, r, q \in Replicas :
                      k \in held[r] /\ k \in held[q] => r = q

\* A process never loses its key by what another does: a key is taken from its
\* holder by the holder's own release or by its TTL, and the TTL touches no
\* lock object.  It is the token compared in the release script that matters,
\* when a stalled holder wakes up and releases what is no longer its own.
OnlyHolderReleases ==
    [][\A k \in Keys : redis[k] # Free /\ redis'[k] # redis[k] =>
            \/ k \in held[redis[k]] /\ k \notin held'[redis[k]]
            \/ UNCHANGED held]_locks
=============================================================================

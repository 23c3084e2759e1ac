--------------------------- MODULE LiquidityProofs ---------------------------
(***************************************************************************)
(* Proofs about Liquidity, for any orders, amounts, adjustments and number *)
(* of concurrent transactions.  The type invariant is not inductive alone: *)
(* that available stays a natural number rests on the pool row being       *)
(* consistent, and that on the row lock: only its holder is between        *)
(* reading and writing the row, so the copy it computes from is current.   *)
(* What the columns add up to is proved with the lemmas of Sums: a commit  *)
(* changes a sum by the amount of its order, if the reservation is still   *)
(* what the transaction read.                                              *)
(***************************************************************************)
EXTENDS Liquidity, Sums

\* The transaction at its locked step is the one that holds the row lock, and
\* the copy of the row it works from is the row itself.
LockDiscipline ==
    \A t \in Tx : pc[t] = "locked" => lock = t /\ view[t] = pool

\* The inductive invariant.
PoolInv == TypeOK /\ PoolBalanced /\ NeverOverReserved /\ LockDiscipline

-----------------------------------------------------------------------------

\* Clamping at zero yields a natural number, equal to its argument if that is
\* not negative.
LEMMA ClampNat ==
    ASSUME NEW x \in Int
    PROVE  AtLeastZero(x) \in Nat /\ (x >= 0 => AtLeastZero(x) = x)
                                  /\ (x < 0 => AtLeastZero(x) = 0)
BY DEF AtLeastZero

\* Ending a transaction preserves types and, for the transactions that remain,
\* the lock discipline as long as none of them holds the lock.
LEMMA FinishKeeps ==
    ASSUME PoolInv, NEW t \in Tx, Finish(t)
    PROVE  /\ lock' \in Tx \union {NoTx}
           /\ pc' \in [Tx -> {"idle", "wait", "locked", "write"}]
           /\ job' \in [Tx -> Jobs]
           /\ view' \in [Tx -> PoolRow]
           /\ pc'[t] = "idle"
           /\ \A u \in Tx : pc'[u] = "locked" => 
                 u # t /\ pc[u] = "locked" /\ lock' = u /\ view'[u] = view[u]
<1>1. Idle \in Jobs /\ NoRow \in PoolRow
  BY DEF Idle, Jobs, NoRow, PoolRow
<1>2. QED
  BY <1>1, NullAssumption DEF PoolInv, TypeOK, LockDiscipline, Finish

\* No other transaction is at its locked step when t is.
LEMMA LockedAlone ==
    ASSUME PoolInv, NEW t \in Tx, pc[t] = "locked", NEW u \in Tx, u # t
    PROVE  pc[u] # "locked"
BY DEF PoolInv, LockDiscipline

\* Jobs for an order carry a natural amount.
LEMMA JobType ==
    ASSUME NEW o \in Orders,
           NEW op \in {"reserve", "confirm", "consume", "release", "expire"}
    PROVE  JobOf(op, o) \in Jobs
BY AmountAssumption DEF JobOf, Jobs

\* Starting a transaction preserves the invariant.
LEMMA BeginKeeps ==
    ASSUME PoolInv, NEW t \in Tx, NEW j \in Jobs, NEW s \in {"wait", "write"},
           Begin(t, j, s)
    PROVE  PoolInv'
BY DEF PoolInv, TypeOK, PoolBalanced, NeverOverReserved, LockDiscipline, Begin

-----------------------------------------------------------------------------

\* What LiquidityService promises of a pool row: the row is well typed, its
\* available column is total minus reserved, and it never promises more than
\* it has, for every interleaving of its transactions.
THEOREM PoolInvariant == Spec => []PoolInv
<1>1. Init => PoolInv
  BY TotalAssumption, NullAssumption
  DEF Init, PoolInv, TypeOK, PoolBalanced, NeverOverReserved, LockDiscipline,
      PoolRow, Jobs, Idle, NoRow, Status, Active, Released
<1>2. PoolInv /\ [Next]_vars => PoolInv'
  <2> SUFFICES ASSUME PoolInv, [Next]_vars PROVE PoolInv'
    OBVIOUS
  <2>1. CASE UNCHANGED vars
    BY <2>1 DEF PoolInv, TypeOK, PoolBalanced, NeverOverReserved,
                LockDiscipline, vars
  <2>2. CASE Next
    <3> PICK t \in Tx : Operation(t) \/ LockPool(t) \/ Commit(t) \/ Abort(t)
      BY <2>2 DEF Next
    <3>1. CASE Operation(t)
      <4>1. CASE \E o \in Orders : BeginReserve(t, o)
        BY <4>1, JobType, BeginKeeps DEF BeginReserve
      <4>2. CASE \E o \in Orders : BeginConfirm(t, o)
        BY <4>2, JobType, BeginKeeps DEF BeginConfirm
      <4>3. CASE \E o \in Orders : BeginConsume(t, o)
        BY <4>3, JobType, BeginKeeps DEF BeginConsume
      <4>4. CASE \E o \in Orders : BeginRelease(t, o)
        BY <4>4, JobType, BeginKeeps DEF BeginRelease
      <4>5. CASE BeginAdjust(t)
        <5>1. PICK op \in {"credit", "debit"}, a \in AdjustAmounts :
                 Begin(t, [op |-> op, order |-> NoOrder, amount |-> a], "wait")
          BY <4>5 DEF BeginAdjust
        <5>2. [op |-> op, order |-> NoOrder, amount |-> a] \in Jobs
          BY AdjustAssumption DEF Jobs
        <5>3. QED BY <5>1, <5>2, BeginKeeps
      <4>6. QED BY <3>1, <4>1, <4>2, <4>3, <4>4, <4>5 DEF Operation
    <3>2. CASE LockPool(t)
      BY <3>2, NullAssumption
      DEF LockPool, PoolInv, TypeOK, PoolBalanced, NeverOverReserved,
          LockDiscipline
    <3>3. CASE Commit(t)
      <4>1. CASE CommitReserve(t)
        <5>1. view[t] = pool /\ job[t] \in Jobs
          BY <4>1 DEF CommitReserve, PoolInv, TypeOK, LockDiscipline
        <5>2. pool' \in PoolRow /\ PoolBalanced' /\ NeverOverReserved'
          BY <4>1, <5>1 DEF CommitReserve, PoolInv, TypeOK, PoolRow, Jobs,
                            PoolBalanced, NeverOverReserved
        <5>3. reservation' \in [Orders -> Status]
          BY <4>1 DEF CommitReserve, PoolInv, TypeOK, Status, Active
        <5>4. QED
          BY <4>1, <5>2, <5>3, FinishKeeps, LockedAlone
          DEF CommitReserve, PoolInv, TypeOK, LockDiscipline
      <4>2. CASE CommitConfirm(t)
        <5>1. reservation' \in [Orders -> Status]
          BY <4>2 DEF CommitConfirm, PoolInv, TypeOK, Status, Active
        <5>2. QED
          BY <4>2, <5>1, FinishKeeps
          DEF CommitConfirm, PoolInv, TypeOK, LockDiscipline, PoolBalanced,
              NeverOverReserved
      <4>3. CASE CommitConsume(t)
        <5>1. view[t] = pool /\ job[t] \in Jobs
          BY <4>3 DEF CommitConsume, PoolInv, TypeOK, LockDiscipline
        <5>2. pool' \in PoolRow /\ PoolBalanced' /\ NeverOverReserved'
          BY <4>3, <5>1 DEF CommitConsume, AtLeastZero, PoolInv, TypeOK, PoolRow, 
                            Jobs, PoolBalanced, NeverOverReserved
        <5>3. reservation' \in [Orders -> Status]
          BY <4>3 DEF CommitConsume, PoolInv, TypeOK, Status
        <5>4. payouts' \in [Orders -> Nat]
          <6>1. payouts \in [Orders -> Nat]
            BY DEF PoolInv, TypeOK
          <6>2. payouts' = [payouts EXCEPT ![job[t].order] = @ + 1]
            BY <4>3 DEF CommitConsume
          <6>3. CASE job[t].order \in Orders
            BY <6>1, <6>2, <6>3
          <6>4. CASE job[t].order \notin Orders
            BY <6>1, <6>2, <6>4
          <6>5. QED BY <6>3, <6>4
        <5>5. QED
          BY <4>3, <5>2, <5>3, <5>4, FinishKeeps, LockedAlone
          DEF CommitConsume, PoolInv, TypeOK, LockDiscipline
      <4>4. CASE CommitRelease(t)
        <5>1. view[t] = pool /\ job[t] \in Jobs
          BY <4>4 DEF CommitRelease, PoolInv, TypeOK, LockDiscipline
        <5>2. pool' \in PoolRow /\ PoolBalanced' /\ NeverOverReserved'
          BY <4>4, <5>1 DEF CommitRelease, AtLeastZero, PoolInv, TypeOK, PoolRow,
                            Jobs, PoolBalanced, NeverOverReserved
        <5>3. reservation' \in [Orders -> Status]
          BY <4>4 DEF CommitRelease, TargetStatus, PoolInv, TypeOK, Status, Released
        <5>4. QED
          BY <4>4, <5>2, <5>3, FinishKeeps, LockedAlone
          DEF CommitRelease, PoolInv, TypeOK, LockDiscipline
      <4>5. CASE CommitAdjust(t)
        <5>1. view[t] = pool /\ job[t] \in Jobs
          BY <4>5 DEF CommitAdjust, PoolInv, TypeOK, LockDiscipline
        <5>2. pool' \in PoolRow /\ PoolBalanced' /\ NeverOverReserved'
              /\ adjusted' \in Int
          BY <4>5, <5>1 DEF CommitAdjust, PoolInv, TypeOK, PoolRow, Jobs,
                            PoolBalanced, NeverOverReserved
        <5>3. QED
          BY <4>5, <5>2, FinishKeeps, LockedAlone
          DEF CommitAdjust, PoolInv, TypeOK, LockDiscipline
      <4>6. QED BY <3>3, <4>1, <4>2, <4>3, <4>4, <4>5 DEF Commit
    <3>4. CASE Abort(t)
      BY <3>4, FinishKeeps
      DEF Abort, PoolInv, TypeOK, PoolBalanced, NeverOverReserved, LockDiscipline
    <3>5. QED BY <3>1, <3>2, <3>3, <3>4
  <2>3. QED BY <2>1, <2>2
<1>3. QED BY <1>1, <1>2, PTL DEF Spec

\* Type correctness of the pool, its reservations and its transactions.
THEOREM TypeCorrect == Spec => []TypeOK
<1>1. PoolInv => TypeOK BY DEF PoolInv
<1>2. QED BY <1>1, PoolInvariant, PTL

\* reservedBalance + availableBalance = totalBalance in every reachable state.
THEOREM PoolAlwaysBalanced == Spec => []PoolBalanced
<1>1. PoolInv => PoolBalanced BY DEF PoolInv
<1>2. QED BY <1>1, PoolInvariant, PTL

\* The pool never promises more than it holds.
THEOREM PoolNeverOverReserved == Spec => []NeverOverReserved
<1>1. PoolInv => NeverOverReserved BY DEF PoolInv
<1>2. QED BY <1>1, PoolInvariant, PTL

-----------------------------------------------------------------------------
(* Operations on one order that do not overlap.                            *)

\* What a transaction read of its order's reservation before it waited for the
\* pool lock still holds when it has it.
JobFits(t) ==
    /\ pc[t] = "idle" => job[t] = Idle
    /\ pc[t] = "write" => job[t].order \in Orders /\ reservation[job[t].order] \in Active
    /\ pc[t] \in {"wait", "locked"} =>
         \/ job[t].op \in {"credit", "debit"} /\ job[t].amount \in AdjustAmounts
         \/ /\ job[t].op \in {"reserve", "consume", "release", "expire"}
            /\ job[t].order \in Orders
            /\ job[t].amount = Amount[job[t].order]
            /\ IF job[t].op = "reserve" THEN reservation[job[t].order] = "NONE"
                                        ELSE reservation[job[t].order] \in Active

PaidOnceConsumed ==
    \A o \in Orders : payouts[o] = IF reservation[o] = "CONSUMED" THEN 1 ELSE 0

\* The inductive invariant of the serial specification.
SerialInv ==
    /\ PoolInv /\ OneTransactionPerOrder /\ PaidOnceConsumed
    /\ \A t \in Tx : JobFits(t)

\* The invariant of the overlapping transactions holds of the serial ones too.
LEMMA SerialPool == SerialSpec => []PoolInv
<1>1. SerialSpec => Spec
  <2>1. [Next /\ OneTransactionPerOrder']_vars => [Next]_vars
    OBVIOUS
  <2>2. QED
    BY <2>1, PTL DEF SerialSpec, Spec
<1>2. QED
  BY <1>1, PoolInvariant, PTL

\* What a transaction that is not at work on the order of t read stays true.
LEMMA OthersFit ==
    ASSUME SerialInv, NEW t \in Tx,
           \A u \in Tx \ {t} : pc'[u] = pc[u] /\ job'[u] = job[u],
           \A o \in Orders : o # job[t].order => reservation'[o] = reservation[o],
           JobFits(t)'
    PROVE  \A u \in Tx : JobFits(u)'
<1>1. SUFFICES ASSUME NEW u \in Tx, u # t PROVE JobFits(u)'
  OBVIOUS
<1>2. JobFits(u) /\ (job[u].order \in Orders => job[u].order # job[t].order)
  BY <1>1, NullAssumption DEF SerialInv, OneTransactionPerOrder
<1>3. pc'[u] = pc[u] /\ job'[u] = job[u]
  BY <1>1
<1>4. QED
  BY <1>2, <1>3 DEF JobFits

\* A transaction that starts found its reservation as the operation needs it.
LEMMA OperationFits ==
    ASSUME SerialInv, NEW t \in Tx, Operation(t)
    PROVE  /\ \A u \in Tx : JobFits(u)'
           /\ UNCHANGED <<pool, reservation, payouts, adjusted>>
<1>1. ASSUME NEW j \in Jobs, NEW s \in {"wait", "write"}, Begin(t, j, s),
             \/ s = "write" /\ j.order \in Orders /\ reservation[j.order] \in Active
             \/ /\ s = "wait"
                /\ \/ j.op \in {"credit", "debit"} /\ j.amount \in AdjustAmounts
                   \/ /\ j.op \in {"reserve", "consume", "release", "expire"}
                      /\ j.order \in Orders /\ j.amount = Amount[j.order]
                      /\ IF j.op = "reserve" THEN reservation[j.order] = "NONE"
                                             ELSE reservation[j.order] \in Active
      PROVE  /\ \A u \in Tx : JobFits(u)'
             /\ UNCHANGED <<pool, reservation, payouts, adjusted>>
  <2>1. pc'[t] = s /\ job'[t] = j /\ \A u \in Tx \ {t} : pc'[u] = pc[u] /\ job'[u] = job[u]
    BY <1>1 DEF Begin, SerialInv, PoolInv, TypeOK
  <2>2. UNCHANGED <<pool, reservation, payouts, adjusted>>
    BY <1>1 DEF Begin
  <2>3. JobFits(t)'
    BY <1>1, <2>1, <2>2 DEF JobFits
  <2>4. QED
    BY <2>1, <2>2, <2>3, OthersFit
<1>2. CASE \E o \in Orders : BeginReserve(t, o)
  BY <1>1, <1>2, JobType DEF BeginReserve, JobOf
<1>3. CASE \E o \in Orders : BeginConfirm(t, o)
  BY <1>1, <1>3, JobType DEF BeginConfirm, JobOf, Active
<1>4. CASE \E o \in Orders : BeginConsume(t, o)
  BY <1>1, <1>4, JobType DEF BeginConsume, JobOf
<1>5. CASE \E o \in Orders : BeginRelease(t, o)
  BY <1>1, <1>5, JobType DEF BeginRelease, JobOf
<1>6. CASE BeginAdjust(t)
  <2>1. PICK op \in {"credit", "debit"}, a \in AdjustAmounts :
           Begin(t, [op |-> op, order |-> NoOrder, amount |-> a], "wait")
    BY <1>6 DEF BeginAdjust
  <2>2. [op |-> op, order |-> NoOrder, amount |-> a] \in Jobs
    BY AdjustAssumption DEF Jobs
  <2>3. QED
    BY <1>1, <2>1, <2>2
<1>7. QED
  BY <1>2, <1>3, <1>4, <1>5, <1>6 DEF Operation

\* A transaction that ends leaves the others as they are and fits.
LEMMA FinishFits ==
    ASSUME SerialInv, NEW t \in Tx, Finish(t),
           \A o \in Orders : o # job[t].order => reservation'[o] = reservation[o]
    PROVE  \A u \in Tx : JobFits(u)'
<1>1. /\ pc'[t] = "idle" /\ job'[t] = Idle
      /\ \A u \in Tx \ {t} : pc'[u] = pc[u] /\ job'[u] = job[u]
  BY DEF Finish, SerialInv, PoolInv, TypeOK
<1>2. JobFits(t)'
  BY <1>1 DEF JobFits
<1>3. QED
  BY <1>1, <1>2, OthersFit

\* Locking the pool keeps what was read of the reservation.
LEMMA LockFits ==
    ASSUME SerialInv, NEW t \in Tx, LockPool(t)
    PROVE  \A u \in Tx : JobFits(u)'
<1>1. /\ pc[t] = "wait" /\ pc'[t] = "locked" /\ UNCHANGED <<job, reservation>>
      /\ \A u \in Tx \ {t} : pc'[u] = pc[u]
  BY DEF LockPool, SerialInv, PoolInv, TypeOK
<1>2. JobFits(t)'
  BY <1>1 DEF SerialInv, JobFits
<1>3. QED
  BY <1>1, <1>2, OthersFit

\* A commit on an order's reservation touches no other order's claim.
LEMMA ClaimStep ==
    ASSUME TypeOK, NEW o \in Orders, NEW s \in Status,
           reservation' = [reservation EXCEPT ![o] = s]
    PROVE  /\ [p \in Orders |-> Claimed(p)]'
                = [[p \in Orders |-> Claimed(p)] EXCEPT ![o] = Claimed(o)']
           /\ reservation'[o] = s
           /\ \A p \in Orders \ {o} : reservation'[p] = reservation[p]
<1>1. reservation'[o] = s /\ \A p \in Orders \ {o} : reservation'[p] = reservation[p]
  BY DEF TypeOK
<1>2. \A p \in Orders \ {o} : Claimed(p)' = Claimed(p)
  BY <1>1 DEF Claimed
<1>3. QED
  BY <1>1, <1>2

\* Every commit is one operation of the pool, on the row the last one left.
LEMMA CommitServes ==
    ASSUME SerialInv, NEW t \in Tx, Commit(t)
    PROVE  /\ [Served!Next]_(Served!vars)
           /\ \A u \in Tx : JobFits(u)'
           /\ PaidOnceConsumed'
<1>0. TypeOK /\ LockDiscipline /\ JobFits(t) /\ PaidOnceConsumed
  BY DEF SerialInv, PoolInv
<1> DEFINE claim == [p \in Orders |-> Claimed(p)]
<1>a. /\ pool \in PoolRow /\ reservation \in [Orders -> Status]
      /\ payouts \in [Orders -> Nat] /\ adjusted \in Int
  BY <1>0 DEF TypeOK
<1>1. CASE CommitReserve(t)
  <2>1. PICK o \in Orders : /\ o = job[t].order /\ reservation[o] = "NONE"
                            /\ view[t] = pool /\ job[t].amount = Amount[o]
    BY <1>0, <1>1 DEF CommitReserve, LockDiscipline, JobFits
  <2>2. reservation' = [reservation EXCEPT ![o] = "RESERVED"] /\ "RESERVED" \in Status
    BY <1>1, <2>1 DEF CommitReserve, Status, Active
  <2>3. claim' = [claim EXCEPT ![o] = "held"] /\ claim[o] = "none"
    <3>1. reservation'[o] = "RESERVED" /\ claim' = [claim EXCEPT ![o] = Claimed(o)']
      BY <1>0, <2>1, <2>2, ClaimStep
    <3>2. Claimed(o)' = "held" /\ Claimed(o) = "none"
      BY <2>1, <3>1 DEF Claimed, Active
    <3>3. QED
      BY <2>1, <3>1, <3>2
  <2>4. /\ pool.total - pool.reserved >= Amount[o] /\ pool'.total = pool.total
        /\ pool'.reserved = pool.reserved + Amount[o] /\ adjusted' = adjusted
    BY <1>1, <2>1 DEF CommitReserve
  <2>5. Served!Claim(o)
    BY <2>3, <2>4 DEF Served!Claim
  <2>6. PaidOnceConsumed'
    BY <1>0, <1>1, <2>1, <2>2, ClaimStep DEF CommitReserve, PaidOnceConsumed
  <2>7. \A u \in Tx : JobFits(u)'
    BY <1>0, <1>1, <2>1, <2>2, ClaimStep, FinishFits DEF CommitReserve
  <2>8. QED
    BY <2>1, <2>5, <2>6, <2>7 DEF Served!Next
<1>2. CASE CommitConfirm(t)
  <2>1. PICK o \in Orders : o = job[t].order /\ reservation[o] \in Active
    BY <1>0, <1>2 DEF CommitConfirm, JobFits
  <2>2. reservation' = [reservation EXCEPT ![o] = "CONFIRMED"] /\ "CONFIRMED" \in Status
    BY <1>2, <2>1 DEF CommitConfirm, Status, Active
  <2>3. claim' = claim
    <3>1. reservation'[o] = "CONFIRMED" /\ claim' = [claim EXCEPT ![o] = Claimed(o)']
      BY <1>0, <2>1, <2>2, ClaimStep
    <3>2. Claimed(o)' = "held" /\ Claimed(o) = "held"
      BY <2>1, <3>1 DEF Claimed, Active
    <3>3. QED
      BY <2>1, <3>1, <3>2
  <2>4. UNCHANGED Served!vars
    BY <1>2, <2>3 DEF CommitConfirm, Served!vars
  <2>5. PaidOnceConsumed'
    BY <1>0, <1>2, <2>1, <2>2, ClaimStep DEF CommitConfirm, PaidOnceConsumed, Active
  <2>6. \A u \in Tx : JobFits(u)'
    BY <1>0, <1>2, <2>1, <2>2, ClaimStep, FinishFits DEF CommitConfirm
  <2>7. QED
    BY <2>4, <2>5, <2>6
<1>3. CASE CommitConsume(t)
  <2>1. PICK o \in Orders : /\ o = job[t].order /\ reservation[o] \in Active
                            /\ view[t] = pool /\ job[t].amount = Amount[o]
    BY <1>0, <1>3 DEF CommitConsume, LockDiscipline, JobFits
  <2>2. reservation' = [reservation EXCEPT ![o] = "CONSUMED"] /\ "CONSUMED" \in Status
    BY <1>3, <2>1 DEF CommitConsume, Status
  <2>3. claim' = [claim EXCEPT ![o] = "spent"] /\ claim[o] = "held"
    <3>1. reservation'[o] = "CONSUMED" /\ claim' = [claim EXCEPT ![o] = Claimed(o)']
      BY <1>0, <2>1, <2>2, ClaimStep
    <3>2. Claimed(o)' = "spent" /\ Claimed(o) = "held"
      BY <2>1, <3>1 DEF Claimed, Active
    <3>3. QED
      BY <2>1, <3>1, <3>2
  <2>4. /\ pool'.total = Served!Less(pool.total, Amount[o])
        /\ pool'.reserved = Served!Less(pool.reserved, Amount[o])
        /\ adjusted' = adjusted
    BY <1>3, <1>a, <2>1, AmountAssumption DEF CommitConsume, AtLeastZero, Served!Less, PoolRow
  <2>5. Served!Spend(o)
    BY <2>3, <2>4 DEF Served!Spend
  <2>6. PaidOnceConsumed'
    <3>1. payouts[o] = 0 /\ payouts' = [payouts EXCEPT ![o] = @ + 1]
      BY <1>0, <1>3, <2>1 DEF CommitConsume, PaidOnceConsumed, Active
    <3>2. payouts'[o] = 1 /\ \A p \in Orders \ {o} : payouts'[p] = payouts[p]
      BY <1>a, <2>1, <3>1
    <3>3. /\ reservation'[o] = "CONSUMED"
          /\ \A p \in Orders \ {o} : reservation'[p] = reservation[p]
      BY <1>0, <2>1, <2>2, ClaimStep
    <3>4. QED
      BY <1>0, <3>2, <3>3 DEF PaidOnceConsumed
  <2>7. \A u \in Tx : JobFits(u)'
    BY <1>0, <1>3, <2>1, <2>2, ClaimStep, FinishFits DEF CommitConsume
  <2>8. QED
    BY <2>1, <2>5, <2>6, <2>7 DEF Served!Next
<1>4. CASE CommitRelease(t)
  <2>1. PICK o \in Orders : /\ o = job[t].order /\ reservation[o] \in Active
                            /\ view[t] = pool /\ job[t].amount = Amount[o]
    BY <1>0, <1>4 DEF CommitRelease, LockDiscipline, JobFits
  <2>2. PICK s \in Released : reservation' = [reservation EXCEPT ![o] = s] /\ s \in Status
    BY <1>4, <2>1 DEF CommitRelease, TargetStatus, Released, Status
  <2>3. claim' = [claim EXCEPT ![o] = "returned"] /\ claim[o] = "held"
    BY <1>0, <2>1, <2>2, ClaimStep DEF Claimed, Active, Released
  <2>4. /\ pool'.total = pool.total
        /\ pool'.reserved = Served!Less(pool.reserved, Amount[o])
        /\ adjusted' = adjusted
    BY <1>4, <1>a, <2>1, AmountAssumption DEF CommitRelease, AtLeastZero, Served!Less, PoolRow
  <2>5. Served!Return(o)
    BY <2>3, <2>4 DEF Served!Return
  <2>6. PaidOnceConsumed'
    BY <1>0, <1>4, <2>1, <2>2, ClaimStep DEF CommitRelease, PaidOnceConsumed, Active, Released
  <2>7. \A u \in Tx : JobFits(u)'
    BY <1>0, <1>4, <2>1, <2>2, ClaimStep, FinishFits DEF CommitRelease
  <2>8. QED
    BY <2>1, <2>5, <2>6, <2>7 DEF Served!Next
<1>5. CASE CommitAdjust(t)
  <2>1. view[t] = pool /\ job[t].amount \in AdjustAmounts /\ job[t].amount \in Nat
    BY <1>0, <1>5, AdjustAssumption DEF CommitAdjust, LockDiscipline, JobFits
  <2>2. UNCHANGED <<reservation, payouts>>
    BY <1>5 DEF CommitAdjust
  <2>3. PICK d \in {job[t].amount, -job[t].amount} :
           /\ pool.total + d >= pool.reserved /\ pool'.total = pool.total + d
           /\ pool'.reserved = pool.reserved /\ adjusted' = adjusted + d
    BY <1>5, <1>a, <2>1 DEF CommitAdjust, PoolRow
  <2>4. claim' = claim
    BY <2>2 DEF Claimed
  <2>5. Served!Adjust(d)
    BY <2>3, <2>4 DEF Served!Adjust
  <2>6. QED
    BY <1>0, <1>5, <2>1, <2>2, <2>5, FinishFits DEF Served!Next, PaidOnceConsumed, CommitAdjust
<1>6. QED
  BY <1>1, <1>2, <1>3, <1>4, <1>5 DEF Commit

\* Every step of the serial transactions is a step of the pool or none, and
\* preserves the invariant.
LEMMA SerialStep ==
    ASSUME SerialInv, PoolInv', [Next /\ OneTransactionPerOrder']_vars
    PROVE  SerialInv' /\ [Served!Next]_(Served!vars)
<1>1. CASE UNCHANGED vars
  BY <1>1 DEF SerialInv, OneTransactionPerOrder, PaidOnceConsumed, JobFits, Served!vars,
     Claimed, vars
<1>2. CASE Next /\ OneTransactionPerOrder'
  <2> PICK t \in Tx : Operation(t) \/ LockPool(t) \/ Commit(t) \/ Abort(t)
    BY <1>2 DEF Next
  <2>1. ASSUME UNCHANGED <<pool, reservation, payouts, adjusted>>
        PROVE  PaidOnceConsumed' /\ UNCHANGED Served!vars
    BY <2>1 DEF SerialInv, PaidOnceConsumed, Served!vars, Claimed
  <2>2. CASE Operation(t)
    BY <1>2, <2>1, <2>2, OperationFits DEF SerialInv
  <2>3. CASE LockPool(t)
    BY <1>2, <2>1, <2>3, LockFits DEF SerialInv, LockPool
  <2>4. CASE Commit(t)
    BY <1>2, <2>4, CommitServes DEF SerialInv
  <2>5. CASE Abort(t)
    BY <1>2, <2>1, <2>5, FinishFits DEF SerialInv, Abort
  <2>6. QED
    BY <2>2, <2>3, <2>4, <2>5
<1>3. QED
  BY <1>1, <1>2

\* The serial transactions start where the pool starts.
LEMMA SerialInit == Init /\ PoolInv => SerialInv /\ Served!Init
<1> SUFFICES ASSUME Init, PoolInv PROVE SerialInv /\ Served!Init
  OBVIOUS
<1>1. OneTransactionPerOrder
  BY DEF Init, OneTransactionPerOrder, Idle
<1>2. \A t \in Tx : JobFits(t)
  BY DEF Init, JobFits
<1>3. PaidOnceConsumed
  BY DEF Init, PaidOnceConsumed
<1>4. [o \in Orders |-> Claimed(o)] = [o \in Orders |-> "none"]
  BY DEF Init, Claimed
<1>5. Served!Init
  BY <1>4 DEF Init, Served!Init
<1>6. QED
  BY <1>1, <1>2, <1>3, <1>5 DEF SerialInv

\* The invariant of the serial transactions.
THEOREM SerialInvariant == SerialSpec => []SerialInv
BY SerialInit, SerialStep, SerialPool, PTL DEF SerialSpec

\* As long as the callers do not overlap on one order, LiquidityService serves
\* one operation after the other: no update is lost between the read of the
\* reservation and the FOR UPDATE lock (liquidity.service.ts:140, 177, 256).
THEOREM PoolImplemented == SerialSpec => ImplementsPool
BY SerialInit, SerialStep, SerialPool, SerialInvariant, PTL
   DEF SerialSpec, ImplementsPool, Served!Spec

-----------------------------------------------------------------------------
(* What the columns add up to.                                             *)

\* The amounts of any orders are natural numbers, and any orders are finitely many.
LEMMA AmountsAddUp ==
    ASSUME NEW S, S \subseteq Orders
    PROVE  NaturalOn(Amount, S) /\ IsFiniteSet(S) /\ SumFunctionOnSet(Amount, S) \in Nat
<1>1. NaturalOn(Amount, S)
  BY AmountAssumption DEF NaturalOn
<1>2. IsFiniteSet(S)
  BY OrdersAssumption, FS_Subset
<1>3. QED
  BY <1>1, <1>2, SumIsNat

\* A reservation that becomes active adds its amount to what is promised.
LEMMA PromisedGrows ==
    ASSUME reservation \in [Orders -> Status], NEW o \in Orders, NEW s \in Active,
           reservation' = [reservation EXCEPT ![o] = s]
    PROVE  Promised' = IF o \in ActiveOrders THEN Promised ELSE Promised + Amount[o]
<1>1. ActiveOrders \subseteq Orders /\ ActiveOrders' = ActiveOrders \union {o}
  BY DEF ActiveOrders
<1>2. CASE o \in ActiveOrders
  <2>1. ActiveOrders' = ActiveOrders
    BY <1>1, <1>2
  <2>2. QED
    BY <1>2, <2>1 DEF Promised
<1>3. CASE o \notin ActiveOrders
  <2>1. IsFiniteSet(ActiveOrders) /\ NaturalOn(Amount, ActiveOrders \union {o})
        /\ Promised \in Nat
    BY <1>1, AmountsAddUp DEF Promised
  <2>2. Promised' = Amount[o] + Promised
    BY <1>1, <1>3, <2>1, SumAdd DEF Promised
  <2>3. Amount[o] \in Nat
    BY AmountAssumption
  <2>4. QED
    BY <1>3, <2>1, <2>2, <2>3
<1>4. QED
  BY <1>2, <1>3

\* A reservation that stops being active takes its amount away, and was counted.
LEMMA PromisedShrinks ==
    ASSUME reservation \in [Orders -> Status], NEW o \in Orders, NEW s, s \notin Active,
           reservation' = [reservation EXCEPT ![o] = s]
    PROVE  /\ Promised = IF o \in ActiveOrders THEN Promised' + Amount[o] ELSE Promised'
           /\ Promised' \in Nat
<1>1. ActiveOrders \subseteq Orders /\ ActiveOrders' = ActiveOrders \ {o}
  BY DEF ActiveOrders
<1>2. Promised' \in Nat
  BY <1>1, AmountsAddUp DEF Promised
<1>3. CASE o \notin ActiveOrders
  <2>1. ActiveOrders' = ActiveOrders
    BY <1>1, <1>3
  <2>2. QED
    BY <1>2, <1>3, <2>1 DEF Promised
<1>4. CASE o \in ActiveOrders
  <2>1. IsFiniteSet(ActiveOrders) /\ IntegerOn(Amount, ActiveOrders)
    BY <1>1, AmountsAddUp, NaturalOnSubset
  <2>2. Promised = Amount[o] + Promised'
    BY <1>1, <1>4, <2>1, SumTake DEF Promised
  <2>3. Amount[o] \in Nat
    BY AmountAssumption
  <2>4. QED
    BY <1>2, <1>4, <2>2, <2>3
<1>5. QED
  BY <1>3, <1>4

\* What is promised is a natural number.
LEMMA PromisedType == Promised \in Nat
BY AmountsAddUp DEF Promised, ActiveOrders

\* A payout row adds its amount to what was paid out.
LEMMA PaidOutGrows ==
    ASSUME payouts \in [Orders -> Nat], NEW o \in Orders,
           payouts' = [payouts EXCEPT ![o] = @ + 1]
    PROVE  PaidOut' = PaidOut + Amount[o]
<1> DEFINE f == [p \in Orders |-> Amount[p] * payouts[p]]
           g == [p \in Orders |-> Amount[p] * payouts'[p]]
<1>1. PaidOut = SumFunctionOnSet(f, Orders) /\ PaidOut' = SumFunctionOnSet(g, Orders)
  BY DEF PaidOut, SumFunction
<1>2. \A p \in Orders : Amount[p] \in Nat /\ payouts[p] \in Nat /\ payouts'[p] \in Nat
  <2>1. payouts'[o] = payouts[o] + 1 /\ \A p \in Orders \ {o} : payouts'[p] = payouts[p]
    OBVIOUS
  <2>2. \A p \in Orders : Amount[p] \in Nat /\ payouts[p] \in Nat
    BY AmountAssumption
  <2>3. QED
    BY <2>1, <2>2
<1>3. NaturalOn(f, Orders) /\ NaturalOn(g, Orders)
  BY <1>2 DEF NaturalOn
<1>4. \A p \in Orders \ {o} : g[p] = f[p]
  OBVIOUS
<1>5. g[o] = f[o] + Amount[o]
  <2>1. payouts'[o] = payouts[o] + 1
    OBVIOUS
  <2>2. Amount[o] * (payouts[o] + 1) = Amount[o] * payouts[o] + Amount[o]
    BY <1>2
  <2>3. QED
    BY <2>1, <2>2
<1>6. SumFunctionOnSet(f, Orders) \in Nat /\ f[o] \in Nat
  BY <1>3, OrdersAssumption, SumIsNat DEF NaturalOn
<1> HIDE DEF f, g
<1>7. SumFunctionOnSet(g, Orders) = SumFunctionOnSet(f, Orders) - f[o] + g[o]
  BY <1>3, <1>4, OrdersAssumption, SumOneChanged
<1>8. QED
  BY <1>1, <1>2, <1>5, <1>6, <1>7

\* The books of the serial transactions.
BooksInv == ExactAccounting /\ LedgerExplainsTotal

\* Nothing of the books changes where reservations, payouts and pool stay.
LEMMA BooksStay ==
    ASSUME BooksInv, UNCHANGED <<pool, reservation, payouts, adjusted>>
    PROVE  BooksInv'
BY DEF BooksInv, ExactAccounting, LedgerExplainsTotal, Promised, ActiveOrders, PaidOut

\* What was paid out is an integer.
LEMMA PaidOutType == payouts \in [Orders -> Nat] => PaidOut \in Nat
<1> SUFFICES ASSUME payouts \in [Orders -> Nat] PROVE PaidOut \in Nat
  OBVIOUS
<1> DEFINE f == [p \in Orders |-> Amount[p] * payouts[p]]
<1>1. NaturalOn(f, Orders)
  BY AmountAssumption DEF NaturalOn
<1>2. PaidOut = SumFunctionOnSet(f, Orders)
  BY DEF PaidOut, SumFunction
<1>3. QED
  BY <1>1, <1>2, OrdersAssumption, SumIsNat

\* Every commit of the serial transactions moves both sides of the books alike.
\* That a consumed or released amount is not more than what is reserved, so
\* that the clamp at zero never bites, follows from the books before it.
LEMMA CommitKeepsBooks ==
    ASSUME SerialInv, BooksInv, NEW t \in Tx, Commit(t)
    PROVE  BooksInv'
<1>0. /\ TypeOK /\ LockDiscipline /\ JobFits(t) /\ NeverOverReserved
      /\ pool \in PoolRow /\ reservation \in [Orders -> Status]
      /\ payouts \in [Orders -> Nat] /\ adjusted \in Int
  BY DEF SerialInv, PoolInv, TypeOK
<1>a. /\ pool.reserved = Promised /\ pool.total = InitialTotal + adjusted - PaidOut
      /\ Promised \in Nat /\ PaidOut \in Nat /\ pool.reserved <= pool.total
      /\ pool.total \in Nat /\ InitialTotal \in Nat
  BY <1>0, PromisedType, PaidOutType, TotalAssumption
     DEF BooksInv, ExactAccounting, LedgerExplainsTotal, NeverOverReserved, PoolRow
<1> SUFFICES pool'.reserved = Promised' /\ pool'.total = InitialTotal + adjusted' - PaidOut'
  BY DEF BooksInv, ExactAccounting, LedgerExplainsTotal
<1>1. CASE CommitReserve(t)
  <2>1. PICK o \in Orders : /\ o = job[t].order /\ reservation[o] = "NONE"
                            /\ view[t] = pool /\ job[t].amount = Amount[o]
    BY <1>0, <1>1 DEF CommitReserve, LockDiscipline, JobFits
  <2>2. /\ reservation' = [reservation EXCEPT ![o] = "RESERVED"] /\ "RESERVED" \in Active
        /\ o \notin ActiveOrders
    BY <1>1, <2>1 DEF CommitReserve, Active, ActiveOrders
  <2>3. Promised' = Promised + Amount[o]
    BY <1>0, <2>2, PromisedGrows
  <2>4. /\ pool'.reserved = pool.reserved + Amount[o] /\ pool'.total = pool.total
        /\ UNCHANGED <<payouts, adjusted>>
    BY <1>1, <2>1 DEF CommitReserve
  <2>5. PaidOut' = PaidOut
    BY <2>4 DEF PaidOut
  <2>6. QED
    BY <1>a, <2>3, <2>4, <2>5
<1>2. CASE CommitConfirm(t)
  <2>1. PICK o \in Orders : o = job[t].order /\ reservation[o] \in Active
    BY <1>0, <1>2 DEF CommitConfirm, JobFits
  <2>2. /\ reservation' = [reservation EXCEPT ![o] = "CONFIRMED"] /\ "CONFIRMED" \in Active
        /\ o \in ActiveOrders
    BY <1>2, <2>1 DEF CommitConfirm, Active, ActiveOrders
  <2>3. Promised' = Promised
    BY <1>0, <2>2, PromisedGrows
  <2>4. UNCHANGED <<pool, payouts, adjusted>>
    BY <1>2 DEF CommitConfirm
  <2>5. PaidOut' = PaidOut
    BY <2>4 DEF PaidOut
  <2>6. QED
    BY <1>a, <2>3, <2>4, <2>5
<1>3. CASE CommitConsume(t)
  <2>1. PICK o \in Orders : /\ o = job[t].order /\ reservation[o] \in Active
                            /\ view[t] = pool /\ job[t].amount = Amount[o]
    BY <1>0, <1>3 DEF CommitConsume, LockDiscipline, JobFits
  <2>2. /\ reservation' = [reservation EXCEPT ![o] = "CONSUMED"] /\ "CONSUMED" \notin Active
        /\ o \in ActiveOrders
    BY <1>3, <2>1 DEF CommitConsume, Active, ActiveOrders
  <2>3. Promised = Promised' + Amount[o] /\ Promised' \in Nat
    BY <1>0, <2>2, PromisedShrinks
  <2>4. PaidOut' = PaidOut + Amount[o]
    BY <1>0, <1>3, <2>1, PaidOutGrows DEF CommitConsume
  <2>5. Amount[o] \in Nat
    BY AmountAssumption
  <2>6. /\ pool'.reserved = AtLeastZero(pool.reserved - Amount[o])
        /\ pool'.total = AtLeastZero(pool.total - Amount[o]) /\ adjusted' = adjusted
    BY <1>3, <2>1 DEF CommitConsume
  <2>7. QED
    BY <1>0, <1>a, <2>3, <2>4, <2>5, <2>6 DEF AtLeastZero
<1>4. CASE CommitRelease(t)
  <2>1. PICK o \in Orders : /\ o = job[t].order /\ reservation[o] \in Active
                            /\ view[t] = pool /\ job[t].amount = Amount[o]
    BY <1>0, <1>4 DEF CommitRelease, LockDiscipline, JobFits
  <2>2. /\ reservation' = [reservation EXCEPT ![o] = TargetStatus(job[t].op)]
        /\ TargetStatus(job[t].op) \notin Active /\ o \in ActiveOrders
    BY <1>4, <2>1 DEF CommitRelease, TargetStatus, Active, ActiveOrders
  <2>3. Promised = Promised' + Amount[o] /\ Promised' \in Nat
    BY <1>0, <2>2, PromisedShrinks
  <2>4. Amount[o] \in Nat
    BY AmountAssumption
  <2>5. /\ pool'.reserved = AtLeastZero(pool.reserved - Amount[o])
        /\ pool'.total = pool.total /\ UNCHANGED <<payouts, adjusted>>
    BY <1>4, <2>1 DEF CommitRelease
  <2>6. PaidOut' = PaidOut
    BY <2>5 DEF PaidOut
  <2>7. QED
    BY <1>0, <1>a, <2>3, <2>4, <2>5, <2>6 DEF AtLeastZero
<1>5. CASE CommitAdjust(t)
  <2>1. view[t] = pool /\ job[t].amount \in Nat
    BY <1>0, <1>5, AdjustAssumption DEF CommitAdjust, LockDiscipline, JobFits
  <2>2. UNCHANGED <<reservation, payouts>> /\ pool'.reserved = pool.reserved
    BY <1>5 DEF CommitAdjust
  <2>3. Promised' = Promised /\ PaidOut' = PaidOut
    BY <2>2 DEF Promised, ActiveOrders, PaidOut
  <2>4. PICK d \in {job[t].amount, -job[t].amount} :
           pool'.total = pool.total + d /\ adjusted' = adjusted + d
    BY <1>5, <2>1 DEF CommitAdjust
  <2>5. QED
    BY <1>0, <1>a, <2>1, <2>2, <2>3, <2>4
<1>6. QED
  BY <1>1, <1>2, <1>3, <1>4, <1>5 DEF Commit

\* Every step keeps the books.
LEMMA BooksStep ==
    ASSUME SerialInv, BooksInv, [Next /\ OneTransactionPerOrder']_vars
    PROVE  BooksInv'
<1>1. CASE UNCHANGED vars
  BY <1>1, BooksStay DEF vars
<1>2. CASE Next
  <2> PICK t \in Tx : Operation(t) \/ LockPool(t) \/ Commit(t) \/ Abort(t)
    BY <1>2 DEF Next
  <2>1. CASE Operation(t)
    BY <2>1, OperationFits, BooksStay
  <2>2. CASE LockPool(t) \/ Abort(t)
    BY <2>2, BooksStay DEF LockPool, Abort
  <2>3. CASE Commit(t)
    BY <2>3, CommitKeepsBooks
  <2>4. QED
    BY <2>1, <2>2, <2>3
<1>3. QED
  BY <1>1, <1>2

\* An empty pool's books.
LEMMA BooksInit == Init => BooksInv
<1> SUFFICES ASSUME Init PROVE BooksInv
  OBVIOUS
<1>1. ActiveOrders = {}
  BY DEF Init, ActiveOrders, Active
<1>2. Promised = 0
  BY <1>1, SumEmpty DEF Promised
<1>3. PaidOut = 0
  <2> DEFINE f == [p \in Orders |-> Amount[p] * payouts[p]]
  <2>1. PaidOut = SumFunctionOnSet(f, Orders) /\ SumFunctionOnSet(f, {}) = 0
    BY SumEmpty DEF PaidOut, SumFunction
  <2>2. \A p \in Orders : f[p] = 0
    BY AmountAssumption DEF Init
  <2>3. NaturalOn(f, Orders) /\ NaturalOn(f, {})
    BY <2>2 DEF NaturalOn
  <2>4. \A p \in Orders \ {} : f[p] = 0
    BY <2>2
  <2> HIDE DEF f
  <2>5. SumFunctionOnSet(f, Orders) <= SumFunctionOnSet(f, {})
    BY <2>3, <2>4, OrdersAssumption, SumBounded
  <2>6. SumFunctionOnSet(f, Orders) \in Nat
    BY <2>3, OrdersAssumption, SumIsNat
  <2>7. QED
    BY <2>1, <2>5, <2>6
<1>4. QED
  BY <1>2, <1>3, TotalAssumption DEF Init, BooksInv, ExactAccounting, LedgerExplainsTotal

\* The books of the serial transactions are right in every reachable state.
LEMMA BooksInvariant == SerialSpec => []BooksInv
BY BooksInit, BooksStep, SerialInvariant, PTL DEF SerialSpec

\* As long as the callers do not overlap on one order, reservedBalance is the
\* sum of the live reservations to the stroop (liquidity.service.ts:88, 207, 287).
THEOREM ReservedIsExact == SerialSpec => []ExactAccounting
BY BooksInvariant, PTL DEF BooksInv

\* ... and totalBalance is what the treasury ledger adds up to: the clamp at
\* zero (liquidity.service.ts:203) never swallows a part of a payout.
THEOREM LedgerIsExact == SerialSpec => []LedgerExplainsTotal
BY BooksInvariant, PTL DEF BooksInv

-----------------------------------------------------------------------------
(* What overlapping operations on one order cannot do.                     *)

\* What a transaction was begun with, whatever happened to its order since.  A
\* reservation is only created by a transaction that is alone with its order:
\* the order does not exist for anybody else yet.
JobSound(t) ==
    /\ pc[t] = "write" => job[t].order \in Orders
    /\ pc[t] \in {"wait", "locked"} =>
         \/ job[t].op \in {"credit", "debit"}
         \/ /\ job[t].op \in {"reserve", "consume", "release", "expire"}
            /\ job[t].order \in Orders
            /\ job[t].amount = Amount[job[t].order]
            /\ job[t].op = "reserve" =>
                 /\ reservation[job[t].order] = "NONE"
                 /\ \A u \in Tx \ {t} : job[u].order # job[t].order

\* The inductive invariant of the overlapping transactions.
OverlapInv == PoolInv /\ NoStrandedCapacity /\ \A t \in Tx : JobSound(t)

\* A transaction that begins is sound, and the order of no other's reservation
\* is the one it takes up.
LEMMA BeginSound ==
    ASSUME OverlapInv, NEW t \in Tx, NEW j \in Jobs, NEW s \in {"wait", "write"},
           Begin(t, j, s), s = "write" => j.order \in Orders,
           s = "wait" =>
             \/ j.op \in {"credit", "debit"} /\ j.order = NoOrder
             \/ /\ j.op \in {"reserve", "consume", "release", "expire"}
                /\ j.order \in Orders /\ j.amount = Amount[j.order],
           j.op = "reserve" => reservation[j.order] = "NONE"
                               /\ \A u \in Tx : job[u].order # j.order,
           j.order # NoOrder /\ j.op # "reserve" => reservation[j.order] # "NONE"
    PROVE  \A u \in Tx : JobSound(u)'
<1> SUFFICES ASSUME NEW u \in Tx PROVE JobSound(u)'
  OBVIOUS
<1>1. /\ pc'[t] = s /\ job'[t] = j /\ reservation' = reservation
      /\ \A v \in Tx \ {t} : pc'[v] = pc[v] /\ job'[v] = job[v]
  BY DEF Begin, OverlapInv, PoolInv, TypeOK
<1>2. CASE u = t
  BY <1>1, <1>2 DEF JobSound
<1>3. CASE u # t
  <2>1. JobSound(u) /\ pc'[u] = pc[u] /\ job'[u] = job[u]
    BY <1>1, <1>3 DEF OverlapInv
  <2>2. pc[u] \in {"wait", "locked"} /\ job[u].op = "reserve" /\ job[u].order \in Orders
           => j.order # job[u].order
    BY <2>1, NullAssumption DEF JobSound
  <2>3. QED
    BY <1>1, <1>3, <2>1, <2>2 DEF JobSound
<1>4. QED
  BY <1>2, <1>3

\* A transaction that starts leaves all sound and the rows alone.
LEMMA OperationSound ==
    ASSUME OverlapInv, NEW t \in Tx, Operation(t)
    PROVE  (\A u \in Tx : JobSound(u)') /\ UNCHANGED <<pool, reservation>>
<1>0. UNCHANGED <<pool, reservation>>
  BY DEF Operation, BeginReserve, BeginConfirm, BeginConsume, BeginRelease, BeginAdjust, Begin
<1>1. CASE \E o \in Orders : BeginReserve(t, o)
  <2>1. PICK o \in Orders : BeginReserve(t, o)
    BY <1>1
  <2>2. JobOf("reserve", o) \in Jobs /\ JobOf("reserve", o).order = o
        /\ JobOf("reserve", o).op = "reserve" /\ JobOf("reserve", o).amount = Amount[o]
    BY JobType DEF JobOf
  <2>3. QED
    BY <1>0, <2>1, <2>2, BeginSound DEF BeginReserve
<1>2. ASSUME NEW o \in Orders, NEW op \in {"confirm", "consume", "release", "expire"},
             reservation[o] \in Active,
             NEW s, s = IF op = "confirm" THEN "write" ELSE "wait", Begin(t, JobOf(op, o), s)
      PROVE  \A u \in Tx : JobSound(u)'
  <2>1. JobOf(op, o) \in Jobs /\ JobOf(op, o).order = o
        /\ JobOf(op, o).op = op /\ JobOf(op, o).amount = Amount[o]
    BY JobType DEF JobOf
  <2>2. reservation[o] # "NONE" /\ s \in {"wait", "write"} /\ (s = "wait" => op # "confirm")
    BY <1>2 DEF Active
  <2>3. QED
    BY <1>2, <2>1, <2>2, BeginSound
<1>3. CASE \E o \in Orders : BeginConfirm(t, o)
  BY <1>0, <1>2, <1>3 DEF BeginConfirm, Active
<1>4. CASE \E o \in Orders : BeginConsume(t, o)
  BY <1>0, <1>2, <1>4 DEF BeginConsume
<1>5. CASE \E o \in Orders : BeginRelease(t, o)
  BY <1>0, <1>2, <1>5 DEF BeginRelease
<1>6. CASE BeginAdjust(t)
  <2>1. PICK op \in {"credit", "debit"}, a \in AdjustAmounts :
           Begin(t, [op |-> op, order |-> NoOrder, amount |-> a], "wait")
    BY <1>6 DEF BeginAdjust
  <2>2. [op |-> op, order |-> NoOrder, amount |-> a] \in Jobs
    BY AdjustAssumption DEF Jobs
  <2>3. QED
    BY <1>0, <2>1, <2>2, BeginSound
<1>7. QED
  BY <1>1, <1>3, <1>4, <1>5, <1>6 DEF Operation

\* A transaction that ends leaves all sound if it wrote its own order's row only.
LEMMA FinishSound ==
    ASSUME OverlapInv, NEW t \in Tx, Finish(t),
           \A o \in Orders : o # job[t].order => reservation'[o] = reservation[o]
    PROVE  \A u \in Tx : JobSound(u)'
<1> SUFFICES ASSUME NEW u \in Tx PROVE JobSound(u)'
  OBVIOUS
<1>1. /\ pc'[t] = "idle" /\ job'[t] = Idle
      /\ \A v \in Tx \ {t} : pc'[v] = pc[v] /\ job'[v] = job[v]
  BY DEF Finish, OverlapInv, PoolInv, TypeOK
<1>2. CASE u = t
  BY <1>1, <1>2 DEF JobSound
<1>3. CASE u # t
  <2>1. JobSound(u) /\ pc'[u] = pc[u] /\ job'[u] = job[u]
    BY <1>1, <1>3 DEF OverlapInv
  <2>2. Idle.order = NoOrder
    BY DEF Idle
  <2>3. \A v \in Tx \ {u} : job'[v] = job[v] \/ job'[v].order = NoOrder
    BY <1>1, <2>2
  <2>4. QED
    BY <1>3, <2>1, <2>3, NullAssumption DEF JobSound
<1>4. QED
  BY <1>2, <1>3

\* Taking away a clamped amount keeps the order of two numbers.
LEMMA ClampMonotone ==
    ASSUME NEW x \in Nat, NEW y \in Nat, NEW a \in Nat, x <= y + a
    PROVE  AtLeastZero(x - a) <= y
BY DEF AtLeastZero

\* Every commit, on whatever its order's row has become, keeps what is reserved
\* within what is promised.
LEMMA CommitStrandsNothing ==
    ASSUME OverlapInv, NEW t \in Tx, Commit(t)
    PROVE  NoStrandedCapacity' /\ \A u \in Tx : JobSound(u)'
<1>0. /\ TypeOK /\ LockDiscipline /\ JobSound(t)
      /\ pool \in PoolRow /\ reservation \in [Orders -> Status]
  BY DEF OverlapInv, PoolInv, TypeOK
<1>a. /\ pool.reserved <= Promised /\ pool.reserved \in Nat /\ Promised \in Nat
  BY <1>0, PromisedType DEF OverlapInv, NoStrandedCapacity, PoolRow
<1>b. ASSUME NEW o \in Orders, NEW s, reservation' = [reservation EXCEPT ![o] = s]
      PROVE  \A p \in Orders : p # o => reservation'[p] = reservation[p]
  BY <1>0, <1>b
<1>1. CASE CommitReserve(t)
  <2>1. PICK o \in Orders : /\ o = job[t].order /\ reservation[o] = "NONE"
                            /\ view[t] = pool /\ job[t].amount = Amount[o]
    BY <1>0, <1>1 DEF CommitReserve, LockDiscipline, JobSound
  <2>2. /\ reservation' = [reservation EXCEPT ![o] = "RESERVED"] /\ "RESERVED" \in Active
        /\ o \notin ActiveOrders
    BY <1>1, <2>1 DEF CommitReserve, Active, ActiveOrders
  <2>3. Promised' = Promised + Amount[o] /\ Amount[o] \in Nat
    BY <1>0, <2>2, PromisedGrows, AmountAssumption
  <2>4. pool'.reserved = pool.reserved + Amount[o] /\ Finish(t)
    BY <1>1, <2>1 DEF CommitReserve
  <2>5. NoStrandedCapacity'
    BY <1>a, <2>3, <2>4 DEF NoStrandedCapacity
  <2>6. QED
    BY <1>b, <2>1, <2>2, <2>4, <2>5, FinishSound
<1>2. CASE CommitConfirm(t)
  <2>1. PICK o \in Orders : o = job[t].order
    BY <1>0, <1>2 DEF CommitConfirm, JobSound
  <2>2. reservation' = [reservation EXCEPT ![o] = "CONFIRMED"] /\ "CONFIRMED" \in Active
    BY <1>2, <2>1 DEF CommitConfirm, Active
  <2>3. (Promised' = Promised \/ Promised' = Promised + Amount[o]) /\ Amount[o] \in Nat
    BY <1>0, <2>2, PromisedGrows, AmountAssumption
  <2>4. pool' = pool /\ Finish(t)
    BY <1>2 DEF CommitConfirm
  <2>5. NoStrandedCapacity'
    BY <1>a, <2>3, <2>4 DEF NoStrandedCapacity
  <2>6. QED
    BY <1>b, <2>1, <2>2, <2>4, <2>5, FinishSound
<1>3. ASSUME NEW s, s \notin Active, job[t].op \in {"consume", "release", "expire"},
             pc[t] = "locked", reservation' = [reservation EXCEPT ![job[t].order] = s],
             pool'.reserved = AtLeastZero(view[t].reserved - job[t].amount), Finish(t)
      PROVE  NoStrandedCapacity' /\ \A u \in Tx : JobSound(u)'
  <2>1. PICK o \in Orders : o = job[t].order /\ view[t] = pool /\ job[t].amount = Amount[o]
    BY <1>0, <1>3 DEF LockDiscipline, JobSound
  <2>2. reservation' = [reservation EXCEPT ![o] = s]
    BY <1>3, <2>1
  <2>3. /\ Promised = Promised' + Amount[o] \/ Promised = Promised'
        /\ Promised' \in Nat /\ Amount[o] \in Nat
    BY <1>0, <1>3, <2>2, PromisedShrinks, AmountAssumption
  <2>4. pool.reserved <= Promised' + Amount[o]
    BY <1>a, <2>3
  <2>5. NoStrandedCapacity'
    BY <1>3, <1>a, <2>1, <2>3, <2>4, ClampMonotone DEF NoStrandedCapacity
  <2>6. QED
    BY <1>3, <1>b, <2>1, <2>2, <2>5, FinishSound
<1>4. CASE CommitConsume(t)
  <2>1. "CONSUMED" \notin Active
    BY DEF Active
  <2>2. /\ job[t].op = "consume" /\ pc[t] = "locked" /\ Finish(t)
        /\ reservation' = [reservation EXCEPT ![job[t].order] = "CONSUMED"]
        /\ pool'.reserved = AtLeastZero(view[t].reserved - job[t].amount)
    BY <1>4 DEF CommitConsume
  <2>3. QED
    BY <1>3, <2>1, <2>2
<1>5. CASE CommitRelease(t)
  <2>1. TargetStatus(job[t].op) \notin Active
    BY DEF TargetStatus, Active
  <2>2. /\ job[t].op \in {"release", "expire"} /\ pc[t] = "locked" /\ Finish(t)
        /\ reservation' = [reservation EXCEPT ![job[t].order] = TargetStatus(job[t].op)]
        /\ pool'.reserved = AtLeastZero(view[t].reserved - job[t].amount)
    BY <1>5 DEF CommitRelease
  <2>3. QED
    BY <1>3, <2>1, <2>2
<1>6. CASE CommitAdjust(t)
  <2>1. pool'.reserved = pool.reserved /\ reservation' = reservation /\ Finish(t)
    BY <1>6 DEF CommitAdjust
  <2>2. Promised' = Promised
    BY <2>1 DEF Promised, ActiveOrders
  <2>3. NoStrandedCapacity'
    BY <1>a, <2>1, <2>2 DEF NoStrandedCapacity
  <2>4. QED
    BY <2>1, <2>3, FinishSound
<1>7. QED
  BY <1>1, <1>2, <1>4, <1>5, <1>6 DEF Commit

\* Every step of the overlapping transactions preserves the invariant.
LEMMA OverlapStep ==
    ASSUME OverlapInv, PoolInv', [Next]_vars
    PROVE  OverlapInv'
<1>0. ASSUME UNCHANGED <<pool, reservation>> PROVE NoStrandedCapacity'
  BY <1>0 DEF OverlapInv, NoStrandedCapacity, Promised, ActiveOrders
<1>1. CASE UNCHANGED vars
  BY <1>0, <1>1 DEF OverlapInv, JobSound, vars
<1>2. CASE Next
  <2> PICK t \in Tx : Operation(t) \/ LockPool(t) \/ Commit(t) \/ Abort(t)
    BY <1>2 DEF Next
  <2>1. CASE Operation(t)
    BY <1>0, <2>1, OperationSound DEF OverlapInv
  <2>2. CASE LockPool(t)
    <3>1. /\ pc[t] = "wait" /\ UNCHANGED <<pool, reservation, job>>
          /\ \A u \in Tx : pc'[u] = IF u = t THEN "locked" ELSE pc[u]
      BY <2>2 DEF LockPool, OverlapInv, PoolInv, TypeOK
    <3>2. \A u \in Tx : JobSound(u)'
      BY <3>1 DEF OverlapInv, JobSound
    <3>3. QED
      BY <1>0, <3>1, <3>2 DEF OverlapInv
  <2>3. CASE Commit(t)
    BY <2>3, CommitStrandsNothing DEF OverlapInv
  <2>4. CASE Abort(t)
    BY <1>0, <2>4, FinishSound DEF Abort, OverlapInv
  <2>5. QED
    BY <2>1, <2>2, <2>3, <2>4
<1>3. QED
  BY <1>1, <1>2

\* The overlapping transactions start with nothing reserved.
LEMMA OverlapInit == Init /\ PoolInv => OverlapInv
<1> SUFFICES ASSUME Init, PoolInv PROVE OverlapInv
  OBVIOUS
<1>1. NoStrandedCapacity
  BY PromisedType DEF Init, NoStrandedCapacity
<1>2. \A t \in Tx : JobSound(t)
  BY DEF Init, JobSound
<1>3. QED
  BY <1>1, <1>2 DEF OverlapInv

\* However consume, release, expire and confirm overlap on one order, nothing
\* that is reserved is lost to all of them: the second of two on one order takes
\* its amount from the others' (liquidity.service.ts:206, 286), never leaves its
\* own behind.
THEOREM NothingStranded == Spec => []NoStrandedCapacity
<1>1. OverlapInv => NoStrandedCapacity
  BY DEF OverlapInv
<1>2. QED
  BY <1>1, OverlapInit, OverlapStep, PoolInvariant, PTL DEF Spec
=============================================================================

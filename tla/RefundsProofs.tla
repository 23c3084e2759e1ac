---------------------------- MODULE RefundsProofs -----------------------------
(***************************************************************************)
(* Theorems of Refunds, for any number of requests, any amount and any     *)
(* number of crashes.                                                      *)
(*                                                                         *)
(* FreshReads is inductive but for the shape of the functions: all that    *)
(* changes an order or the sum of its refunds waits for the row lock.      *)
(* That the customer gets back no more than was captured rests on the sum  *)
(* of what each refund has returned or may still return, which a new       *)
(* refund extends by no more than is left.  That a refund rules the payout *)
(* out rests on the order, which never becomes SETTLEMENT_PENDING again,   *)
(* and on where the worker stands while no payout is underway.             *)
(***************************************************************************)
EXTENDS Refunds, Sums

\* The functions of the state that the theorems speak of.
Shape ==
    /\ pc \in [Refunds -> {"start", "locked", "execute", "provider", "record",
                           "release", "done"}]
    /\ refund \in [Refunds -> RefundStatus \union {"NONE"}]
    /\ amount \in [Refunds -> Int]
    /\ returned \in [Refunds -> Int]
    /\ answer \in [Refunds -> RefundStatus \union {"NONE"}]
    /\ seen \in [Refunds -> OrderStatus \union {"NONE"}]
    /\ order \in OrderStatus

\* The initial state has the shape.
LEMMA ShapeInit == Init => Shape
BY DEF Init, Shape, OrderStatus

\* Every step keeps it: the statuses a step may write are statuses of orders.
LEMMA ShapeStep == Shape /\ [Next]_vars => Shape'
<1> SUFFICES ASSUME Shape, [Next]_vars PROVE Shape'
    OBVIOUS
<1> USE DEF Shape, OrderStatus, RefundStatus, Go, SetRefund, rows, outside
<1>1. ASSUME NEW r \in Refunds, createRefund(r) PROVE Shape'
  <2>1. CASE BeginRefund(r)
      BY <1>1, <2>1 DEF BeginRefund
  <2>2. CASE CommitRefund(r) /\ canTransition(seen[r], "REFUND_PENDING")
    <3>1. PICK a \in 1..left[r] : amount' = [amount EXCEPT ![r] = a]
        BY <1>1, <2>2 DEF CommitRefund
    <3>2. a \in Int
        BY <3>1
    <3> QED
        BY <1>1, <2>2, <3>1, <3>2 DEF CommitRefund
  <2>3. CASE CommitRefund(r) /\ ~canTransition(seen[r], "REFUND_PENDING")
      BY <1>1, <2>3 DEF CommitRefund
  <2> QED
      BY <1>1, <2>1, <2>2, <2>3 DEF createRefund
<1>2. ASSUME NEW r \in Refunds, executeRefund(r) PROVE Shape'
  <2>1. CASE StartProcessing(r)
      BY <1>2, <2>1 DEF StartProcessing
  <2>2. CASE processRefund(r)
    <3>1. PICK made \in BOOLEAN :
             /\ returned' = [returned EXCEPT ![r] = IF made THEN amount[r] ELSE 0]
             /\ \E a \in Answers(made) : answer' = [answer EXCEPT ![r] = a]
        BY <1>2, <2>2 DEF processRefund
    <3>2. PICK a \in Answers(made) : answer' = [answer EXCEPT ![r] = a]
        BY <3>1
    <3>3. a \in RefundStatus
        BY <3>2 DEF Answers
    <3> QED
        BY <1>2, <2>2, <3>1, <3>2, <3>3 DEF processRefund
  <2>3. CASE RecordSuccess(r)
      BY <1>2, <2>3 DEF RecordSuccess
  <2>4. CASE RecordFailure(r)
      BY <1>2, <2>4 DEF RecordFailure
  <2>5. CASE KeepProcessing(r)
      BY <1>2, <2>5 DEF KeepProcessing
  <2>6. CASE ReleaseRefunded(r)
      BY <1>2, <2>6 DEF ReleaseRefunded
  <2> QED
      BY <1>2, <2>1, <2>2, <2>3, <2>4, <2>5, <2>6 DEF executeRefund
<1>3. CASE Settle
    BY <1>3 DEF Settle, SelectOrder, createSettlementForOrder, markSubmitting,
                validateAndApprove, SubmissionFails, Broadcast, FlagOrphan, markCompleted,
                FailSettlement, WorkerGo, Unpaid, OtherRows, requests
<1>4. CASE Crash
    BY <1>4 DEF Crash
<1>5. CASE UNCHANGED vars
    BY <1>5 DEF vars, requests
<1> QED
    BY <1>1, <1>2, <1>3, <1>4, <1>5 DEF Next, RefundRequest

-----------------------------------------------------------------------------
\* The worker touches no refund.
LEMMA SettleKeeps ==
    Settle => UNCHANGED <<pc, refund, amount, returned, answer>>
BY DEF Settle, SelectOrder, createSettlementForOrder, markSubmitting, validateAndApprove,
       SubmissionFails, Broadcast, FlagOrphan, markCompleted, FailSettlement, WorkerGo,
       Unpaid, OtherRows, rows, outside, requests

-----------------------------------------------------------------------------
(* What a request decides on.                                              *)

FreshInv ==
    /\ Shape
    /\ left = [r \in Refunds |-> left[r]]
    /\ FreshReads

\* What is left to refund depends on the active refunds and their amounts.
LEMMA SameRemaining ==
    ASSUME Active' = Active, amount' = amount
    PROVE  Remaining' = Remaining
BY DEF Remaining, Claimed

\* A refund that begins processing was claimed before and still is.
LEMMA StartKeepsActive ==
    ASSUME Shape, NEW r \in Refunds, StartProcessing(r)
    PROVE  Active' = Active
BY DEF StartProcessing, SetRefund, Shape, Active

\* A step keeps what every request has read under the lock.
LEMMA FreshStep ==
    ASSUME FreshInv, [Next]_vars
    PROVE  FreshInv'
<1> USE DEF FreshInv, Go, At, SetRefund, rows, outside
<1>0. Shape'
    BY ShapeStep
<1> SUFFICES (left = [r \in Refunds |-> left[r]])' /\ FreshReads'
    BY <1>0
<1>1. ASSUME NEW r \in Refunds, BeginRefund(r)
      PROVE  (left = [q \in Refunds |-> left[q]])' /\ FreshReads'
  <2>1. Remaining' = Remaining
      BY <1>1, SameRemaining DEF BeginRefund, Active
  <2> QED
      BY <1>1, <2>1, RequestAssumption DEF BeginRefund, FreshReads, Shape
<1>2. ASSUME NEW r \in Refunds, CommitRefund(r)
      PROVE  (left = [q \in Refunds |-> left[q]])' /\ FreshReads'
  <2>1. \A q \in Refunds : pc'[q] # "locked"
      BY <1>2 DEF CommitRefund, FreshReads, Shape
  <2> QED
      BY <1>2, <2>1 DEF CommitRefund, FreshReads
<1>3. ASSUME NEW r \in Refunds, StartProcessing(r)
      PROVE  (left = [q \in Refunds |-> left[q]])' /\ FreshReads'
  <2>1. Remaining' = Remaining
      BY <1>3, StartKeepsActive, SameRemaining DEF StartProcessing
  <2> QED
      BY <1>3, <2>1 DEF StartProcessing, FreshReads, Shape
<1>4. ASSUME NEW r \in Refunds, processRefund(r) \/ KeepProcessing(r) \/ ReleaseRefunded(r)
      PROVE  (left = [q \in Refunds |-> left[q]])' /\ FreshReads'
  <2>1. refund' = refund /\ amount' = amount
      BY <1>4 DEF processRefund, KeepProcessing, ReleaseRefunded
  <2>2. Remaining' = Remaining
      BY <2>1, SameRemaining DEF Active
  <2>3. /\ pc[r] # "locked"
        /\ \/ pc' = [pc EXCEPT ![r] = "record"] \/ pc' = [pc EXCEPT ![r] = "done"]
        /\ UNCHANGED <<rowOrder, order, left>>
        /\ seen' = seen \/ seen' = [seen EXCEPT ![r] = order]
      BY <1>4 DEF processRefund, KeepProcessing, ReleaseRefunded
  <2> QED
      BY <1>4, <2>2, <2>3 DEF FreshReads, Shape
<1>5. ASSUME NEW r \in Refunds, RecordSuccess(r) \/ RecordFailure(r)
      PROVE  (left = [q \in Refunds |-> left[q]])' /\ FreshReads'
  <2>1. rowOrder = Nobody /\ left' = left
        /\ (pc' = [pc EXCEPT ![r] = "release"] \/ pc' = [pc EXCEPT ![r] = "done"])
      BY <1>5 DEF RecordSuccess, RecordFailure
  <2>2. \A q \in Refunds : pc'[q] # "locked"
      BY <2>1, RequestAssumption DEF FreshReads, Shape
  <2> QED
      BY <2>1, <2>2 DEF FreshReads
<1>6. CASE Settle
  <2>1. Remaining' = Remaining
      BY <1>6, SettleKeeps, SameRemaining DEF Active
  <2>2. UNCHANGED <<pc, seen, left, rowOrder>>
      BY <1>6 DEF Settle, SelectOrder, createSettlementForOrder, markSubmitting,
                  validateAndApprove, SubmissionFails, Broadcast, FlagOrphan,
                  markCompleted, FailSettlement, WorkerGo, requests
  <2>3. order' = order \/ rowOrder = Nobody
      BY <1>6 DEF Settle, SelectOrder, createSettlementForOrder, markSubmitting,
                  validateAndApprove, SubmissionFails, Broadcast, FlagOrphan,
                  markCompleted, FailSettlement
  <2>4. rowOrder = Nobody => \A q \in Refunds : pc[q] # "locked"
      BY RequestAssumption DEF FreshReads
  <2> QED
      BY <2>1, <2>2, <2>3, <2>4 DEF FreshReads
<1>7. CASE Crash
  <2>1. Remaining' = Remaining
      BY <1>7, SameRemaining DEF Crash, Active
  <2>2. CASE UNCHANGED <<rowOrder, pc>>
      BY <1>7, <2>1, <2>2 DEF Crash, FreshReads
  <2>3. ASSUME NEW r \in Refunds, pc' = [pc EXCEPT ![r] = "done"],
               rowOrder' = IF rowOrder = r THEN Nobody ELSE rowOrder
        PROVE  (left = [q \in Refunds |-> left[q]])' /\ FreshReads'
      BY <1>7, <2>1, <2>3 DEF Crash, FreshReads, Shape
  <2> QED
      BY <1>7, <2>2, <2>3 DEF Crash
<1>8. CASE UNCHANGED vars
  <2>1. Remaining' = Remaining
      BY <1>8, SameRemaining DEF Active, vars
  <2> QED
      BY <1>8, <2>1 DEF vars, requests, FreshReads
<1> QED
    BY <1>1, <1>2, <1>3, <1>4, <1>5, <1>6, <1>7, <1>8
    DEF Next, RefundRequest, createRefund, executeRefund

\* The row lock of createRefund does what it is there for: the order and the
\* sum of its refunds are, when the refund is created, what the request has read.
THEOREM CommitsOnFreshReads == Spec => []FreshReads
<1>1. Init => FreshInv
    BY ShapeInit DEF Init, FreshInv, FreshReads
<1>2. FreshInv /\ [Next]_vars => FreshInv'
    BY FreshStep
<1>3. FreshInv => FreshReads
    BY DEF FreshInv
<1> QED
    BY <1>1, <1>2, <1>3, PTL DEF Spec

-----------------------------------------------------------------------------
(* Types.  What is left to refund is never more than was captured, because *)
(* no claimed amount is negative.                                          *)

\* Claimed amounts are natural numbers as long as the amounts are.
LEMMA ClaimedType ==
    ASSUME amount \in [Refunds -> Nat]
    PROVE  /\ Claimed \in Nat /\ Active \subseteq Refunds
           /\ \A S \in SUBSET Refunds : IsFiniteSet(S) /\ NaturalOn(amount, S)
                                        /\ IntegerOn(amount, S)
<1>1. Active \subseteq Refunds
    BY DEF Active
<1>2. \A S \in SUBSET Refunds : IsFiniteSet(S) /\ NaturalOn(amount, S) /\ IntegerOn(amount, S)
    BY RequestAssumption, FS_Subset DEF NaturalOn, IntegerOn
<1>3. Claimed \in Nat
    BY <1>1, <1>2, SumIsNat DEF Claimed
<1> QED
    BY <1>1, <1>2, <1>3

\* Every step preserves types.
LEMMA TypeStep == TypeOK /\ [Next]_vars => TypeOK'
<1> SUFFICES ASSUME TypeOK, [Next]_vars PROVE TypeOK'
    OBVIOUS
<1> USE AmountAssumption, FaultAssumption
    DEF TypeOK, OrderStatus, SettlementStatus, RefundStatus, Go, SetRefund, rows, outside,
        requests
<1>0. 0..Captured \subseteq Nat /\ 0 \in 0..Captured
    OBVIOUS
<1>1. ASSUME NEW r \in Refunds, BeginRefund(r) PROVE TypeOK'
  <2>1. amount \in [Refunds -> Nat]
      BY <1>0
  <2>2. Remaining \in 0..Captured
      BY <1>1, <2>1, ClaimedType DEF BeginRefund, Remaining
  <2> QED
      BY <1>1, <2>2 DEF BeginRefund
<1>2. ASSUME NEW r \in Refunds, CommitRefund(r), canTransition(seen[r], "REFUND_PENDING")
      PROVE  TypeOK'
  <2>1. PICK a \in 1..left[r] : amount' = [amount EXCEPT ![r] = a]
      BY <1>2 DEF CommitRefund
  <2>2. a \in 0..Captured
      BY <2>1
  <2> QED
      BY <1>2, <2>1, <2>2 DEF CommitRefund
<1>3. ASSUME NEW r \in Refunds, CommitRefund(r), ~canTransition(seen[r], "REFUND_PENDING")
      PROVE  TypeOK'
    BY <1>3 DEF CommitRefund
<1>4. ASSUME NEW r \in Refunds, StartProcessing(r) \/ KeepProcessing(r) PROVE TypeOK'
    BY <1>4 DEF StartProcessing, KeepProcessing
<1>5. ASSUME NEW r \in Refunds, processRefund(r) PROVE TypeOK'
  <2>1. PICK made \in BOOLEAN :
           /\ returned' = [returned EXCEPT ![r] = IF made THEN amount[r] ELSE 0]
           /\ \E a \in Answers(made) : answer' = [answer EXCEPT ![r] = a]
      BY <1>5 DEF processRefund
  <2>2. PICK a \in Answers(made) : answer' = [answer EXCEPT ![r] = a]
      BY <2>1
  <2>3. a \in RefundStatus
      BY <2>2 DEF Answers
  <2>4. returned' \in [Refunds -> 0..Captured]
      BY <1>0, <2>1
  <2>5. answer' \in [Refunds -> RefundStatus \union {"NONE"}]
      BY <2>2, <2>3
  <2> QED
      BY <1>5, <2>4, <2>5 DEF processRefund
<1>6. ASSUME NEW r \in Refunds, RecordSuccess(r) \/ RecordFailure(r) \/ ReleaseRefunded(r)
      PROVE  TypeOK'
    BY <1>6 DEF RecordSuccess, RecordFailure, ReleaseRefunded, Release
<1>7. CASE SelectOrder \/ createSettlementForOrder \/ markSubmitting \/ validateAndApprove
    BY <1>7 DEF SelectOrder, createSettlementForOrder, markSubmitting, validateAndApprove,
                WorkerGo, Unpaid, OtherRows
<1>8. CASE SubmissionFails \/ Broadcast \/ FlagOrphan
    BY <1>8 DEF SubmissionFails, Broadcast, FlagOrphan, WorkerGo, Unpaid, OtherRows
<1>9. CASE markCompleted \/ FailSettlement
    BY <1>9 DEF markCompleted, FailSettlement, Release, WorkerGo, Unpaid, OtherRows
<1>10. CASE Crash
    BY <1>10, RequestAssumption DEF Crash
<1>11. CASE UNCHANGED vars
    BY <1>11 DEF vars
<1> QED
    BY <1>1, <1>2, <1>3, <1>4, <1>5, <1>6, <1>7, <1>8, <1>9, <1>10, <1>11
    DEF Next, RefundRequest, createRefund, executeRefund, Settle

\* Rows, requests and worker keep their types, and no amount is ever more than
\* was captured.
THEOREM TypeCorrect == Spec => []TypeOK
<1>0. 0 \in 0..Captured /\ 0 \in 0..MaxFaults
    BY AmountAssumption, FaultAssumption
<1>1. Init => TypeOK
  <2> SUFFICES ASSUME Init PROVE TypeOK
      OBVIOUS
  <2>1. /\ order \in OrderStatus /\ settlement \in SettlementStatus \union {"NONE"}
        /\ payment \in {"SUCCEEDED", "REFUNDED"} /\ paid \in BOOLEAN
        /\ reservation \in {"CONFIRMED", "CONSUMED", "CANCELLED_RELEASED"}
        /\ rowOrder \in Refunds \union {Nobody} /\ faults \in 0..MaxFaults
      BY <1>0 DEF Init, OrderStatus
  <2>2. /\ amount \in [Refunds -> 0..Captured] /\ returned \in [Refunds -> 0..Captured]
        /\ left \in [Refunds -> 0..Captured]
      BY <1>0 DEF Init
  <2> QED
      BY <2>1, <2>2 DEF Init, TypeOK
<1> QED
    BY <1>1, TypeStep, PTL DEF Spec

-----------------------------------------------------------------------------
(* How much is returned.                                                   *)

\* What each step of a request tells of its refund: money is asked back only
\* under a claim, and a claim is given up only when a failure was reported.
Claims(r) ==
    /\ pc[r] \in {"start", "locked"} => refund[r] = "NONE"
    /\ pc[r] = "execute" => refund[r] = "PENDING"
    /\ pc[r] \in {"provider", "record"} => refund[r] = "PROCESSING"
    /\ pc[r] \in {"start", "locked", "execute", "provider"} => returned[r] = 0
    /\ answer[r] # "FAILED" => returned[r] <= IF r \in Active THEN amount[r] ELSE 0

\* The inductive invariant: what is returned is claimed, and the claims are
\* within what was captured.
ClaimInv ==
    /\ TypeOK /\ FreshInv
    /\ \A r \in Refunds : Claims(r)
    /\ Claimed <= Captured

\* A step that neither claims nor gives up keeps the sum of the claims.
LEMMA SameClaimed ==
    ASSUME Active' = Active, amount' = amount, Claimed <= Captured
    PROVE  (Claimed <= Captured)'
BY DEF Claimed

\* The claim that a request commits is within what it found left, and that is
\* what is left: the claims stay within the captured amount.
LEMMA CommitClaims ==
    ASSUME ClaimInv, NEW r \in Refunds, CommitRefund(r)
    PROVE  (Claimed <= Captured)' /\ \A q \in Refunds : Claims(q)'
<1>0. /\ TypeOK /\ Claims(r) /\ pc[r] = "locked" /\ refund[r] = "NONE" /\ returned[r] = 0
      /\ left[r] = Captured - Claimed /\ returned' = returned /\ answer' = answer
    BY DEF ClaimInv, FreshInv, FreshReads, CommitRefund, At, Claims, Remaining, outside
<1>1. CASE canTransition(seen[r], "REFUND_PENDING")
  <2>1. PICK a \in 1..left[r] : amount' = [amount EXCEPT ![r] = a]
      BY <1>1 DEF CommitRefund
  <2>2. refund' = [refund EXCEPT ![r] = "PENDING"] /\ pc' = [pc EXCEPT ![r] = "execute"]
      BY <1>1 DEF CommitRefund, SetRefund, Go
  <2>3. r \notin Active /\ Active' = Active \union {r}
      BY <1>0, <2>2 DEF TypeOK, Active
  <2>4. amount \in [Refunds -> Nat] /\ left[r] \in Int /\ a \in Nat
      BY <1>0, <2>1, AmountAssumption DEF TypeOK
  <2>5. amount' \in [Refunds -> Nat] /\ amount'[r] = a
        /\ \A q \in Refunds \ {r} : amount'[q] = amount[q]
      BY <2>1, <2>4
  <2>6. /\ IsFiniteSet(Active) /\ NaturalOn(amount', Active \union {r})
        /\ Claimed \in Nat /\ Active \subseteq Refunds
      BY <2>4, <2>5, ClaimedType DEF NaturalOn
  <2>7. SumFunctionOnSet(amount', Active \union {r}) = a + SumFunctionOnSet(amount', Active)
      BY <2>3, <2>5, <2>6, SumAdd
  <2>8. SumFunctionOnSet(amount', Active) = SumFunctionOnSet(amount, Active)
      <3>1. \A q \in Active : amount'[q] = amount[q]
          BY <2>3, <2>5, <2>6
      <3> QED
          BY <2>6, <3>1, SumAgree
  <2>9. Claimed' = a + Claimed
      BY <2>3, <2>7, <2>8 DEF Claimed
  <2>10. Claimed' <= Captured
      BY <1>0, <2>1, <2>4, <2>6, <2>9, AmountAssumption
  <2>11. Claims(r)'
      BY <1>0, <2>2, <2>3, <2>4, <2>5 DEF TypeOK, Claims
  <2>12. ASSUME NEW q \in Refunds \ {r} PROVE Claims(q)'
    <3>1. /\ Claims(q) /\ pc'[q] = pc[q] /\ refund'[q] = refund[q] /\ amount'[q] = amount[q]
          /\ (q \in Active' <=> q \in Active)
        BY <1>0, <2>2, <2>3, <2>5, <2>12 DEF ClaimInv, TypeOK
    <3> QED
        BY <1>0, <3>1 DEF Claims
  <2> QED
      BY <2>10, <2>11, <2>12
<1>2. CASE ~canTransition(seen[r], "REFUND_PENDING")
  <2>1. pc' = [pc EXCEPT ![r] = "start"] /\ amount' = amount /\ refund' = refund
      BY <1>2 DEF CommitRefund, Go
  <2>2. Active' = Active
      BY <2>1 DEF Active
  <2>3. \A q \in Refunds : Claims(q)'
      BY <1>0, <2>1, <2>2 DEF ClaimInv, Claims, TypeOK
  <2> QED
      BY <2>1, <2>2, <2>3, SameClaimed DEF ClaimInv
<1> QED
    BY <1>1, <1>2

\* A request gives its claim up on a reported failure, and the sum of the claims
\* that remain is no larger.
LEMMA FailureUnclaims ==
    ASSUME ClaimInv, NEW r \in Refunds, RecordFailure(r)
    PROVE  (Claimed <= Captured)' /\ \A q \in Refunds : Claims(q)'
<1>0. /\ TypeOK /\ refund' = [refund EXCEPT ![r] = "FAILED"]
      /\ pc' = [pc EXCEPT ![r] = "done"] /\ amount' = amount /\ returned' = returned
      /\ answer' = answer /\ answer[r] = "FAILED"
    BY DEF ClaimInv, RecordFailure, SetRefund, Go, At, outside
<1>1. Active' = Active \ {r}
    BY <1>0 DEF TypeOK, Active
<1>2. amount \in [Refunds -> Nat]
    BY <1>0, AmountAssumption DEF TypeOK
<1>3. IsFiniteSet(Active) /\ NaturalOn(amount, Active) /\ Claimed \in Nat
    BY <1>2, ClaimedType
<1>4. Claimed' <= Claimed
  <2>1. SumFunctionOnSet(amount, Active \ {r}) <= SumFunctionOnSet(amount, Active)
      BY <1>3, SumMonotone
  <2> QED
      BY <1>0, <1>1, <2>1 DEF Claimed
<1>5. Claimed' \in Nat
    BY <1>0, <1>1, <1>2, <1>3, FS_Subset, NaturalOnSubset, SumIsNat DEF Claimed
<1>6. Claimed' <= Captured
    BY <1>3, <1>4, <1>5, AmountAssumption DEF ClaimInv
<1>7. \A q \in Refunds : Claims(q)'
  <2>1. Claims(r)'
      BY <1>0, <1>1 DEF TypeOK, Claims
  <2>2. ASSUME NEW q \in Refunds \ {r} PROVE Claims(q)'
      BY <1>0, <1>1, <2>2 DEF ClaimInv, Claims, TypeOK
  <2> QED
      BY <2>1, <2>2
<1> QED
    BY <1>6, <1>7

\* The other steps keep every claim.
LEMMA OthersClaim ==
    ASSUME ClaimInv, [Next]_vars, \A r \in Refunds : ~CommitRefund(r) /\ ~RecordFailure(r)
    PROVE  (Claimed <= Captured)' /\ \A q \in Refunds : Claims(q)'
<1>0. TypeOK /\ Claimed <= Captured /\ \A q \in Refunds : Claims(q) /\ amount[q] \in Nat
    BY AmountAssumption DEF ClaimInv, TypeOK
<1> USE DEF Go, At, SetRefund, rows, outside
<1> DEFINE Goal == (Claimed <= Captured)' /\ \A q \in Refunds : Claims(q)'
<1>1. ASSUME NEW r \in Refunds, BeginRefund(r) PROVE Goal
  <2>1. Active' = Active /\ amount' = amount
      BY <1>1 DEF BeginRefund, Active
  <2>2. \A q \in Refunds : Claims(q)'
      BY <1>0, <1>1, <2>1 DEF BeginRefund, Claims, TypeOK
  <2> QED
      BY <1>0, <2>1, <2>2, SameClaimed
<1>2. ASSUME NEW r \in Refunds, StartProcessing(r) PROVE Goal
  <2>1. Active' = Active /\ amount' = amount
      BY <1>2, StartKeepsActive DEF StartProcessing, ClaimInv, FreshInv
  <2>2. \A q \in Refunds : Claims(q)'
      BY <1>0, <1>2, <2>1 DEF StartProcessing, Claims, TypeOK
  <2> QED
      BY <1>0, <2>1, <2>2, SameClaimed
<1>3. ASSUME NEW r \in Refunds, processRefund(r) PROVE Goal
  <2>1. Active' = Active /\ amount' = amount /\ refund' = refund
      BY <1>3 DEF processRefund, Active
  <2>2. r \in Active /\ refund[r] = "PROCESSING"
      BY <1>0, <1>3 DEF processRefund, Active, Claims
  <2>3. PICK v \in {0, amount[r]} : returned' = [returned EXCEPT ![r] = v]
      BY <1>3 DEF processRefund
  <2>4. pc' = [pc EXCEPT ![r] = "record"] /\ \E a : answer' = [answer EXCEPT ![r] = a]
      BY <1>3 DEF processRefund
  <2>5. Claims(r)'
      BY <1>0, <2>1, <2>2, <2>3, <2>4 DEF Claims, TypeOK
  <2>6. ASSUME NEW q \in Refunds \ {r} PROVE Claims(q)'
    <3>1. /\ Claims(q) /\ pc'[q] = pc[q] /\ returned'[q] = returned[q]
          /\ answer'[q] = answer[q]
        BY <1>0, <2>3, <2>4, <2>6 DEF TypeOK
    <3> QED
        BY <2>1, <3>1 DEF Claims
  <2> QED
      BY <1>0, <2>1, <2>5, <2>6, SameClaimed
<1>4. ASSUME NEW r \in Refunds, RecordSuccess(r) PROVE Goal
  <2>1. refund[r] = "PROCESSING"
      BY <1>0, <1>4 DEF RecordSuccess, Claims
  <2>2. Active' = Active /\ amount' = amount
      BY <1>0, <1>4, <2>1 DEF RecordSuccess, Active, TypeOK
  <2>3. \A q \in Refunds : Claims(q)'
      BY <1>0, <1>4, <2>2 DEF RecordSuccess, Claims, TypeOK
  <2> QED
      BY <1>0, <2>2, <2>3, SameClaimed
<1>5. ASSUME NEW r \in Refunds, KeepProcessing(r) \/ ReleaseRefunded(r) PROVE Goal
  <2>1. UNCHANGED <<refund, amount, returned, answer>> /\ pc' = [pc EXCEPT ![r] = "done"]
      BY <1>5 DEF KeepProcessing, ReleaseRefunded
  <2>2. Active' = Active
      BY <2>1 DEF Active
  <2>3. \A q \in Refunds : Claims(q)'
      BY <1>0, <2>1, <2>2 DEF Claims, TypeOK
  <2> QED
      BY <1>0, <2>1, <2>2, <2>3, SameClaimed
<1>6. ASSUME UNCHANGED <<pc, refund, amount, returned, answer>> PROVE Goal
  <2>1. Active' = Active
      BY <1>6 DEF Active
  <2>2. \A q \in Refunds : Claims(q)'
      BY <1>0, <1>6, <2>1 DEF Claims
  <2> QED
      BY <1>0, <1>6, <2>1, <2>2, SameClaimed
<1>7. CASE Settle
    BY <1>6, <1>7, SettleKeeps
<1>8. CASE Crash
  <2>1. UNCHANGED <<refund, amount, returned, answer>>
      BY <1>8 DEF Crash
  <2>2. CASE pc' = pc
      BY <1>6, <2>1, <2>2
  <2>3. ASSUME NEW r \in Refunds, pc' = [pc EXCEPT ![r] = "done"] PROVE Goal
    <3>1. Active' = Active
        BY <2>1 DEF Active
    <3>2. \A q \in Refunds : Claims(q)'
        BY <1>0, <2>1, <2>3, <3>1 DEF Claims, TypeOK
    <3> QED
        BY <1>0, <2>1, <3>1, <3>2, SameClaimed
  <2> QED
      BY <1>8, <2>2, <2>3 DEF Crash
<1>9. CASE UNCHANGED vars
    BY <1>6, <1>9 DEF vars, requests
<1> QED
    BY <1>1, <1>2, <1>3, <1>4, <1>5, <1>7, <1>8, <1>9
    DEF Next, RefundRequest, createRefund, executeRefund

\* Apart from what the adapter wrongly reports as failed, the customer gets back
\* at most what was captured, for any number of requests and crashes: the sum is
\* checked under the order's row lock (refunds.service.ts:32).
THEOREM NeverRefundsTooMuch == Spec => []RefundedAtMostCaptured
<1>1. Init /\ TypeOK => ClaimInv
  <2> SUFFICES ASSUME Init, TypeOK PROVE ClaimInv
      OBVIOUS
  <2>1. FreshInv
      BY ShapeInit DEF Init, FreshInv, FreshReads
  <2>2. Active = {}
      BY DEF Init, Active
  <2>3. \A r \in Refunds : Claims(r)
      BY <2>2 DEF Init, Claims
  <2>4. Claimed = 0
      BY <2>2, SumEmpty DEF Claimed
  <2> QED
      BY <2>1, <2>3, <2>4, AmountAssumption DEF ClaimInv
<1>2. ClaimInv /\ [Next]_vars => ClaimInv'
  <2> SUFFICES ASSUME ClaimInv, [Next]_vars PROVE ClaimInv'
      OBVIOUS
  <2>1. TypeOK' /\ FreshInv'
      BY TypeStep, FreshStep DEF ClaimInv
  <2>2. (Claimed <= Captured)' /\ \A q \in Refunds : Claims(q)'
      BY CommitClaims, FailureUnclaims, OthersClaim
  <2> QED
      BY <2>1, <2>2 DEF ClaimInv
<1>3. ClaimInv => RefundedAtMostCaptured
  <2> SUFFICES ASSUME ClaimInv PROVE RefundedAtMostCaptured
      OBVIOUS
  <2> DEFINE T == NotRefused \intersect Active
  <2>1. /\ amount \in [Refunds -> Nat] /\ \A r \in Refunds : returned[r] \in Nat
      BY AmountAssumption DEF ClaimInv, TypeOK
  <2>2. /\ \A r \in T : returned[r] <= amount[r]
        /\ \A r \in NotRefused \ T : returned[r] = 0
      BY <2>1 DEF ClaimInv, Claims, Active, NotRefused
  <2>3. NotRefused \subseteq Refunds /\ T \subseteq NotRefused /\ T \subseteq Active
      BY DEF NotRefused
  <2>4. /\ IsFiniteSet(NotRefused) /\ NaturalOn(returned, NotRefused)
        /\ IsFiniteSet(Active) /\ NaturalOn(amount, Active) /\ NaturalOn(amount, T)
        /\ Claimed \in Nat
      BY <2>1, <2>3, ClaimedType DEF NaturalOn
  <2>5. SumFunctionOnSet(returned, NotRefused) <= SumFunctionOnSet(amount, T)
      BY <2>2, <2>3, <2>4, SumBounded
  <2>6. SumFunctionOnSet(amount, T) <= SumFunctionOnSet(amount, Active)
      BY <2>3, <2>4, SumMonotone
  <2>7. SumFunctionOnSet(returned, NotRefused) \in Nat
      BY <2>4, SumIsNat
  <2>8. SumFunctionOnSet(amount, T) \in Nat
      BY <2>3, <2>4, FS_Subset, SumIsNat
  <2> HIDE DEF T
  <2> QED
      BY <2>4, <2>5, <2>6, <2>7, <2>8, AmountAssumption
      DEF ClaimInv, Claimed, RefundedAtMostCaptured
<1> QED
    BY <1>1, <1>2, <1>3, TypeCorrect, PTL DEF Spec

-----------------------------------------------------------------------------
(* A refund and a payout that is not underway.                             *)

\* Where the worker stands: it holds a payout back or approves it only while the
\* settlement is SUBMITTING, a payout made is known as submitted, and an order
\* with a refund is no longer waiting for its settlement.
YieldInv ==
    /\ worker \in {"order", "refunds", "broadcast"} => settlement = "SUBMITTING"
    /\ paid => settlement \in {"SUBMITTED", "COMPLETED"}
    /\ worker = "insert" => settlement = "NONE"
    /\ Active # {} => order # "SETTLEMENT_PENDING"

\* The payout is ruled out.
Excluded ==
    /\ order # "SETTLEMENT_PENDING"
    /\ worker \notin {"refunds", "broadcast"}
    /\ ~paid

\* The settlement side keeps to it and never makes the order wait again.
LEMMA SettleYields ==
    ASSUME YieldInv, Settle
    PROVE  YieldInv' /\ (Excluded => Excluded')
<1> USE DEF YieldInv, Excluded, WorkerAt, WorkerGo, rows, outside, OtherRows, Unpaid
<1>0. Active' = Active
    BY SettleKeeps DEF Active
<1>1. CASE SelectOrder \/ markSubmitting \/ FlagOrphan
    BY <1>0, <1>1 DEF SelectOrder, markSubmitting, FlagOrphan
<1>2. CASE createSettlementForOrder
    BY <1>0, <1>2 DEF createSettlementForOrder
<1>3. CASE validateAndApprove \/ SubmissionFails \/ Broadcast
    BY <1>0, <1>3 DEF validateAndApprove, SubmissionFails, Broadcast
<1>4. CASE markCompleted \/ FailSettlement
    BY <1>0, <1>4 DEF markCompleted, FailSettlement
<1> QED
    BY <1>1, <1>2, <1>3, <1>4 DEF Settle

\* So do the requests: the refund and the status of the order are written in one
\* transaction.
LEMMA RequestYields ==
    ASSUME YieldInv, Shape, NEW r \in Refunds, RefundRequest(r)
    PROVE  YieldInv' /\ (Excluded => Excluded')
<1> USE DEF YieldInv, Excluded, rows, outside, SetRefund
<1>0. UNCHANGED <<worker, paid, settlement>>
    BY DEF RefundRequest, createRefund, executeRefund, BeginRefund, CommitRefund,
           StartProcessing, processRefund, RecordSuccess, RecordFailure, KeepProcessing,
           ReleaseRefunded
<1>1. CASE UNCHANGED <<order, refund>>
    BY <1>0, <1>1 DEF Active
<1>2. CASE order' # "SETTLEMENT_PENDING"
    BY <1>0, <1>2
<1>3. CASE StartProcessing(r)
  <2>1. Active' = Active
      BY <1>3, StartKeepsActive
  <2>2. order' = order
      BY <1>3 DEF StartProcessing
  <2> QED
      BY <1>0, <2>1, <2>2
<1>4. UNCHANGED <<order, refund>> \/ order' # "SETTLEMENT_PENDING" \/ StartProcessing(r)
    BY DEF RefundRequest, createRefund, executeRefund, BeginRefund, CommitRefund,
           processRefund, RecordSuccess, RecordFailure, KeepProcessing, ReleaseRefunded
<1> QED
    BY <1>1, <1>2, <1>3, <1>4

\* A refund created while no payout is underway rules the payout out for ever,
\* for any number of requests and crashes: the policy engine reads the order
\* again after the settlement is marked SUBMITTING (settlement-policy.engine.ts).
THEOREM RefundStopsPayout == Spec => RefundExcludesPayout
<1>1. Init => Shape /\ YieldInv
    BY ShapeInit DEF Init, YieldInv, Active
<1>2. Shape /\ YieldInv /\ [Next]_vars => (Shape /\ YieldInv)' /\ (Excluded => Excluded')
  <2> SUFFICES ASSUME Shape, YieldInv, [Next]_vars
               PROVE  (Shape /\ YieldInv)' /\ (Excluded => Excluded')
      OBVIOUS
  <2>1. Shape'
      BY ShapeStep
  <2>2. CASE Settle
      BY <2>1, <2>2, SettleYields
  <2>3. CASE \E r \in Refunds : RefundRequest(r)
      BY <2>1, <2>3, RequestYields
  <2>4. CASE Crash
      BY <2>1, <2>4 DEF Crash, YieldInv, Excluded, Active, rows, outside
  <2>5. CASE UNCHANGED vars
      BY <2>1, <2>5 DEF vars, rows, outside, requests, YieldInv, Excluded, Active
  <2> QED
      BY <2>2, <2>3, <2>4, <2>5 DEF Next
<1>3. YieldInv /\ Active # {} /\ NoPayoutUnderway => Excluded
    BY DEF YieldInv, NoPayoutUnderway, Excluded
<1>4. Excluded => ~paid
    BY DEF Excluded
<1> QED
    BY <1>1, <1>2, <1>3, <1>4, PTL DEF Spec, RefundExcludesPayout
=============================================================================

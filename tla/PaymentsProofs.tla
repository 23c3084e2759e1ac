---------------------------- MODULE PaymentsProofs ----------------------------
(***************************************************************************)
(* Proofs about Payments, for any number of payments and requests, any set *)
(* of outcomes and any number of interrupted jobs.  A job carries what it  *)
(* will write across steps of others: JobFits says what backs it, and      *)
(* CarryInv that a recorded success waits behind a row lock.               *)
(***************************************************************************)
EXTENDS Payments, TLAPS

Paid == {"PAYMENT_CONFIRMED", "SETTLEMENT_PENDING", "COMPLETED"}
Final == {"SUCCEEDED", "FAILED"}
SomeCaptured == \E p \in Payments : Captured(p)
HasOutcome(p) == provider[p] \in {"success", "short", "failed"}

\* A job that acts on a payment has one.
NamesPayment(j) ==
    (j.step \in {"provider", "lookup", "update", "processed", "query", "record"}
        \/ j.kind \in Transactional)
    => j.pay \in Payments

\* What a job will write is backed by a captured charge.
Backed(j) ==
    /\ j.goal = "SUCCEEDED" => SomeCaptured /\ (j.pay \in Payments => Captured(j.pay))
    /\ j.next \in Paid => SomeCaptured

\* A job of createPayment has a row, and no charge until the provider was asked.
CreateFits(j) ==
    /\ j.step = "provider" => j.kind = "create" /\ provider[j.pay] = "none"
    /\ j.kind = "create" => /\ payment[j.pay] # "NONE"
                            /\ j.step \in {"provider", "update", "writeOrder"}
                            /\ j.step # "provider" => j.goal = "PENDING"

\* A job of verifyPayment brings what the provider said, to the status it read.
VerifyFits(j) ==
    j.step = "update" /\ j.kind = "verify" =>
        /\ j.seen \in PaymentStatus
        /\ j.goal \in {"PENDING"} \union Final
        /\ j.seen \in Final => j.goal = j.seen

\* A job of processWebhook concerns a charge with an outcome, and marks its
\* event when the payment has it.
WebhookFits(j) ==
    j.kind = "webhook" =>
        /\ HasOutcome(j.pay)
        /\ j.step \in {"lookup", "update", "reservation", "readOrder", "writeOrder", "processed"}
        /\ j.step \notin {"lookup", "processed"} => j.goal \in Final
        /\ j.step = "update" => /\ j.seen \in {"PENDING"} \union Final
                                /\ j.seen \in Final => payment[j.pay] \in Final
        /\ j.step = "processed" => payment[j.pay] \in Final

\* Which job may be at which step.
StepFits(j) ==
    /\ j.step = "update" => j.kind \in {"create", "webhook", "verify"}
    /\ j.step \in {"lookup", "processed"} => j.kind = "webhook"
    /\ j.step \in {"lockOrder", "query", "record"} => j.kind = "reconcile"
    /\ j.step \in {"lockOrder", "query"} => j.goal = "NONE"
    /\ j.step = "record" => j.goal \in Final

JobFits(j) == /\ NamesPayment(j) /\ Backed(j) /\ StepFits(j)
              /\ CreateFits(j) /\ VerifyFits(j) /\ WebhookFits(j)

RowTypes ==
    /\ order \in OrderStatus
    /\ wallet \in BOOLEAN
    /\ reservation \in {"RESERVED", "CONFIRMED", "CONSUMED", "EXPIRED_RELEASED",
                        "CANCELLED_RELEASED"}
    /\ settlement \in {"NONE", "PENDING", "SUBMITTED", "COMPLETED", "FAILED"}
    /\ payment \in [Payments -> PaymentStatus \union {"NONE"}]
    /\ provider \in [Payments -> {"none", "pending", "success", "short", "failed"}]
    /\ event \in [Payments -> {"none", "claimed", "processed"}]
    /\ rowOrder \in Handlers \union {Nobody}
    /\ rowPayment \in [Payments -> Handlers \union {Nobody}]
    /\ faults \in 0..MaxFaults

\* Rows and charges tell the same story.
RowsFit ==
    /\ RowTypes /\ PaidIsCaptured /\ ProcessedIsRecorded
    /\ \A p \in Payments : payment[p] = "NONE" => provider[p] = "none"
    /\ \A p \in Payments : event[p] # "none" => HasOutcome(p)
    /\ \A p \in Payments : HasOutcome(p) => payment[p] \in {"PENDING"} \union Final

\* Each payment has one creating job at most, and none once its charge ended.
JobsFit ==
    /\ job \in [Handlers -> Jobs]
    /\ \A h \in Handlers : JobFits(job[h])
    /\ \A h \in Handlers : job[h].kind = "create" => h \in Requests /\ ~HasOutcome(job[h].pay)
    /\ \A h, g \in Handlers : h # g /\ job[h].kind = "create" /\ job[g].kind = "create"
                                  => job[h].pay # job[g].pay

PaymentInv == RowsFit /\ JobsFit

\* No other job creates payment p, and its charge has not ended.
CreatesAlone(h, p) ==
    /\ h \in Requests
    /\ ~HasOutcome(p)
    /\ \A g \in Handlers : g # h /\ job[g].kind = "create" => job[g].pay # p

\* What a step never takes back.
Grows ==
    \A p \in Payments :
        /\ Captured(p) => Captured(p)'
        /\ HasOutcome(p)' = HasOutcome(p)
        /\ payment[p] # "NONE" => payment'[p] # "NONE"
        /\ HasOutcome(p) /\ payment[p] \in Final => payment'[p] \in Final

-----------------------------------------------------------------------------

\* The state machine lets no outcome be replaced.
LEMMA FinalStays ==
    ASSUME NEW s, NEW r, canTransition(s, r)
    PROVE  s \in PaymentStatus /\ (s \in Final => r = s)
BY DEF canTransition, allowedTransitions, PaymentStatus, Final

\* A job that does not move keeps its promises while the rows grow.
LEMMA JobStays ==
    ASSUME PaymentInv, RowTypes', Grows, NEW g \in Handlers, job'[g] = job[g],
           job[g].step = "provider" => provider'[job[g].pay] = "none"
    PROVE  JobFits(job[g])'
<1>1. job[g] \in Jobs /\ JobFits(job[g])
  BY DEF PaymentInv, JobsFit
<1>2. SomeCaptured => SomeCaptured'
  BY DEF Grows, SomeCaptured
<1>3. NamesPayment(job[g])' /\ StepFits(job[g])' /\ VerifyFits(job[g])'
  BY <1>1 DEF JobFits, NamesPayment, StepFits, VerifyFits
<1>4. Backed(job[g])'
  BY <1>1, <1>2 DEF JobFits, Backed, Grows
<1>5. CreateFits(job[g])'
  BY <1>1 DEF JobFits, CreateFits, NamesPayment, Transactional, Grows
<1>6. WebhookFits(job[g])'
  BY <1>1 DEF JobFits, WebhookFits, NamesPayment, Transactional, Grows
<1>7. QED BY <1>3, <1>4, <1>5, <1>6 DEF JobFits

\* One job moves on to j and the others stay.
LEMMA JobMoves ==
    ASSUME PaymentInv, RowsFit', Grows, NEW h \in Handlers, NEW j \in Jobs, Becomes(h, j),
           JobFits(j)',
           j.kind = "create" => CreatesAlone(h, j.pay),
           \A g \in Handlers : g # h /\ job[g].step = "provider"
                                   => provider'[job[g].pay] = "none"
    PROVE  PaymentInv'
<1>1. /\ job \in [Handlers -> Jobs]
      /\ job' = [job EXCEPT ![h] = j]
  BY DEF PaymentInv, JobsFit, Becomes
<1>2. /\ job' \in [Handlers -> Jobs]
      /\ job'[h] = j
      /\ \A g \in Handlers : g # h => job'[g] = job[g]
  BY <1>1
<1>3. ASSUME NEW g \in Handlers PROVE JobFits(job[g])'
  <2>1. CASE g = h
    BY <1>2, <2>1
  <2>2. CASE g # h
    BY <1>2, <2>2, JobStays DEF RowsFit
  <2>3. QED BY <2>1, <2>2
<1>4. j.kind = "create" => j.pay \in Payments
  BY DEF JobFits, NamesPayment, Transactional
<1>5. \A g \in Handlers : job[g].kind = "create" => job[g].pay \in Payments
  BY DEF PaymentInv, JobsFit, JobFits, NamesPayment, Transactional
<1>6. JobsFit'
  BY <1>2, <1>3, <1>4, <1>5 DEF PaymentInv, JobsFit, Grows, CreatesAlone
<1>7. QED BY <1>6 DEF PaymentInv

\* A step that leaves the payments and charges alone grows trivially.
LEMMA SameGrows ==
    ASSUME UNCHANGED <<payment, provider>>
    PROVE  /\ Grows
           /\ PaymentInv => \A g \in Handlers :
                  job[g].step = "provider" => provider'[job[g].pay] = "none"
<1>1. Grows
  BY DEF Grows, Captured, HasOutcome
<1>2. PaymentInv => \A g \in Handlers :
          job[g].step = "provider" => provider'[job[g].pay] = "none"
  BY DEF PaymentInv, JobsFit, JobFits, CreateFits
<1>3. QED BY <1>1, <1>2

\* The idle job promises nothing.
LEMMA IdleFits == Idle \in Jobs /\ Idle.kind # "create" /\ JobFits(Idle)
BY DEF Idle, Jobs, Kinds, Steps, JobFits, NamesPayment, Backed, StepFits, CreateFits,
   VerifyFits, WebhookFits, Paid, Transactional

\* The job that only has its event left to mark.
LEMMA MarkFits ==
    ASSUME NEW p \in Payments, HasOutcome(p), payment[p] \in Final,
           NEW j, j = [Idle EXCEPT !.kind = "webhook", !.step = "processed", !.pay = p]
    PROVE  j \in Jobs /\ j.kind # "create" /\ JobFits(j)
BY DEF Idle, Jobs, Kinds, Steps, JobFits, NamesPayment, Backed, StepFits, CreateFits,
   VerifyFits, WebhookFits, Paid, Transactional

\* Rows that no step of this kind writes stay in order.
LEMMA SameRows ==
    ASSUME RowsFit, UNCHANGED <<rows, provider>>,
           rowOrder' \in Handlers \union {Nobody},
           rowPayment' \in [Payments -> Handlers \union {Nobody}],
           faults' \in 0..MaxFaults
    PROVE  RowsFit'
BY DEF RowsFit, rows, RowTypes, PaidIsCaptured, ProcessedIsRecorded, HasOutcome, Captured

\* Unlocking keeps the types of the row locks.
LEMMA UnlockTypes ==
    ASSUME RowTypes, NEW h \in Handlers, Unlock(h)
    PROVE  /\ rowOrder' \in Handlers \union {Nobody}
           /\ rowPayment' \in [Payments -> Handlers \union {Nobody}]
BY DEF RowTypes, Unlock

-----------------------------------------------------------------------------
(* One lemma per action.                                                   *)

USE DEF Handlers

\* createPayment inserts a row that has no charge yet.
LEMMA createPaymentStep ==
    ASSUME PaymentInv, NEW h \in Requests, NEW p \in Payments, createPayment(h, p)
    PROVE  PaymentInv'
<1>1. /\ payment[p] = "NONE" /\ provider[p] = "none" /\ event[p] = "none"
      /\ payment' = [payment EXCEPT ![p] = "CREATED"]
      /\ UNCHANGED <<order, wallet, reservation, settlement, provider, event, rowOrder,
                     rowPayment, faults>>
  BY DEF createPayment, PaymentInv, RowsFit, RowTypes, HasOutcome
<1>2. PICK j : /\ j = [Idle EXCEPT !.kind = "create", !.step = "provider", !.pay = p]
               /\ Becomes(h, j)
  BY DEF createPayment, Start
<1>3. Grows
  BY <1>1 DEF Grows, PaymentInv, RowsFit, RowTypes, HasOutcome, Captured
<1>4. RowsFit'
  BY <1>1 DEF PaymentInv, RowsFit, RowTypes, PaidIsCaptured, ProcessedIsRecorded, HasOutcome,
     Captured, PaymentStatus, Final
<1>5. j \in Jobs
  BY <1>2 DEF Idle, Jobs, Kinds, Steps
<1>6. JobFits(j)'
  BY <1>1, <1>2 DEF Idle, JobFits, NamesPayment, Backed, StepFits, CreateFits, VerifyFits,
     WebhookFits, Paid, Transactional, PaymentInv, RowsFit, RowTypes
<1>7. CreatesAlone(h, p)
  BY <1>1 DEF CreatesAlone, HasOutcome, PaymentInv, JobsFit, JobFits, CreateFits
<1>8. \A g \in Handlers : job[g].step = "provider" => provider'[job[g].pay] = "none"
  BY <1>1 DEF PaymentInv, JobsFit, JobFits, CreateFits
<1>9. QED
  BY <1>2, <1>3, <1>4, <1>5, <1>6, <1>7, <1>8, JobMoves DEF Idle

\* The charge of a new payment is initialised once.
LEMMA InitialiseChargeStep ==
    ASSUME PaymentInv, NEW h \in Handlers, InitialiseCharge(h)
    PROVE  PaymentInv'
<1>1. PICK p \in Payments : p = job[h].pay
  BY DEF InitialiseCharge, At, PaymentInv, JobsFit, JobFits, NamesPayment
<1>2. /\ job[h] \in Jobs /\ job[h].kind = "create" /\ job[h].step = "provider"
      /\ provider[p] = "none" /\ payment[p] # "NONE"
      /\ provider' = [provider EXCEPT ![p] = "pending"]
      /\ UNCHANGED <<rows, rowOrder, rowPayment, faults>>
  BY <1>1 DEF InitialiseCharge, At, PaymentInv, JobsFit, JobFits, CreateFits
<1>3. PICK j : /\ j = [job[h] EXCEPT !.step = "update", !.goal = "PENDING",
                                     !.next = "AWAITING_PAYMENT"]
               /\ Becomes(h, j)
  BY DEF InitialiseCharge
<1>4. Grows
  BY <1>2 DEF Grows, PaymentInv, RowsFit, RowTypes, HasOutcome, Captured, rows
<1>5. RowsFit'
  BY <1>2 DEF PaymentInv, RowsFit, RowTypes, PaidIsCaptured, ProcessedIsRecorded, HasOutcome,
     Captured, rows
<1>6. /\ j \in Jobs
      /\ j.kind = "create" /\ j.step = "update" /\ j.pay = p /\ j.goal = "PENDING"
      /\ j.next = "AWAITING_PAYMENT"
  BY <1>1, <1>2, <1>3 DEF Jobs, Steps, PaymentStatus, OrderStatus
<1>7. JobFits(j)'
  BY <1>2, <1>6 DEF JobFits, NamesPayment, Backed, StepFits, CreateFits, VerifyFits,
     WebhookFits, Paid, Transactional, rows
<1>8. CreatesAlone(h, p)
  BY <1>1, <1>2 DEF CreatesAlone, PaymentInv, JobsFit
<1>9. \A g \in Handlers : g # h /\ job[g].step = "provider" => provider'[job[g].pay] = "none"
  BY <1>1, <1>2 DEF PaymentInv, JobsFit, JobFits, CreateFits, NamesPayment, RowsFit, RowTypes
<1>10. QED
  BY <1>3, <1>4, <1>5, <1>6, <1>7, <1>8, <1>9, JobMoves

\* A refused payment has no charge, and fails.
LEMMA ProviderRefusesStep ==
    ASSUME PaymentInv, NEW h \in Handlers, ProviderRefuses(h)
    PROVE  PaymentInv'
<1>1. PICK p \in Payments : p = job[h].pay
  BY DEF ProviderRefuses, At, PaymentInv, JobsFit, JobFits, NamesPayment
<1>2. /\ provider[p] = "none" /\ payment[p] # "NONE"
      /\ payment' = [payment EXCEPT ![p] = "FAILED"]
      /\ Becomes(h, Idle)
      /\ UNCHANGED <<order, wallet, reservation, settlement, provider, event, rowOrder,
                     rowPayment, faults>>
  BY <1>1 DEF ProviderRefuses, At, PaymentInv, JobsFit, JobFits, CreateFits
<1>3. Grows
  BY <1>2 DEF Grows, PaymentInv, RowsFit, RowTypes, HasOutcome, Captured, Final
<1>4. RowsFit'
  BY <1>2 DEF PaymentInv, RowsFit, RowTypes, PaidIsCaptured, ProcessedIsRecorded, HasOutcome,
     Captured, PaymentStatus, Final
<1>5. JobFits(Idle)'
  BY DEF Idle, JobFits, NamesPayment, Backed, StepFits, CreateFits, VerifyFits, WebhookFits,
     Paid, Transactional
<1>6. \A g \in Handlers : job[g].step = "provider" => provider'[job[g].pay] = "none"
  BY <1>2 DEF PaymentInv, JobsFit, JobFits, CreateFits
<1>7. QED
  BY <1>2, <1>3, <1>4, <1>5, <1>6, IdleFits, JobMoves

\* Only the job, and perhaps a row lock, changes.
LEMMA JobOnly ==
    ASSUME PaymentInv, NEW h \in Handlers, NEW j \in Jobs, Becomes(h, j), JobFits(j),
           j.kind = "create" => CreatesAlone(h, j.pay),
           UNCHANGED <<rows, provider>>,
           rowOrder' \in Handlers \union {Nobody},
           rowPayment' \in [Payments -> Handlers \union {Nobody}],
           faults' \in 0..MaxFaults
    PROVE  PaymentInv'
<1>1. UNCHANGED <<payment, provider>>
  BY DEF rows
<1>2. RowsFit'
  BY SameRows DEF PaymentInv
<1>3. JobFits(j)'
  BY <1>1 DEF JobFits, NamesPayment, Backed, StepFits, CreateFits, VerifyFits, WebhookFits,
     SomeCaptured, Captured, HasOutcome
<1>4. QED
  BY <1>1, <1>2, <1>3, SameGrows, JobMoves

\* The locks of a state that is typed.
LEMMA LockTypes ==
    ASSUME PaymentInv
    PROVE  /\ rowOrder \in Handlers \union {Nobody}
           /\ rowPayment \in [Payments -> Handlers \union {Nobody}]
           /\ faults \in 0..MaxFaults
BY DEF PaymentInv, RowsFit, RowTypes

\* What the provider reports of a charge, whatever amount it is asked for.
LEMMA ReportedFits ==
    ASSUME NEW p \in Payments
    PROVE  /\ Reported(p) \in ReportedToCaller(p)
           /\ ReportedForAmount(p) \subseteq ReportedToCaller(p)
           /\ \A r \in ReportedToCaller(p) : /\ r \in {"PENDING"} \union Final
                                             /\ r = "SUCCEEDED" => Captured(p)
                                             /\ HasOutcome(p) => r \in Final
<1>1. /\ Reported(p) \in {"PENDING"} \union Final
      /\ Reported(p) = "SUCCEEDED" => Captured(p)
      /\ HasOutcome(p) => Reported(p) \in Final
  BY DEF Reported, Captured, HasOutcome, Final
<1>2. ASSUME NEW r \in ReportedToCaller(p) PROVE r = Reported(p) \/ r = "FAILED"
  BY DEF ReportedToCaller, ReportedForAmount
<1>3. QED
  BY <1>1, <1>2 DEF ReportedToCaller, Final

\* verifyPayment carries what the provider said, next to the status it read.
LEMMA verifyPaymentStep ==
    ASSUME PaymentInv, NEW h \in Requests, NEW p \in Payments, verifyPayment(h, p)
    PROVE  PaymentInv'
<1>1. PICK r \in ReportedToCaller(p) :
        /\ canTransition(payment[p], r)
        /\ Becomes(h, [kind |-> "verify", step |-> "update", pay |-> p,
                       seen |-> payment[p], goal |-> r, next |-> "NONE"])
  BY DEF verifyPayment
<1>2. PICK j : j = [kind |-> "verify", step |-> "update", pay |-> p,
                    seen |-> payment[p], goal |-> r, next |-> "NONE"]
  OBVIOUS
<1>3. /\ r \in {"PENDING"} \union Final
      /\ r = "SUCCEEDED" => Captured(p)
  BY ReportedFits
<1>4. payment[p] \in PaymentStatus /\ (payment[p] \in Final => r = payment[p])
  BY <1>1, FinalStays
<1>5. j \in Jobs
  BY <1>2, <1>3, <1>4 DEF Jobs, Kinds, Steps, PaymentStatus, Final
<1>6. JobFits(j)
  BY <1>2, <1>3, <1>4 DEF JobFits, NamesPayment, Backed, StepFits, CreateFits, VerifyFits,
     WebhookFits, SomeCaptured, Paid, Transactional
<1>7. UNCHANGED <<rows, provider, rowOrder, rowPayment, faults>>
  BY DEF verifyPayment
<1>8. QED
  BY <1>1, <1>2, <1>5, <1>6, <1>7, LockTypes, JobOnly

\* A webhook is about a charge that has ended.
LEMMA processWebhookStep ==
    ASSUME PaymentInv, NEW h \in Requests, NEW p \in Payments, processWebhook(h, p)
    PROVE  PaymentInv'
<1>1. /\ HasOutcome(p)
      /\ event' = [event EXCEPT ![p] = "claimed"]
      /\ UNCHANGED <<order, wallet, reservation, settlement, payment, provider, rowOrder,
                     rowPayment, faults>>
  BY OutcomeAssumption DEF processWebhook, HasOutcome
<1>2. PICK j : /\ j = [Idle EXCEPT !.kind = "webhook", !.step = "lookup", !.pay = p]
               /\ Becomes(h, j)
  BY DEF processWebhook, Start
<1>3. RowsFit'
  BY <1>1 DEF PaymentInv, RowsFit, RowTypes, PaidIsCaptured, ProcessedIsRecorded, HasOutcome,
     Captured
<1>4. j \in Jobs
  BY <1>2 DEF Idle, Jobs, Kinds, Steps
<1>5. JobFits(j)'
  BY <1>1, <1>2 DEF Idle, JobFits, NamesPayment, Backed, StepFits, CreateFits, VerifyFits,
     WebhookFits, Paid, Transactional, HasOutcome
<1>6. j.kind # "create"
  BY <1>2 DEF Idle
<1>7. QED
  BY <1>1, <1>2, <1>3, <1>4, <1>5, <1>6, SameGrows, JobMoves

\* The webhook brings the outcome, or finds one recorded.
LEMMA LookUpPaymentStep ==
    ASSUME PaymentInv, NEW h \in Handlers, LookUpPayment(h)
    PROVE  PaymentInv'
<1>1. PICK p \in Payments : p = job[h].pay
  BY DEF LookUpPayment, At, PaymentInv, JobsFit, JobFits, NamesPayment
<1>2. /\ job[h] \in Jobs /\ job[h].kind = "webhook" /\ HasOutcome(p)
      /\ payment[p] \in {"PENDING"} \union Final
      /\ Backed(job[h])
      /\ UNCHANGED <<rows, provider, rowOrder, rowPayment, faults>>
  BY <1>1 DEF LookUpPayment, At, PaymentInv, RowsFit, JobsFit, JobFits, StepFits, WebhookFits
<1>3. CASE canTransition(payment[p], Reported(p))
  <2>1. PICK j : /\ j = [job[h] EXCEPT !.step = "update", !.seen = payment[p],
                                       !.goal = Reported(p)]
                 /\ Becomes(h, j)
    BY <1>1, <1>3 DEF LookUpPayment
  <2>2. /\ Reported(p) \in Final
        /\ Reported(p) = "SUCCEEDED" => Captured(p)
    BY <1>2, ReportedFits
  <2>3. /\ j \in Jobs /\ j.kind = "webhook" /\ j.step = "update" /\ j.pay = p
        /\ j.seen = payment[p] /\ j.goal = Reported(p) /\ j.next = job[h].next
    BY <1>1, <1>2, <2>1, <2>2 DEF Jobs, Steps, PaymentStatus, Final
  <2>4. JobFits(j)
    BY <1>2, <2>2, <2>3 DEF JobFits, NamesPayment, Backed, StepFits, CreateFits, VerifyFits,
       WebhookFits, SomeCaptured, Transactional
  <2>5. QED
    BY <1>2, <2>1, <2>3, <2>4, LockTypes, JobOnly
<1>4. CASE ~canTransition(payment[p], Reported(p))
  <2>1. payment[p] \in Final
    BY <1>2, <1>4, ReportedFits DEF canTransition, allowedTransitions, PaymentStatus, Final
  <2>2. PICK j : /\ j = [Idle EXCEPT !.kind = "webhook", !.step = "processed", !.pay = p]
                 /\ Becomes(h, j)
    BY <1>1, <1>4 DEF LookUpPayment, GoMark
  <2>3. j \in Jobs /\ j.kind # "create" /\ JobFits(j)
    BY <1>2, <2>1, <2>2, MarkFits
  <2>4. QED
    BY <1>2, <2>2, <2>3, LockTypes, JobOnly
<1>5. QED BY <1>3, <1>4

\* A job that goes on creating its payment is still the only one.
LEMMA StillAlone ==
    ASSUME PaymentInv, NEW h \in Handlers, job[h].kind = "create"
    PROVE  CreatesAlone(h, job[h].pay)
BY DEF PaymentInv, JobsFit, CreatesAlone

\* The payment changes only from the status that was read, to what is backed.
LEMMA UpdatePaymentStep ==
    ASSUME PaymentInv, NEW h \in Handlers, UpdatePayment(h)
    PROVE  PaymentInv'
<1>1. PICK p \in Payments : p = job[h].pay
  BY DEF UpdatePayment, At, PaymentInv, JobsFit, JobFits, NamesPayment
<1>2. /\ job[h] \in Jobs /\ JobFits(job[h]) /\ job[h].step = "update"
      /\ rowPayment \in [Payments -> Handlers \union {Nobody}]
      /\ UNCHANGED <<order, wallet, reservation, settlement, event, provider, rowOrder, faults>>
  BY DEF UpdatePayment, At, PaymentInv, JobsFit, RowsFit, RowTypes
<1>3. ASSUME NEW step \in {"writeOrder", "reservation"},
             rowPayment' = [rowPayment EXCEPT ![p] = h], Go(h, step), UNCHANGED payment,
             \/ step = "writeOrder" /\ job[h].kind = "create"
             \/ step = "reservation" /\ job[h].kind = "webhook"
      PROVE  PaymentInv'
  <2>1. PICK j : /\ j = [job[h] EXCEPT !.step = step, !.seen = "NONE"]
                 /\ Becomes(h, j)
    BY <1>3 DEF Go
  <2>2. /\ j \in Jobs /\ j.kind = job[h].kind /\ j.step = step /\ j.pay = p
        /\ j.goal = job[h].goal /\ j.next = job[h].next
    BY <1>1, <1>2, <2>1 DEF Jobs, Steps
  <2>3. JobFits(j)
    BY <1>1, <1>2, <1>3, <2>2 DEF JobFits, NamesPayment, Backed, StepFits, CreateFits,
       VerifyFits, WebhookFits, Transactional
  <2>4. rowPayment' \in [Payments -> Handlers \union {Nobody}]
    BY <1>2, <1>3
  <2>5. j.kind = "create" => CreatesAlone(h, j.pay)
    BY <1>1, <2>2, StillAlone
  <2>6. QED
    BY <1>2, <1>3, <2>1, <2>2, <2>3, <2>4, <2>5, LockTypes, JobOnly DEF rows
<1>4. ASSUME job[h].kind = "webhook", payment[p] # job[h].seen, GoMark(h),
             UNCHANGED <<payment, rowPayment>>
      PROVE  PaymentInv'
  <2>1. HasOutcome(p) /\ payment[p] \in Final
    BY <1>1, <1>2, <1>4 DEF JobFits, WebhookFits, PaymentInv, RowsFit
  <2>2. PICK j : /\ j = [Idle EXCEPT !.kind = "webhook", !.step = "processed", !.pay = p]
                 /\ Becomes(h, j)
    BY <1>1, <1>4 DEF GoMark
  <2>3. j \in Jobs /\ j.kind # "create" /\ JobFits(j)
    BY <2>1, <2>2, MarkFits
  <2>4. QED
    BY <1>2, <1>4, <2>2, <2>3, LockTypes, JobOnly DEF rows
<1>5. ASSUME job[h].kind = "verify", payment[p] = job[h].seen, UNCHANGED rowPayment,
             payment' = [payment EXCEPT ![p] = job[h].goal],
             Becomes(h, IF job[h].goal = "PENDING" THEN Idle
                        ELSE [Idle EXCEPT !.kind = "verify", !.step = "reservation",
                                          !.goal = job[h].goal])
      PROVE  PaymentInv'
  <2>1. /\ job[h].goal \in {"PENDING"} \union Final
        /\ payment[p] \in PaymentStatus /\ (payment[p] \in Final => job[h].goal = payment[p])
        /\ job[h].goal = "SUCCEEDED" => Captured(p)
    BY <1>1, <1>2, <1>5 DEF JobFits, VerifyFits, Backed
  <2>2. Grows
    BY <1>2, <1>5, <2>1 DEF Grows, PaymentInv, RowsFit, RowTypes, HasOutcome, Captured, Final
  <2>3. RowsFit'
    BY <1>2, <1>5, <2>1 DEF PaymentInv, RowsFit, RowTypes, PaidIsCaptured,
       ProcessedIsRecorded, HasOutcome, Captured, PaymentStatus, Final
  <2>4. PICK j : /\ j = IF job[h].goal = "PENDING" THEN Idle
                        ELSE [Idle EXCEPT !.kind = "verify", !.step = "reservation",
                                          !.goal = job[h].goal]
                 /\ Becomes(h, j)
    BY <1>5
  <2>5. /\ j \in Jobs /\ j.kind \in {"idle", "verify"} /\ j.step \in {"begin", "reservation"}
        /\ j.pay = NoPayment /\ j.next = "NONE" /\ j.goal \in {"NONE", job[h].goal}
    BY <2>1, <2>4 DEF Idle, Jobs, Kinds, Steps, PaymentStatus, Final
  <2>6. JobFits(j)'
    BY <1>2, <2>1, <2>5, NullAssumption DEF JobFits, NamesPayment, Backed, StepFits, CreateFits,
       VerifyFits, WebhookFits, Paid, Transactional, SomeCaptured, Captured
  <2>7. \A g \in Handlers : job[g].step = "provider" => provider'[job[g].pay] = "none"
    BY <1>2 DEF PaymentInv, JobsFit, JobFits, CreateFits
  <2>8. QED
    BY <2>2, <2>3, <2>4, <2>5, <2>6, <2>7, JobMoves
<1>6. ASSUME Becomes(h, Idle), UNCHANGED <<payment, rowPayment>>
      PROVE  PaymentInv'
  BY <1>2, <1>6, IdleFits, LockTypes, JobOnly DEF rows
<1>7. QED
  BY <1>1, <1>3, <1>4, <1>5, <1>6 DEF UpdatePayment

\* A reservation is confirmed only for a captured charge.
LEMMA UpdateReservationStep ==
    ASSUME PaymentInv, NEW h \in Handlers, UpdateReservation(h)
    PROVE  PaymentInv'
<1>1. /\ job[h] \in Jobs /\ JobFits(job[h]) /\ job[h].step = "reservation"
      /\ UNCHANGED <<order, wallet, settlement, payment, event, provider, rowOrder, rowPayment,
                     faults>>
  BY DEF UpdateReservation, At, PaymentInv, JobsFit
<1>2. \/ reservation' = Confirm(reservation) /\ SomeCaptured
      \/ reservation' = Release(reservation, "EXPIRED_RELEASED")
      \/ reservation' = Release(reservation, "CANCELLED_RELEASED")
  BY <1>1 DEF UpdateReservation, JobFits, Backed
<1>3. RowsFit'
  BY <1>1, <1>2 DEF Confirm, Release, PaymentInv, RowsFit, RowTypes, PaidIsCaptured,
     ProcessedIsRecorded, HasOutcome, Captured, SomeCaptured
<1>4. PICK j : /\ j = [job[h] EXCEPT !.step = "readOrder", !.seen = "NONE"]
               /\ Becomes(h, j)
  BY DEF UpdateReservation, Go
<1>5. /\ j \in Jobs /\ j.kind = job[h].kind /\ j.step = "readOrder" /\ j.pay = job[h].pay
      /\ j.goal = job[h].goal /\ j.next = job[h].next
  BY <1>1, <1>4 DEF Jobs, Steps
<1>6. JobFits(j)'
  BY <1>1, <1>5 DEF JobFits, NamesPayment, Backed, StepFits, CreateFits, VerifyFits,
     WebhookFits, Transactional, SomeCaptured, Captured, HasOutcome
<1>7. j.kind # "create"
  BY <1>1, <1>5 DEF JobFits, CreateFits
<1>8. QED
  BY <1>1, <1>3, <1>4, <1>5, <1>6, <1>7, SameGrows, JobMoves

\* The order is to advance only for a captured charge.
LEMMA ReadOrderStep ==
    ASSUME PaymentInv, NEW h \in Handlers, ReadOrder(h)
    PROVE  PaymentInv'
<1>1. /\ job[h] \in Jobs /\ JobFits(job[h]) /\ job[h].step = "readOrder"
      /\ UNCHANGED <<rows, provider, rowOrder, rowPayment, faults>>
  BY DEF ReadOrder, At, PaymentInv, JobsFit
<1>2. PICK next : next = IF job[h].kind = "cleanup" THEN AfterExpiry
                         ELSE AfterOutcome(job[h].goal)
  OBVIOUS
<1>3. /\ next \in OrderStatus \union {"NONE"}
      /\ next \in Paid => SomeCaptured
  BY <1>1, <1>2 DEF AfterExpiry, AfterOutcome, OrderStatus, Paid, JobFits, Backed
<1>4. CASE Becomes(h, Idle)
  BY <1>1, <1>4, IdleFits, LockTypes, JobOnly
<1>5. CASE Becomes(h, [job[h] EXCEPT !.step = "writeOrder", !.next = next])
  <2>1. PICK j : /\ j = [job[h] EXCEPT !.step = "writeOrder", !.next = next]
                 /\ Becomes(h, j)
    BY <1>5
  <2>2. /\ j \in Jobs /\ j.kind = job[h].kind /\ j.step = "writeOrder" /\ j.pay = job[h].pay
        /\ j.goal = job[h].goal /\ j.next = next
    BY <1>1, <1>3, <2>1 DEF Jobs, Steps
  <2>3. JobFits(j)
    BY <1>1, <1>3, <2>2 DEF JobFits, NamesPayment, Backed, StepFits, CreateFits, VerifyFits,
       WebhookFits, Transactional
  <2>4. j.kind # "create"
    BY <1>1, <2>2 DEF JobFits, CreateFits
  <2>5. QED
    BY <1>1, <2>1, <2>2, <2>3, <2>4, LockTypes, JobOnly
<1>6. QED
  BY <1>2, <1>4, <1>5 DEF ReadOrder

\* The order advances and the payment of a transaction gets its outcome.
LEMMA WriteOrderStep ==
    ASSUME PaymentInv, NEW h \in Handlers, WriteOrder(h)
    PROVE  PaymentInv'
<1>1. /\ job[h] \in Jobs /\ JobFits(job[h]) /\ job[h].step = "writeOrder"
      /\ order' = IF job[h].next = "NONE" THEN order ELSE job[h].next
      /\ wallet' = (wallet \/ job[h].kind = "wallet")
      /\ UNCHANGED <<reservation, settlement, event, provider, faults>>
  BY DEF WriteOrder, At, PaymentInv, JobsFit
<1>2. order' \in OrderStatus /\ (order' \in Paid => order \in Paid \/ SomeCaptured)
  BY <1>1 DEF Jobs, JobFits, Backed, PaymentInv, RowsFit, RowTypes
<1>3. wallet' \in BOOLEAN
  BY <1>1
<1>4. /\ rowOrder' \in Handlers \union {Nobody}
      /\ rowPayment' \in [Payments -> Handlers \union {Nobody}]
  BY UnlockTypes DEF WriteOrder, PaymentInv, RowsFit
<1>5. \A g \in Handlers : job[g].step = "provider" => provider'[job[g].pay] = "none"
  BY <1>1 DEF PaymentInv, JobsFit, JobFits, CreateFits
<1>6. CASE job[h].kind \notin Transactional
  <2>1. UNCHANGED payment /\ Becomes(h, Idle)
    BY <1>6 DEF WriteOrder, Transactional
  <2>2. RowsFit'
    BY <1>1, <1>2, <1>3, <1>4, <2>1 DEF PaymentInv, RowsFit, RowTypes, PaidIsCaptured,
       ProcessedIsRecorded, HasOutcome, Captured, SomeCaptured, Paid
  <2>3. JobFits(Idle)'
    BY DEF Idle, JobFits, NamesPayment, Backed, StepFits, CreateFits, VerifyFits, WebhookFits,
       Paid, Transactional
  <2>4. QED
    BY <1>1, <2>1, <2>2, <2>3, IdleFits, SameGrows, JobMoves
<1>7. CASE job[h].kind \in Transactional
  <2>1. PICK p \in Payments : p = job[h].pay
    BY <1>1, <1>7 DEF JobFits, NamesPayment
  <2>2. /\ payment' = [payment EXCEPT ![p] = job[h].goal]
        /\ job[h].goal \in {"PENDING"} \union Final
        /\ HasOutcome(p) => job[h].kind = "webhook"
        /\ job[h].kind = "webhook" => HasOutcome(p) /\ job[h].goal \in Final
        /\ job[h].goal = "SUCCEEDED" => Captured(p)
    BY <1>1, <1>7, <2>1 DEF WriteOrder, Transactional, JobFits, CreateFits, WebhookFits, Backed,
       PaymentInv, JobsFit
  <2>3. payment' \in [Payments -> PaymentStatus \union {"NONE"}]
    BY <2>2 DEF PaymentStatus, Final, PaymentInv, RowsFit, RowTypes
  <2>4. payment'[p] = job[h].goal /\ \A q \in Payments : q # p => payment'[q] = payment[q]
    BY <2>2 DEF PaymentInv, RowsFit, RowTypes
  <2>5. Grows
    BY <1>1, <2>2, <2>4 DEF Grows, HasOutcome, Captured, Final
  <2>6. PaidIsCaptured'
    BY <1>1, <1>2, <2>2, <2>4 DEF PaymentInv, RowsFit, PaidIsCaptured, Captured, SomeCaptured,
       Paid
  <2>7. /\ ProcessedIsRecorded'
        /\ \A q \in Payments : payment'[q] = "NONE" => provider'[q] = "none"
        /\ \A q \in Payments : event'[q] # "none" => HasOutcome(q)'
        /\ \A q \in Payments : HasOutcome(q)' => payment'[q] \in {"PENDING"} \union Final
    BY <1>1, <2>2, <2>4 DEF PaymentInv, RowsFit, ProcessedIsRecorded, HasOutcome, Final
  <2>8. RowsFit'
    BY <1>1, <1>2, <1>3, <1>4, <2>3, <2>6, <2>7 DEF PaymentInv, RowsFit, RowTypes
  <2>9. CASE job[h].kind = "create"
    <3>1. Becomes(h, Idle)
      BY <2>9 DEF WriteOrder
    <3>2. JobFits(Idle)'
      BY DEF Idle, JobFits, NamesPayment, Backed, StepFits, CreateFits, VerifyFits,
         WebhookFits, Paid, Transactional
    <3>3. QED
      BY <1>5, <2>5, <2>8, <3>1, <3>2, IdleFits, JobMoves
  <2>10. CASE job[h].kind = "webhook"
    <3>1. PICK j : /\ j = [Idle EXCEPT !.kind = "webhook", !.step = "processed", !.pay = p]
                   /\ Becomes(h, j)
      BY <2>1, <2>10 DEF WriteOrder, GoMark
    <3>2. j \in Jobs /\ j.kind # "create"
      BY <3>1 DEF Idle, Jobs, Kinds, Steps
    <3>3. JobFits(j)'
      BY <1>1, <2>2, <2>4, <2>10, <3>1 DEF Idle, JobFits, NamesPayment, Backed, StepFits,
         CreateFits, VerifyFits, WebhookFits, Paid, Transactional, HasOutcome
    <3>4. QED
      BY <1>5, <2>5, <2>8, <3>1, <3>2, <3>3, JobMoves
  <2>11. QED BY <1>7, <2>9, <2>10 DEF Transactional
<1>8. QED BY <1>6, <1>7

\* The event is marked when the payment has its outcome.
LEMMA MarkProcessedStep ==
    ASSUME PaymentInv, NEW h \in Handlers, MarkProcessed(h)
    PROVE  PaymentInv'
<1>1. PICK p \in Payments : p = job[h].pay
  BY DEF MarkProcessed, At, PaymentInv, JobsFit, JobFits, NamesPayment
<1>2. /\ HasOutcome(p) /\ payment[p] \in Final
      /\ event' = [event EXCEPT ![p] = "processed"]
      /\ Becomes(h, Idle)
      /\ UNCHANGED <<order, wallet, reservation, settlement, payment, provider, rowOrder,
                     rowPayment, faults>>
  BY <1>1 DEF MarkProcessed, At, PaymentInv, JobsFit, JobFits, StepFits, WebhookFits
<1>3. RowsFit'
  BY <1>2 DEF PaymentInv, RowsFit, RowTypes, PaidIsCaptured, ProcessedIsRecorded, HasOutcome,
     Captured, Final
<1>4. JobFits(Idle)'
  BY DEF Idle, JobFits, NamesPayment, Backed, StepFits, CreateFits, VerifyFits, WebhookFits,
     Paid, Transactional
<1>5. QED
  BY <1>2, <1>3, <1>4, IdleFits, SameGrows, JobMoves

\* A wallet takes only a paid order to settlement.
LEMMA updateOrderWalletStep ==
    ASSUME PaymentInv, NEW h \in Requests, updateOrderWallet(h)
    PROVE  PaymentInv'
<1>1. PICK next : /\ next = order \/ (next = "SETTLEMENT_PENDING" /\ SomeCaptured)
                  /\ Becomes(h, [Idle EXCEPT !.kind = "wallet", !.step = "writeOrder",
                                             !.next = next])
  BY DEF updateOrderWallet, PaymentInv, RowsFit, PaidIsCaptured, SomeCaptured
<1>2. PICK j : j = [Idle EXCEPT !.kind = "wallet", !.step = "writeOrder", !.next = next]
  OBVIOUS
<1>3. next \in OrderStatus /\ (next \in Paid => SomeCaptured)
  BY <1>1 DEF PaymentInv, RowsFit, RowTypes, PaidIsCaptured, SomeCaptured, Paid, OrderStatus
<1>4. j \in Jobs /\ j.kind # "create"
  BY <1>2, <1>3 DEF Idle, Jobs, Kinds, Steps
<1>5. JobFits(j)
  BY <1>2, <1>3 DEF Idle, JobFits, NamesPayment, Backed, StepFits, CreateFits, VerifyFits,
     WebhookFits, Transactional
<1>6. UNCHANGED <<rows, provider, rowOrder, rowPayment, faults>>
  BY DEF updateOrderWallet
<1>7. QED
  BY <1>1, <1>2, <1>4, <1>5, <1>6, LockTypes, JobOnly

\* The sweeps of the worker start without a payment in hand.
LEMMA SweepStep ==
    ASSUME PaymentInv, Sweep
    PROVE  PaymentInv'
<1>1. PICK kind \in {"cleanup", "reconcile"}, step \in {"reservation", "lockOrder"} :
        /\ kind = "cleanup" <=> step = "reservation"
        /\ Becomes(Worker, [Idle EXCEPT !.kind = kind, !.step = step, !.pay = NoPayment])
  BY DEF Sweep, processSingleReservation, processPaymentReconciliation, Start
<1>2. PICK j : j = [Idle EXCEPT !.kind = kind, !.step = step, !.pay = NoPayment]
  OBVIOUS
<1>3. j \in Jobs /\ j.kind # "create"
  BY <1>2 DEF Idle, Jobs, Kinds, Steps
<1>4. JobFits(j)
  BY <1>1, <1>2 DEF Idle, JobFits, NamesPayment, Backed, StepFits, CreateFits, VerifyFits,
     WebhookFits, Paid, Transactional
<1>5. UNCHANGED <<rows, provider, rowOrder, rowPayment, faults>>
  BY DEF Sweep, processSingleReservation, processPaymentReconciliation
<1>6. QED
  BY <1>1, <1>2, <1>3, <1>4, <1>5, LockTypes, JobOnly

\* Reconciliation takes up some payment of the order it locked.
LEMMA LockOrderStep ==
    ASSUME PaymentInv, NEW h \in Handlers, LockOrder(h)
    PROVE  PaymentInv'
<1>1. /\ job[h] \in Jobs /\ JobFits(job[h]) /\ job[h].step = "lockOrder"
      /\ UNCHANGED <<rows, provider, rowPayment, faults>>
  BY DEF LockOrder, At, PaymentInv, JobsFit
<1>2. ASSUME NEW p \in Payments, rowOrder' = h,
             Becomes(h, [job[h] EXCEPT !.step = "query", !.pay = p])
      PROVE  PaymentInv'
  <2>1. PICK j : /\ j = [job[h] EXCEPT !.step = "query", !.pay = p]
                 /\ Becomes(h, j)
    BY <1>2
  <2>2. /\ j \in Jobs /\ j.kind = "reconcile" /\ j.step = "query" /\ j.pay = p
        /\ j.goal = job[h].goal /\ j.next = job[h].next
    BY <1>1, <2>1 DEF Jobs, Steps, JobFits, StepFits
  <2>3. JobFits(j)
    BY <1>1, <2>2 DEF JobFits, NamesPayment, Backed, StepFits, CreateFits, VerifyFits,
       WebhookFits, Transactional
  <2>4. QED
    BY <1>1, <1>2, <2>1, <2>2, <2>3, LockTypes, JobOnly
<1>3. CASE Becomes(h, Idle) /\ UNCHANGED rowOrder
  BY <1>1, <1>3, IdleFits, LockTypes, JobOnly
<1>4. QED
  BY <1>2, <1>3 DEF LockOrder

\* Reconciliation carries what the provider said of that payment.
LEMMA QueryProviderStep ==
    ASSUME PaymentInv, NEW h \in Handlers, QueryProvider(h)
    PROVE  PaymentInv'
<1>1. /\ job[h] \in Jobs /\ JobFits(job[h]) /\ job[h].step = "query"
      /\ UNCHANGED <<rows, provider, rowPayment, faults>>
  BY DEF QueryProvider, At, PaymentInv, JobsFit
<1>2. PICK p \in Payments : p = job[h].pay
  BY <1>1 DEF JobFits, NamesPayment
<1>3. ASSUME NEW result \in ReportedForAmount(p), result # "PENDING", UNCHANGED rowOrder,
             Becomes(h, [job[h] EXCEPT !.step = "record", !.goal = result])
      PROVE  PaymentInv'
  <2>1. result \in Final /\ (result = "SUCCEEDED" => Captured(p))
    BY <1>3, ReportedFits
  <2>2. PICK j : /\ j = [job[h] EXCEPT !.step = "record", !.goal = result]
                 /\ Becomes(h, j)
    BY <1>3
  <2>3. /\ j \in Jobs /\ j.kind = "reconcile" /\ j.step = "record" /\ j.pay = p
        /\ j.goal = result /\ j.next = job[h].next
    BY <1>1, <1>2, <2>1, <2>2 DEF Jobs, Steps, PaymentStatus, Final, JobFits, StepFits
  <2>4. JobFits(j)
    BY <1>1, <2>1, <2>3 DEF JobFits, NamesPayment, Backed, StepFits, CreateFits, VerifyFits,
       WebhookFits, Transactional, SomeCaptured
  <2>5. QED
    BY <1>1, <1>3, <2>2, <2>3, <2>4, LockTypes, JobOnly
<1>4. CASE rowOrder' = Nobody /\ Becomes(h, Idle)
  BY <1>1, <1>4, IdleFits, LockTypes, JobOnly
<1>5. QED
  BY <1>2, <1>3, <1>4 DEF QueryProvider

\* Reconciliation records the outcome in all rows at once.
LEMMA RecordOutcomeStep ==
    ASSUME PaymentInv, NEW h \in Handlers, RecordOutcome(h)
    PROVE  PaymentInv'
<1>1. PICK p \in Payments : p = job[h].pay
  BY DEF RecordOutcome, At, PaymentInv, JobsFit, JobFits, NamesPayment
<1>2. /\ job[h].goal \in Final /\ (job[h].goal = "SUCCEEDED" => Captured(p))
      /\ payment' = [payment EXCEPT ![p] = job[h].goal]
      /\ order' = IF job[h].goal = "SUCCEEDED" THEN "PAYMENT_CONFIRMED" ELSE "FAILED"
      /\ reservation' = IF job[h].goal = "SUCCEEDED" THEN Confirm(reservation)
                        ELSE Release(reservation, "CANCELLED_RELEASED")
      /\ settlement' = IF job[h].goal = "SUCCEEDED" /\ settlement = "NONE" THEN "PENDING"
                       ELSE settlement
      /\ Becomes(h, Idle)
      /\ UNCHANGED <<wallet, event, provider, faults>>
  BY <1>1 DEF RecordOutcome, At, PaymentInv, JobsFit, JobFits, StepFits, Backed
<1>3. /\ rowOrder' \in Handlers \union {Nobody}
      /\ rowPayment' \in [Payments -> Handlers \union {Nobody}]
  BY UnlockTypes DEF RecordOutcome, PaymentInv, RowsFit
<1>4. /\ payment' \in [Payments -> PaymentStatus \union {"NONE"}]
      /\ payment'[p] = job[h].goal /\ \A q \in Payments : q # p => payment'[q] = payment[q]
  BY <1>2 DEF PaymentInv, RowsFit, RowTypes, PaymentStatus, Final
<1>5. Grows
  BY <1>2, <1>4 DEF Grows, HasOutcome, Captured, Final
<1>6. RowTypes'
  BY <1>2, <1>3, <1>4 DEF PaymentInv, RowsFit, RowTypes, Confirm, Release, OrderStatus
<1>7. PaidIsCaptured'
  BY <1>2, <1>4 DEF PaymentInv, RowsFit, RowTypes, PaidIsCaptured, Captured, Confirm, Release
<1>8. /\ ProcessedIsRecorded'
      /\ \A q \in Payments : payment'[q] = "NONE" => provider'[q] = "none"
      /\ \A q \in Payments : event'[q] # "none" => HasOutcome(q)'
      /\ \A q \in Payments : HasOutcome(q)' => payment'[q] \in {"PENDING"} \union Final
  BY <1>2, <1>4 DEF PaymentInv, RowsFit, ProcessedIsRecorded, HasOutcome, Final
<1>9. JobFits(Idle)'
  BY DEF Idle, JobFits, NamesPayment, Backed, StepFits, CreateFits, VerifyFits, WebhookFits,
     Paid, Transactional
<1>10. \A g \in Handlers : job[g].step = "provider" => provider'[job[g].pay] = "none"
  BY <1>2 DEF PaymentInv, JobsFit, JobFits, CreateFits
<1>11. QED
  BY <1>2, <1>5, <1>6, <1>7, <1>8, <1>9, <1>10, IdleFits, JobMoves DEF RowsFit

\* An interrupted job leaves nothing but what it committed.
LEMMA AbortStep ==
    ASSUME PaymentInv, NEW h \in Handlers, Abort(h), faults' \in 0..MaxFaults
    PROVE  PaymentInv'
<1>1. Becomes(h, Idle) /\ UNCHANGED <<rows, provider>>
  BY DEF Abort
<1>2. /\ rowOrder' \in Handlers \union {Nobody}
      /\ rowPayment' \in [Payments -> Handlers \union {Nobody}]
  BY UnlockTypes DEF Abort, PaymentInv, RowsFit
<1>3. QED
  BY <1>1, <1>2, IdleFits, JobOnly

\* A charge ends only when its payment is no longer being created.
LEMMA ChargeStep ==
    ASSUME PaymentInv, NEW p \in Payments, Charge(p)
    PROVE  PaymentInv'
<1>1. PICK o \in {"success", "short", "failed"} : provider' = [provider EXCEPT ![p] = o]
  BY OutcomeAssumption DEF Charge
<1>2. /\ provider[p] = "pending" /\ payment[p] \in {"PENDING"} \union Final
      /\ \A h \in Requests : job[h].kind = "create" => job[h].pay # p
      /\ UNCHANGED <<rows, rowOrder, rowPayment, job, faults>>
  BY DEF Charge, PaymentInv, RowsFit, RowTypes, PaymentStatus, Final
<1>3. /\ provider'[p] = o /\ \A q \in Payments : q # p => provider'[q] = provider[q]
      /\ provider' \in [Payments -> {"none", "pending", "success", "short", "failed"}]
  BY <1>1 DEF PaymentInv, RowsFit, RowTypes
<1>4. \A q \in Payments : Captured(q) => Captured(q)'
  BY <1>2, <1>3 DEF Captured
<1>5. \A q \in Payments : HasOutcome(q) => HasOutcome(q)'
  BY <1>2, <1>3 DEF HasOutcome
<1>6. RowsFit'
  BY <1>2, <1>3, <1>4, <1>5 DEF PaymentInv, RowsFit, RowTypes, PaidIsCaptured,
     ProcessedIsRecorded, HasOutcome, rows
<1>7. ASSUME NEW g \in Handlers PROVE JobFits(job[g])'
  <2>1. job[g] \in Jobs /\ JobFits(job[g]) /\ job'[g] = job[g]
    BY <1>2 DEF PaymentInv, JobsFit
  <2>2. SomeCaptured => SomeCaptured'
    BY <1>4 DEF SomeCaptured
  <2>3. NamesPayment(job[g])' /\ StepFits(job[g])' /\ VerifyFits(job[g])'
    BY <2>1 DEF JobFits, NamesPayment, StepFits, VerifyFits
  <2>4. Backed(job[g])'
    BY <1>4, <2>1, <2>2 DEF JobFits, Backed
  <2>5. CreateFits(job[g])'
    BY <1>2, <1>3, <2>1 DEF JobFits, CreateFits, NamesPayment, rows
  <2>6. WebhookFits(job[g])'
    BY <1>2, <1>5, <2>1 DEF JobFits, WebhookFits, NamesPayment, Transactional, rows
  <2>7. QED BY <2>3, <2>4, <2>5, <2>6 DEF JobFits
<1>8. JobsFit'
  BY <1>2, <1>3, <1>7 DEF PaymentInv, JobsFit, HasOutcome, JobFits, NamesPayment, Transactional
<1>9. QED BY <1>6, <1>8 DEF PaymentInv

\* The settlement side writes the order, the reservation and its own row only.
LEMMA SettlementStep ==
    ASSUME PaymentInv, SubmitSettlement \/ EndSettlement
    PROVE  PaymentInv'
<1>1. UNCHANGED <<wallet, payment, event, provider, rowOrder, rowPayment, job, faults>>
  BY DEF SubmitSettlement, EndSettlement
<1>2. SomeCaptured
  BY DEF SubmitSettlement, EndSettlement, PaymentInv, RowsFit, PaidIsCaptured, SomeCaptured
<1>3. /\ order' \in OrderStatus
      /\ reservation' \in {"RESERVED", "CONFIRMED", "CONSUMED", "EXPIRED_RELEASED",
                            "CANCELLED_RELEASED"}
      /\ settlement' \in {"NONE", "PENDING", "SUBMITTED", "COMPLETED", "FAILED"}
  BY DEF SubmitSettlement, EndSettlement, Release, PaymentInv, RowsFit, RowTypes, OrderStatus
<1>4. RowsFit'
  BY <1>1, <1>2, <1>3 DEF PaymentInv, RowsFit, RowTypes, PaidIsCaptured, ProcessedIsRecorded,
     HasOutcome, Captured, SomeCaptured
<1>5. JobsFit'
  <2>1. Grows /\ \A g \in Handlers : job[g].step = "provider" => provider'[job[g].pay] = "none"
    BY <1>1, SameGrows
  <2>2. \A g \in Handlers : JobFits(job[g])'
    BY <1>1, <1>4, <2>1, JobStays DEF RowsFit
  <2>3. QED BY <1>1, <2>2 DEF PaymentInv, JobsFit, HasOutcome
<1>6. QED BY <1>4, <1>5 DEF PaymentInv

-----------------------------------------------------------------------------

\* The inductive invariant: rows, charges and what each job is about to write
\* tell the same story.
THEOREM PaymentInvariant == Spec => []PaymentInv
<1>1. Init => PaymentInv
  <2> SUFFICES ASSUME Init PROVE PaymentInv
    OBVIOUS
  <2>1. RowsFit
    BY FaultAssumption DEF Init, RowsFit, RowTypes, PaidIsCaptured, ProcessedIsRecorded,
       HasOutcome, Captured, OrderStatus
  <2>2. \A h \in Handlers : job[h] = Idle
    BY DEF Init
  <2>3. job \in [Handlers -> Jobs]
    BY IdleFits DEF Init
  <2>4. JobsFit
    BY <2>2, <2>3, IdleFits DEF JobsFit
  <2>5. QED BY <2>1, <2>4 DEF PaymentInv
<1>2. PaymentInv /\ [Next]_vars => PaymentInv'
  <2> SUFFICES ASSUME PaymentInv, [Next]_vars PROVE PaymentInv'
    OBVIOUS
  <2>1. ASSUME NEW h \in Requests, Request(h) PROVE PaymentInv'
    BY <2>1, createPaymentStep, verifyPaymentStep, processWebhookStep, updateOrderWalletStep
       DEF Request
  <2>2. CASE Sweep
    BY <2>2, SweepStep
  <2>3. ASSUME NEW h \in Handlers, Continue(h) PROVE PaymentInv'
    BY <2>3, InitialiseChargeStep, ProviderRefusesStep, LookUpPaymentStep, UpdatePaymentStep,
       UpdateReservationStep, ReadOrderStep, WriteOrderStep, MarkProcessedStep, LockOrderStep,
       QueryProviderStep, RecordOutcomeStep DEF Continue
  <2>4. ASSUME NEW h \in Handlers, Fault(h) PROVE PaymentInv'
    <3>1. faults' \in 0..MaxFaults
      BY <2>4, FaultAssumption DEF Fault, PaymentInv, RowsFit, RowTypes
    <3>2. QED BY <2>4, <3>1, AbortStep DEF Fault
  <2>5. ASSUME NEW h \in Requests, BreakDeadlock(h) PROVE PaymentInv'
    <3>1. faults' \in 0..MaxFaults
      BY <2>5, LockTypes DEF BreakDeadlock
    <3>2. QED BY <2>5, <3>1, AbortStep DEF BreakDeadlock
  <2>6. ASSUME NEW p \in Payments, Charge(p) PROVE PaymentInv'
    BY <2>6, ChargeStep
  <2>7. CASE SubmitSettlement \/ EndSettlement
    BY <2>7, SettlementStep
  <2>8. CASE UNCHANGED vars
    <3>1. UNCHANGED <<rows, payment, provider, rowOrder, rowPayment, job, faults>>
      BY <2>8 DEF vars, rows
    <3>2. RowsFit'
      BY <3>1, LockTypes, SameRows DEF PaymentInv
    <3>3. Grows /\ \A g \in Handlers : job[g].step = "provider" => provider'[job[g].pay] = "none"
      BY <3>1, SameGrows
    <3>4. \A g \in Handlers : JobFits(job[g])'
      BY <3>1, <3>2, <3>3, JobStays DEF RowsFit
    <3>5. QED BY <3>1, <3>2, <3>4 DEF PaymentInv, JobsFit, HasOutcome
  <2>9. QED
    BY <2>1, <2>2, <2>3, <2>4, <2>5, <2>6, <2>7, <2>8 DEF Next
<1>3. QED
  BY <1>1, <1>2, PTL DEF Spec

\* The rows and the jobs keep their types.
THEOREM TypeCorrect == Spec => []TypeOK
<1>1. PaymentInv => TypeOK
  BY DEF PaymentInv, RowsFit, RowTypes, JobsFit, TypeOK
<1>2. QED BY <1>1, PaymentInvariant, PTL

\* Nothing counts as paid unless the provider holds the customer's money,
\* however many payments, requests, webhooks and interruptions there are
\* (payments.service.ts:254, webhooks.service.ts:121, reconciliation.daemon.ts:484).
THEOREM PaidMeansCaptured == Spec => []PaidIsCaptured
<1>1. PaymentInv => PaidIsCaptured
  BY DEF PaymentInv, RowsFit
<1>2. QED BY <1>1, PaymentInvariant, PTL

\* No webhook event is marked processed before the payment has its outcome
\* (webhooks.service.ts:174).
THEOREM ProcessedMeansRecorded == Spec => []ProcessedIsRecorded
<1>1. PaymentInv => ProcessedIsRecorded
  BY DEF PaymentInv, RowsFit
<1>2. QED BY <1>1, PaymentInvariant, PTL

-----------------------------------------------------------------------------
(* A recorded success is taken back by the reconciliation only.            *)

Committing == {"reservation", "readOrder", "writeOrder"}

\* From its update to its commit a transaction holds the row of its payment,
\* and a webhook brings nothing else to a payment that has succeeded.
Holds(h, j) ==
    j.kind \in Transactional /\ j.step \in Committing =>
        /\ rowPayment[j.pay] = h
        /\ j.kind = "webhook" /\ payment[j.pay] = "SUCCEEDED" => j.goal = "SUCCEEDED"

\* A webhook that read a success brings one.
Saw(j) ==
    j.kind = "webhook" /\ j.step = "update" /\ j.seen = "SUCCEEDED" => j.goal = "SUCCEEDED"

CarryInv == \A h \in Handlers : Holds(h, job[h]) /\ Saw(job[h])

\* What SuccessIsKept asks of one step.
KeepsSuccess ==
    \A p \in Payments :
        payment[p] = "SUCCEEDED" /\ payment'[p] # "SUCCEEDED" =>
            \E h \in Handlers : /\ job[h].kind = "reconcile" /\ At(h, "record")
                               /\ job[h].pay = p /\ job[h].goal = "FAILED"

\* Jobs that carry nothing over a row lock.
Light(j) == j.kind \notin Transactional \/ j.step \in {"provider", "lookup", "processed"}

\* A light job promises nothing about row locks.
LEMMA LightCarries ==
    ASSUME NEW j, Light(j), NEW h
    PROVE  Holds(h, j)' /\ Saw(j)'
BY DEF Light, Holds, Saw, Committing, Transactional

\* The other jobs keep their rows while job h moves on to j.
LEMMA OthersCarry ==
    ASSUME PaymentInv, CarryInv, NEW h \in Handlers, NEW j, Becomes(h, j),
           Holds(h, j)', Saw(j)',
           \A p \in Payments : rowPayment[p] \notin {h, Nobody} =>
               rowPayment'[p] = rowPayment[p] /\ payment'[p] = payment[p]
    PROVE  CarryInv'
<1>1. job'[h] = j /\ \A g \in Handlers : g # h => job'[g] = job[g]
  BY DEF Becomes, PaymentInv, JobsFit
<1>2. ASSUME NEW g \in Handlers, g # h PROVE Holds(g, job[g])' /\ Saw(job[g])'
  <2>1. job'[g] = job[g] /\ Holds(g, job[g]) /\ Saw(job[g])
    BY <1>1, <1>2 DEF CarryInv
  <2>2. job[g].kind \in Transactional => job[g].pay \in Payments
    BY DEF PaymentInv, JobsFit, JobFits, NamesPayment
  <2>3. Saw(job[g])'
    BY <2>1 DEF Saw
  <2>4. Holds(g, job[g])'
    BY <1>2, <2>1, <2>2, NullAssumption DEF Holds
  <2>5. QED BY <2>3, <2>4
<1>3. QED
  BY <1>1, <1>2 DEF CarryInv

\* Unlocking takes no row from another job.
LEMMA UnlockOwn ==
    ASSUME NEW h \in Handlers, Unlock(h)
    PROVE  \A p \in Payments : rowPayment[p] # h => rowPayment'[p] = rowPayment[p]
BY DEF Unlock

\* No job creates a payment that has succeeded.
LEMMA NotCreated ==
    ASSUME PaymentInv, NEW h \in Handlers, job[h].kind = "create"
    PROVE  job[h].pay \in Payments /\ payment[job[h].pay] # "SUCCEEDED"
<1>1. job[h].pay \in Payments /\ ~HasOutcome(job[h].pay)
  BY DEF PaymentInv, JobsFit, JobFits, NamesPayment, Transactional
<1>2. QED
  BY <1>1 DEF PaymentInv, RowsFit, PaidIsCaptured, Captured, HasOutcome

\* A request that starts holds no row.
LEMMA RequestCarries ==
    ASSUME PaymentInv, CarryInv, NEW h \in Requests, Request(h)
    PROVE  CarryInv' /\ KeepsSuccess
<1>1. UNCHANGED rowPayment
  BY DEF Request, createPayment, verifyPayment, processWebhook, updateOrderWallet
<1>2. ASSUME NEW p \in Payments, createPayment(h, p) PROVE CarryInv' /\ KeepsSuccess
  <2>1. /\ payment[p] = "NONE"
        /\ \A q \in Payments : q # p => payment'[q] = payment[q]
    BY <1>2 DEF createPayment, PaymentInv, RowsFit, RowTypes
  <2>2. PICK j : /\ j = [Idle EXCEPT !.kind = "create", !.step = "provider", !.pay = p]
                 /\ Becomes(h, j)
    BY <1>2 DEF createPayment, Start
  <2>3. Light(j)
    BY <2>2 DEF Light, Idle
  <2>4. ASSUME NEW g \in Handlers, g # h PROVE Holds(g, job[g])' /\ Saw(job[g])'
    <3>1. job'[g] = job[g] /\ Holds(g, job[g]) /\ Saw(job[g])
      BY <2>2, <2>4 DEF CarryInv, Becomes, PaymentInv, JobsFit
    <3>2. job[g].kind \in Transactional => job[g].pay \in Payments
      BY DEF PaymentInv, JobsFit, JobFits, NamesPayment
    <3>3. job[g].kind = "webhook" => job[g].pay # p
      BY <2>1, <3>2 DEF PaymentInv, RowsFit, JobsFit, JobFits, WebhookFits, HasOutcome,
         Transactional
    <3>4. QED
      BY <1>1, <2>1, <3>1, <3>2, <3>3 DEF Holds, Saw
  <2>5. job'[h] = j
    BY <2>2 DEF Becomes, PaymentInv, JobsFit
  <2>6. CarryInv'
    BY <2>3, <2>4, <2>5, LightCarries DEF CarryInv
  <2>7. QED BY <2>1, <2>6 DEF KeepsSuccess
<1>3. ASSUME UNCHANGED payment, NEW j, Becomes(h, j), Light(j) PROVE CarryInv' /\ KeepsSuccess
  <2>1. Holds(h, j)' /\ Saw(j)'
    BY <1>3, LightCarries
  <2>2. CarryInv'
    BY <1>1, <1>3, <2>1, OthersCarry
  <2>3. QED BY <1>3, <2>2 DEF KeepsSuccess
<1>4. ASSUME NEW p \in Payments, verifyPayment(h, p) PROVE CarryInv' /\ KeepsSuccess
  <2>1. PICK j : j.kind = "verify" /\ Becomes(h, j)
    BY <1>4 DEF verifyPayment
  <2>2. QED
    BY <1>3, <1>4, <2>1 DEF Light, Transactional, verifyPayment, rows
<1>5. ASSUME NEW p \in Payments, processWebhook(h, p) PROVE CarryInv' /\ KeepsSuccess
  <2>1. PICK j : /\ j = [Idle EXCEPT !.kind = "webhook", !.step = "lookup", !.pay = p]
                 /\ Becomes(h, j)
    BY <1>5 DEF processWebhook, Start
  <2>2. QED
    BY <1>3, <1>5, <2>1 DEF Light, Idle, processWebhook
<1>6. ASSUME updateOrderWallet(h) PROVE CarryInv' /\ KeepsSuccess
  <2>1. PICK next : Becomes(h, [Idle EXCEPT !.kind = "wallet", !.step = "writeOrder",
                                            !.next = next])
    BY <1>6 DEF updateOrderWallet
  <2>2. PICK j : j = [Idle EXCEPT !.kind = "wallet", !.step = "writeOrder", !.next = next]
    OBVIOUS
  <2>3. QED
    BY <1>3, <1>6, <2>1, <2>2 DEF Light, Idle, Transactional, updateOrderWallet, rows
<1>7. QED
  BY <1>2, <1>4, <1>5, <1>6 DEF Request

\* A job that goes idle or on to mark its event leaves its rows.
LEMMA LeavesRows ==
    ASSUME PaymentInv, CarryInv, NEW h \in Handlers, NEW j, Becomes(h, j), Light(j),
           UNCHANGED payment,
           \A p \in Payments : rowPayment[p] \notin {h, Nobody} => rowPayment'[p] = rowPayment[p]
    PROVE  CarryInv' /\ KeepsSuccess
<1>1. Holds(h, j)' /\ Saw(j)'
  BY LightCarries
<1>2. CarryInv'
  BY <1>1, OthersCarry
<1>3. QED BY <1>2 DEF KeepsSuccess

\* The idle job and the job that marks its event are light.
LEMMA IdleLight ==
    ASSUME NEW p
    PROVE  /\ Light(Idle)
           /\ Light([Idle EXCEPT !.kind = "webhook", !.step = "processed", !.pay = p])
BY DEF Light, Idle, Transactional

\* createPayment goes to the provider and back without a row; a refusal ends a
\* payment that has no charge.
LEMMA CreateCarries ==
    ASSUME PaymentInv, CarryInv, NEW h \in Handlers, InitialiseCharge(h) \/ ProviderRefuses(h)
    PROVE  CarryInv' /\ KeepsSuccess
<1>1. /\ job[h] \in Jobs /\ job[h].kind = "create"
      /\ UNCHANGED rowPayment
  BY DEF InitialiseCharge, ProviderRefuses, At, PaymentInv, JobsFit, JobFits, CreateFits
<1>2. PICK p \in Payments : p = job[h].pay /\ payment[p] # "SUCCEEDED"
  BY <1>1, NotCreated
<1>3. CASE InitialiseCharge(h)
  <2>1. PICK j : /\ j = [job[h] EXCEPT !.step = "update", !.goal = "PENDING",
                                       !.next = "AWAITING_PAYMENT"]
                 /\ Becomes(h, j)
    BY <1>3 DEF InitialiseCharge
  <2>2. j.kind = "create" /\ j.step = "update"
    BY <1>1, <2>1 DEF Jobs
  <2>3. Holds(h, j)' /\ Saw(j)'
    BY <2>2 DEF Holds, Saw, Committing
  <2>4. UNCHANGED payment
    BY <1>3 DEF InitialiseCharge, rows
  <2>5. CarryInv'
    BY <1>1, <2>1, <2>3, <2>4, OthersCarry
  <2>6. QED BY <2>4, <2>5 DEF KeepsSuccess
<1>4. CASE ProviderRefuses(h)
  <2>1. /\ rowPayment[p] = Nobody /\ payment' = [payment EXCEPT ![p] = "FAILED"]
        /\ Becomes(h, Idle)
    BY <1>2, <1>4 DEF ProviderRefuses
  <2>2. \A q \in Payments : q # p => payment'[q] = payment[q]
    BY <2>1 DEF PaymentInv, RowsFit, RowTypes
  <2>3. Holds(h, Idle)' /\ Saw(Idle)'
    BY IdleLight, LightCarries
  <2>4. CarryInv'
    BY <1>1, <2>1, <2>2, <2>3, OthersCarry
  <2>5. QED BY <1>2, <2>2, <2>4 DEF KeepsSuccess
<1>5. QED BY <1>3, <1>4

\* The webhook brings nothing but a success to a payment that has succeeded.
LEMMA LookUpPaymentCarries ==
    ASSUME PaymentInv, CarryInv, NEW h \in Handlers, LookUpPayment(h)
    PROVE  CarryInv' /\ KeepsSuccess
<1>1. PICK p \in Payments : p = job[h].pay
  BY DEF LookUpPayment, At, PaymentInv, JobsFit, JobFits, NamesPayment
<1>2. /\ job[h] \in Jobs /\ UNCHANGED <<payment, rowPayment>>
  BY DEF LookUpPayment, rows, PaymentInv, JobsFit
<1>3. CASE canTransition(payment[p], Reported(p))
  <2>1. PICK j : /\ j = [job[h] EXCEPT !.step = "update", !.seen = payment[p],
                                       !.goal = Reported(p)]
                 /\ Becomes(h, j)
    BY <1>1, <1>3 DEF LookUpPayment
  <2>2. j.step = "update" /\ j.seen = payment[p] /\ j.goal = Reported(p)
    BY <1>2, <2>1 DEF Jobs
  <2>3. payment[p] = "SUCCEEDED" => Reported(p) = "SUCCEEDED"
    BY <1>3, FinalStays DEF Final
  <2>4. Holds(h, j)' /\ Saw(j)'
    BY <2>2, <2>3 DEF Holds, Saw, Committing
  <2>5. CarryInv'
    BY <1>2, <2>1, <2>4, OthersCarry
  <2>6. QED BY <1>2, <2>5 DEF KeepsSuccess
<1>4. CASE ~canTransition(payment[p], Reported(p))
  BY <1>1, <1>2, <1>4, IdleLight, LeavesRows DEF LookUpPayment, GoMark
<1>5. QED BY <1>3, <1>4

\* verifyPayment writes over the status it read only; the transactions take the
\* row and wait.
LEMMA UpdatePaymentCarries ==
    ASSUME PaymentInv, CarryInv, NEW h \in Handlers, UpdatePayment(h)
    PROVE  CarryInv' /\ KeepsSuccess
<1>1. PICK p \in Payments : p = job[h].pay
  BY DEF UpdatePayment, At, PaymentInv, JobsFit, JobFits, NamesPayment
<1>2. /\ job[h] \in Jobs /\ JobFits(job[h]) /\ Saw(job[h]) /\ job[h].step = "update"
      /\ rowPayment[p] = Nobody
  BY <1>1 DEF UpdatePayment, At, PaymentInv, JobsFit, CarryInv
<1>3. ASSUME NEW step \in Committing, rowPayment' = [rowPayment EXCEPT ![p] = h], Go(h, step),
             UNCHANGED payment, job[h].kind = "webhook" => payment[p] = job[h].seen
      PROVE  CarryInv' /\ KeepsSuccess
  <2>1. PICK j : /\ j = [job[h] EXCEPT !.step = step, !.seen = "NONE"]
                 /\ Becomes(h, j)
    BY <1>3 DEF Go
  <2>2. /\ j.kind = job[h].kind /\ j.pay = p /\ j.goal = job[h].goal /\ j.step # "update"
    BY <1>1, <1>2, <2>1 DEF Jobs, Committing
  <2>3. rowPayment'[p] = h /\ \A q \in Payments : q # p => rowPayment'[q] = rowPayment[q]
    BY <1>3 DEF PaymentInv, RowsFit, RowTypes
  <2>4. Holds(h, j)' /\ Saw(j)'
    BY <1>2, <1>3, <2>2, <2>3 DEF Holds, Saw
  <2>5. CarryInv'
    BY <1>2, <1>3, <2>1, <2>3, <2>4, OthersCarry
  <2>6. QED BY <1>3, <2>5 DEF KeepsSuccess
<1>4. ASSUME GoMark(h), UNCHANGED <<payment, rowPayment>> PROVE CarryInv' /\ KeepsSuccess
  BY <1>4, IdleLight, LeavesRows DEF GoMark
<1>5. ASSUME job[h].kind = "verify", payment[p] = job[h].seen, UNCHANGED rowPayment,
             payment' = [payment EXCEPT ![p] = job[h].goal],
             Becomes(h, IF job[h].goal = "PENDING" THEN Idle
                        ELSE [Idle EXCEPT !.kind = "verify", !.step = "reservation",
                                          !.goal = job[h].goal])
      PROVE  CarryInv' /\ KeepsSuccess
  <2>1. payment[p] = "SUCCEEDED" => job[h].goal = "SUCCEEDED"
    BY <1>2, <1>5 DEF JobFits, VerifyFits, Final
  <2>2. payment'[p] = job[h].goal /\ \A q \in Payments : q # p => payment'[q] = payment[q]
    BY <1>5 DEF PaymentInv, RowsFit, RowTypes
  <2>3. PICK j : /\ j = IF job[h].goal = "PENDING" THEN Idle
                        ELSE [Idle EXCEPT !.kind = "verify", !.step = "reservation",
                                          !.goal = job[h].goal]
                 /\ Becomes(h, j)
    BY <1>5
  <2>4. Light(j)
    BY <2>3 DEF Light, Idle, Transactional
  <2>5. Holds(h, j)' /\ Saw(j)'
    BY <2>4, LightCarries
  <2>6. CarryInv'
    BY <1>2, <1>5, <2>2, <2>3, <2>5, OthersCarry
  <2>7. QED BY <2>1, <2>2, <2>6 DEF KeepsSuccess
<1>6. ASSUME Becomes(h, Idle), UNCHANGED <<payment, rowPayment>> PROVE CarryInv' /\ KeepsSuccess
  BY <1>6, IdleLight, LeavesRows
<1>7. QED
  BY <1>1, <1>3, <1>4, <1>5, <1>6 DEF UpdatePayment, Committing

\* Between its update and its commit a transaction keeps its row.
LEMMA MovesOnCarries ==
    ASSUME PaymentInv, CarryInv, NEW h \in Handlers, UpdateReservation(h) \/ ReadOrder(h)
    PROVE  CarryInv' /\ KeepsSuccess
<1>1. /\ UNCHANGED <<payment, rowPayment>> /\ job[h] \in Jobs /\ Holds(h, job[h])
      /\ job[h].step \in Committing
  BY DEF UpdateReservation, ReadOrder, At, rows, PaymentInv, JobsFit, CarryInv, Committing
<1>2. CASE Becomes(h, Idle)
  BY <1>1, <1>2, IdleLight, LeavesRows
<1>3. ASSUME NEW j, Becomes(h, j), j.kind = job[h].kind, j.pay = job[h].pay,
             j.goal = job[h].goal, j.step \in Committing
      PROVE  CarryInv' /\ KeepsSuccess
  <2>1. Holds(h, j)' /\ Saw(j)'
    BY <1>1, <1>3 DEF Holds, Saw, Committing
  <2>2. CarryInv'
    BY <1>1, <1>3, <2>1, OthersCarry
  <2>3. QED BY <1>1, <2>2 DEF KeepsSuccess
<1>4. CASE UpdateReservation(h)
  <2>1. PICK j : /\ j = [job[h] EXCEPT !.step = "readOrder", !.seen = "NONE"]
                 /\ Becomes(h, j)
    BY <1>4 DEF UpdateReservation, Go
  <2>2. j.kind = job[h].kind /\ j.pay = job[h].pay /\ j.goal = job[h].goal
        /\ j.step = "readOrder"
    BY <1>1, <2>1 DEF Jobs
  <2>3. QED BY <1>3, <2>1, <2>2 DEF Committing
<1>5. CASE ReadOrder(h)
  <2>1. CASE \E next : Becomes(h, [job[h] EXCEPT !.step = "writeOrder", !.next = next])
    <3>1. PICK next, j : /\ j = [job[h] EXCEPT !.step = "writeOrder", !.next = next]
                         /\ Becomes(h, j)
      BY <2>1
    <3>2. j.kind = job[h].kind /\ j.pay = job[h].pay /\ j.goal = job[h].goal
          /\ j.step = "writeOrder"
      BY <1>1, <3>1 DEF Jobs
    <3>3. QED BY <1>3, <3>1, <3>2 DEF Committing
  <2>2. QED
    BY <1>2, <1>5, <2>1 DEF ReadOrder
<1>6. QED BY <1>4, <1>5

\* The commit writes the payment whose row the transaction holds.
LEMMA WriteOrderCarries ==
    ASSUME PaymentInv, CarryInv, NEW h \in Handlers, WriteOrder(h)
    PROVE  CarryInv' /\ KeepsSuccess
<1>1. /\ job[h] \in Jobs /\ JobFits(job[h]) /\ job[h].step = "writeOrder"
      /\ Holds(h, job[h]) /\ Unlock(h)
  BY DEF WriteOrder, At, PaymentInv, JobsFit, CarryInv
<1>2. PICK j : /\ j = IF job[h].kind = "webhook"
                      THEN [Idle EXCEPT !.kind = "webhook", !.step = "processed",
                                        !.pay = job[h].pay]
                      ELSE Idle
               /\ Becomes(h, j)
  BY DEF WriteOrder, GoMark
<1>3. Light(j)
  BY <1>2, IdleLight
<1>4. \A p \in Payments : rowPayment[p] # h => rowPayment'[p] = rowPayment[p]
  BY <1>1, UnlockOwn
<1>5. CASE job[h].kind \notin Transactional
  <2>1. UNCHANGED payment
    BY <1>5 DEF WriteOrder
  <2>2. QED
    BY <1>2, <1>3, <1>4, <2>1, LeavesRows
<1>6. CASE job[h].kind \in Transactional
  <2>1. PICK p \in Payments : p = job[h].pay
    BY <1>1, <1>6 DEF JobFits, NamesPayment
  <2>2. /\ rowPayment[p] = h
        /\ job[h].kind = "webhook" /\ payment[p] = "SUCCEEDED" => job[h].goal = "SUCCEEDED"
    BY <1>1, <1>6, <2>1 DEF Holds, Committing
  <2>3. payment'[p] = job[h].goal /\ \A q \in Payments : q # p => payment'[q] = payment[q]
    BY <1>6, <2>1 DEF WriteOrder, PaymentInv, RowsFit, RowTypes
  <2>4. job[h].kind = "create" => payment[p] # "SUCCEEDED"
    BY <2>1, NotCreated
  <2>5. Holds(h, j)' /\ Saw(j)'
    BY <1>3, LightCarries
  <2>6. CarryInv'
    BY <1>2, <1>4, <2>2, <2>3, <2>5, OthersCarry
  <2>7. QED
    BY <1>6, <2>2, <2>3, <2>4, <2>6 DEF KeepsSuccess, Transactional
<1>7. QED BY <1>5, <1>6

\* Reconciliation writes a payment whose row is free, and is the one that may
\* take a success back.
LEMMA ReconcileCarries ==
    ASSUME PaymentInv, CarryInv, NEW h \in Handlers,
           LockOrder(h) \/ QueryProvider(h) \/ RecordOutcome(h)
    PROVE  CarryInv' /\ KeepsSuccess
<1>1. job[h] \in Jobs /\ JobFits(job[h]) /\ job[h].kind = "reconcile"
  BY DEF LockOrder, QueryProvider, RecordOutcome, At, PaymentInv, JobsFit, JobFits, StepFits
<1>2. CASE LockOrder(h) \/ QueryProvider(h)
  <2>1. UNCHANGED <<payment, rowPayment>>
    BY <1>2 DEF LockOrder, QueryProvider, rows
  <2>2. ASSUME NEW j, Becomes(h, j), j.kind \in {"idle", "reconcile"}
        PROVE  CarryInv' /\ KeepsSuccess
    <3>1. Light(j)
      BY <2>2 DEF Light, Transactional
    <3>2. QED
      BY <2>1, <2>2, <3>1, LeavesRows
  <2>3. CASE Becomes(h, Idle)
    BY <2>2, <2>3 DEF Idle
  <2>4. ASSUME NEW p, Becomes(h, [job[h] EXCEPT !.step = "query", !.pay = p])
        PROVE  CarryInv' /\ KeepsSuccess
    <3>1. PICK j : j = [job[h] EXCEPT !.step = "query", !.pay = p]
      OBVIOUS
    <3>2. j.kind = "reconcile" /\ Becomes(h, j)
      BY <1>1, <2>4, <3>1 DEF Jobs
    <3>3. QED BY <2>2, <3>2
  <2>5. ASSUME NEW r, Becomes(h, [job[h] EXCEPT !.step = "record", !.goal = r])
        PROVE  CarryInv' /\ KeepsSuccess
    <3>1. PICK j : j = [job[h] EXCEPT !.step = "record", !.goal = r]
      OBVIOUS
    <3>2. j.kind = "reconcile" /\ Becomes(h, j)
      BY <1>1, <2>5, <3>1 DEF Jobs
    <3>3. QED BY <2>2, <3>2
  <2>6. CASE LockOrder(h)
    BY <2>3, <2>4, <2>6 DEF LockOrder
  <2>7. CASE QueryProvider(h)
    BY <2>3, <2>5, <2>7 DEF QueryProvider
  <2>8. QED BY <1>2, <2>6, <2>7
<1>3. CASE RecordOutcome(h)
  <2>1. PICK p \in Payments : p = job[h].pay
    BY <1>1, <1>3 DEF RecordOutcome, At, JobFits, NamesPayment
  <2>2. /\ job[h].step = "record" /\ job[h].goal \in Final /\ rowPayment[p] = Nobody
        /\ payment' = [payment EXCEPT ![p] = job[h].goal]
        /\ Becomes(h, Idle) /\ Unlock(h)
    BY <1>1, <1>3, <2>1 DEF RecordOutcome, At, JobFits, StepFits
  <2>3. payment'[p] = job[h].goal /\ \A q \in Payments : q # p => payment'[q] = payment[q]
    BY <2>2 DEF PaymentInv, RowsFit, RowTypes
  <2>4. \A q \in Payments : rowPayment[q] # h => rowPayment'[q] = rowPayment[q]
    BY <2>2, UnlockOwn
  <2>5. Holds(h, Idle)' /\ Saw(Idle)'
    BY IdleLight, LightCarries
  <2>6. CarryInv'
    BY <2>2, <2>3, <2>4, <2>5, OthersCarry
  <2>7. QED
    BY <1>1, <2>1, <2>2, <2>3, <2>6 DEF KeepsSuccess, Final, At
<1>4. QED BY <1>2, <1>3

\* A recorded success is final against stale verifications, late webhooks and
\* createPayment (payments.service.ts:223, webhooks.service.ts:106), for any
\* number of payments and requests and whatever amounts the callers name; only a
\* reconciliation that was told of a failure takes it back.
THEOREM SuccessesAreKept == Spec => SuccessIsKept
<1>1. Init => CarryInv
  <2>1. Init => \A h \in Handlers : job[h] = Idle
    BY DEF Init
  <2>2. QED
    BY <2>1 DEF CarryInv, Holds, Saw, Idle, Transactional
<1>2. PaymentInv /\ CarryInv /\ [Next]_vars => CarryInv' /\ KeepsSuccess
  <2> SUFFICES ASSUME PaymentInv, CarryInv, [Next]_vars PROVE CarryInv' /\ KeepsSuccess
    OBVIOUS
  <2>1. ASSUME NEW h \in Requests, Request(h) PROVE CarryInv' /\ KeepsSuccess
    BY <2>1, RequestCarries
  <2>2. CASE Sweep
    <3>1. PICK j : /\ \E kind \in {"cleanup", "reconcile"}, step \in Steps :
                         j = [Idle EXCEPT !.kind = kind, !.step = step, !.pay = NoPayment]
                   /\ Becomes(Worker, j)
      BY <2>2 DEF Sweep, processSingleReservation, processPaymentReconciliation, Start, Steps
    <3>2. UNCHANGED <<payment, rowPayment>>
      BY <2>2 DEF Sweep, processSingleReservation, processPaymentReconciliation, rows
    <3>3. Light(j)
      BY <3>1 DEF Light, Idle, Transactional
    <3>4. QED
      BY <3>1, <3>2, <3>3, LeavesRows
  <2>3. ASSUME NEW h \in Handlers, Continue(h) PROVE CarryInv' /\ KeepsSuccess
    <3>1. CASE MarkProcessed(h)
      BY <3>1, IdleLight, LeavesRows DEF MarkProcessed
    <3>2. QED
      BY <2>3, <3>1, CreateCarries, LookUpPaymentCarries, UpdatePaymentCarries,
         MovesOnCarries, WriteOrderCarries, ReconcileCarries DEF Continue
  <2>4. ASSUME NEW h \in Handlers, Abort(h) PROVE CarryInv' /\ KeepsSuccess
    <3>1. \A p \in Payments : rowPayment[p] # h => rowPayment'[p] = rowPayment[p]
      BY <2>4, UnlockOwn DEF Abort
    <3>2. QED
      BY <2>4, <3>1, IdleLight, LeavesRows DEF Abort, rows
  <2>5. CASE UNCHANGED <<payment, rowPayment, job>>
    BY <2>5 DEF CarryInv, Holds, Saw, KeepsSuccess
  <2>6. (SubmitSettlement \/ EndSettlement \/ (\E p \in Payments : Charge(p)) \/ UNCHANGED vars)
            => UNCHANGED <<payment, rowPayment, job>>
    BY DEF SubmitSettlement, EndSettlement, Charge, vars, rows
  <2>7. QED
    BY <2>1, <2>2, <2>3, <2>4, <2>5, <2>6 DEF Next, Fault, BreakDeadlock
<1>3. QED
  BY <1>1, <1>2, PaymentInvariant, PTL DEF Spec, SuccessIsKept, KeepsSuccess
=============================================================================

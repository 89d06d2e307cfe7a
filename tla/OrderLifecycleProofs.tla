------------------------ MODULE OrderLifecycleProofs ------------------------
(***************************************************************************)
(* For every set of orders, every bound on the attempts of an invoice job *)
(* and every environment: the safety properties of OrderLifecycle.  Each  *)
(* is a consequence of the inductive invariant IInv.                      *)
(***************************************************************************)
EXTENDS OrderLifecycle, TLAPS

\* A row becomes visible only with the commit of its request.
NoRowBeforeCommit ==
    \A o \in Orders : req[o] # "committed" => status[o] = "NONE"

\* What makes the expiration job outlive the transaction that enqueued it.
ExpirationEnqueued ==
    SlowRequests \/ \A o \in Orders :
        req[o] \in {"expiring", "invoicing"} => o \in expJobs

\* A handled job was taken, and no invoice goes out twice in one attempt.
AttemptsCounted ==
    \A o \in Orders :
        /\ worker[o] # "idle" => attempts[o] # 0
        /\ worker[o] \in {"allowed", "refused"} =>
            \A k \in Copies : attempts[o] =< k => pay[o][k] = "none"
        /\ \A k \in Copies : attempts[o] < k => pay[o][k] = "none"

Coherence ==
    /\ NoRowBeforeCommit
    /\ ExpirationEnqueued
    /\ AttemptsCounted
    /\ ChargedOrderExists
    /\ PaidWasCharged
    /\ NoticesFollowPayment
    /\ OpenOrderWillExpire

IInv == TypeOK /\ Coherence

-----------------------------------------------------------------------------
USE DEF Copies

\* The invariant holds at first: no order, no job, no invoice.
LEMMA InitIInv == Init => IInv
BY AttemptsAssumption, EnvironmentAssumption
   DEF Init, IInv, Coherence, TypeOK, NoRowBeforeCommit, ExpirationEnqueued,
       AttemptsCounted, ChargedOrderExists, PaidWasCharged,
       NoticesFollowPayment, OpenOrderWillExpire, Statuses, RequestSteps,
       WorkerSteps, PaySteps, Charged, Running, WasCharged

\* Type correctness is kept by every step.
LEMMA TypeStep ==
    ASSUME TypeOK, AttemptsCounted, [Next]_vars
    PROVE  TypeOK'
<1> USE AttemptsAssumption, EnvironmentAssumption
    DEF TypeOK, AttemptsCounted, Statuses, RequestSteps, WorkerSteps, PaySteps,
        Charged, Running, queueVars, adminVars, RequestGoes, WorkerGoes,
        PayGoes, SetOrderStatus, UpdateOrderStatus
<1>1. ASSUME NEW o \in Orders, RequestStep(o)
      PROVE  TypeOK'
  <2>1. CASE BeginOrder(o)
    BY <2>1 DEF BeginOrder
  <2>2. CASE AddExpiration(o)
    BY <2>2 DEF AddExpiration
  <2>3. CASE EnqueueInvoice(o)
    BY <2>3 DEF EnqueueInvoice
  <2>4. CASE CommitOrder(o)
    BY <2>4 DEF CommitOrder
  <2>5. CASE AbortOrder(o)
    BY <2>5 DEF AbortOrder
  <2> QED
    BY <1>1, <2>1, <2>2, <2>3, <2>4, <2>5 DEF RequestStep
<1>2. ASSUME NEW o \in Orders, ExpirationStep(o)
      PROVE  TypeOK'
  <2>1. CASE ExpireOrder(o)
    BY <2>1 DEF ExpireOrder
  <2>2. CASE ExpireOrderAgain(o)
    BY <2>2 DEF ExpireOrderAgain
  <2> QED
    BY <1>2, <2>1, <2>2 DEF ExpirationStep
<1>3. ASSUME NEW o \in Orders, InvoiceStep(o)
      PROVE  TypeOK'
  <2>1. CASE TakeInvoiceJob(o)
    BY <2>1 DEF TakeInvoiceJob
  <2>2. CASE SendInvoice(o)
    BY <2>2 DEF SendInvoice
  <2>3. CASE RefuseInvoice(o)
    BY <2>3 DEF RefuseInvoice
  <2>4. CASE CancelRefused(o)
    BY <2>4 DEF CancelRefused
  <2>5. CASE CompleteJob(o)
    BY <2>5 DEF CompleteJob
  <2>6. CASE RescheduleJob(o)
    BY <2>6 DEF RescheduleJob
  <2> QED
    BY <1>3, <2>1, <2>2, <2>3, <2>4, <2>5, <2>6 DEF InvoiceStep
<1>4. ASSUME NEW o \in Orders, NEW k \in Copies, PaymentStep(o, k)
      PROVE  TypeOK'
  <2>1. CASE PreCheckoutStatus(o, k)
    BY <2>1 DEF PreCheckoutStatus
  <2>2. CASE PreCheckoutGate(o, k)
    BY <2>2 DEF PreCheckoutGate
  <2>3. CASE PreCheckoutFails(o, k)
    BY <2>3 DEF PreCheckoutFails
  <2>4. CASE Charge(o, k)
    BY <2>4 DEF Charge
  <2>5. CASE MarkPaid(o, k)
    BY <2>5 DEF MarkPaid
  <2>6. CASE AnnouncePayment(o, k)
    BY <2>6 DEF AnnouncePayment
  <2>7. CASE DropPayment(o, k)
    BY <2>7 DEF DropPayment
  <2>8. CASE RedeliverPayment(o, k)
    BY <2>8 DEF RedeliverPayment
  <2> QED
    BY <1>4, <2>1, <2>2, <2>3, <2>4, <2>5, <2>6, <2>7, <2>8 DEF PaymentStep
<1>5. ASSUME NEW o \in Orders, ButtonStep(o)
      PROVE  TypeOK'
  <2>1. CASE NotifyOrderArrival(o)
    BY <2>1 DEF NotifyOrderArrival
  <2>2. CASE ConfirmReceipt(o)
    BY <2>2 DEF ConfirmReceipt
  <2>3. CASE CancelPaidOrder(o)
    BY <2>3 DEF CancelPaidOrder
  <2>4. CASE EraseItems(o)
    BY <2>4 DEF EraseItems
  <2> QED
    BY <1>5, <2>1, <2>2, <2>3, <2>4 DEF ButtonStep
<1>6. ASSUME NEW b \in BOOLEAN, SetOrderingAllowed(b) PROVE TypeOK'
  BY <1>6 DEF SetOrderingAllowed
<1>7. CASE UNCHANGED vars
  BY <1>7 DEF vars
<1> QED BY <1>1, <1>2, <1>3, <1>4, <1>5, <1>6, <1>7 DEF Next

\* What a payment step does, copy by copy: only the copy at hand changes, and a
\* charge is not forgotten unless the step takes it back.
LEMMA PayEffect ==
    ASSUME TypeOK, NEW o \in Orders, NEW k \in Copies, NEW from, NEW to,
           PayGoes(o, k, from, to)
    PROVE  /\ pay[o][k] \in from
           /\ \A p \in Orders, j \in Copies :
                pay'[p][j] = IF p = o /\ j = k THEN to ELSE pay[p][j]
           /\ to \in Charged => WasCharged(o)'
           /\ pay[o][k] \notin Charged \/ to \in Charged =>
                \A p \in Orders : WasCharged(p) => WasCharged(p)'
<1>1. /\ pay[o][k] \in from
      /\ \A p \in Orders, j \in Copies :
            pay'[p][j] = IF p = o /\ j = k THEN to ELSE pay[p][j]
  BY DEF TypeOK, PayGoes
<1>2. to \in Charged => WasCharged(o)'
  BY <1>1 DEF WasCharged
<1>3. ASSUME pay[o][k] \notin Charged \/ to \in Charged,
             NEW p \in Orders, WasCharged(p)
      PROVE  WasCharged(p)'
  <2>1. PICK j \in Copies : pay[p][j] \in Charged
    BY <1>3 DEF WasCharged
  <2>2. CASE p = o /\ j = k
    BY <1>1, <1>3, <2>1, <2>2 DEF WasCharged
  <2>3. CASE ~(p = o /\ j = k)
    BY <1>1, <2>1, <2>3 DEF WasCharged
  <2> QED BY <2>2, <2>3
<1> QED BY <1>1, <1>2, <1>3

\* A payment step that writes no status: it may not touch an invoice that was
\* not sent, nor move the invoice of a missing row, nor take back a charge.
LEMMA PayKeeps ==
    ASSUME IInv, NEW o \in Orders, NEW k \in Copies, NEW from, NEW to,
           PayGoes(o, k, from, to),
           "none" \notin from, to \notin {"none", "marked"},
           to \in {"checked", "approved"} \union Charged => status[o] # "NONE",
           pay[o][k] \in Charged => to \in Charged,
           UNCHANGED <<req, status, allowed, queueVars, adminVars>>
    PROVE  Coherence'
<1>1. /\ pay[o][k] \in from
      /\ \A p \in Orders, j \in Copies :
            pay'[p][j] = IF p = o /\ j = k THEN to ELSE pay[p][j]
      /\ \A p \in Orders : WasCharged(p) => WasCharged(p)'
  BY PayEffect DEF IInv
<1>2. NoRowBeforeCommit' /\ ExpirationEnqueued' /\ OpenOrderWillExpire'
  BY DEF IInv, Coherence, NoRowBeforeCommit, ExpirationEnqueued,
         OpenOrderWillExpire, queueVars
<1>3. AttemptsCounted'
  BY <1>1 DEF IInv, Coherence, AttemptsCounted, queueVars
<1>4. ChargedOrderExists'
  BY <1>1 DEF IInv, Coherence, ChargedOrderExists
<1>5. PaidWasCharged'
  BY <1>1 DEF IInv, Coherence, PaidWasCharged
<1>6. NoticesFollowPayment'
  BY <1>1 DEF IInv, Coherence, TypeOK, NoticesFollowPayment, adminVars
<1> QED BY <1>2, <1>3, <1>4, <1>5, <1>6 DEF Coherence

\* What the conditional update does, order by order.
LEMMA StatusEffect ==
    ASSUME TypeOK, NEW o \in Orders, NEW old, NEW new,
           SetOrderStatus(o, old, new)
    PROVE  \A p \in Orders :
            status'[p] = IF p = o /\ status[o] = old THEN new ELSE status[p]
BY DEF TypeOK, SetOrderStatus

\* Every step of a payment keeps the actors' states coherent.
LEMMA PaymentKeeps ==
    ASSUME IInv, NEW o \in Orders, NEW k \in Copies, PaymentStep(o, k)
    PROVE  Coherence'
<1>0. pay[o][k] \in {"checked", "approved"} \union Charged
          => status[o] # "NONE"
  BY DEF IInv, Coherence, ChargedOrderExists
<1>1. CASE PreCheckoutStatus(o, k)
  <2>1. /\ PayGoes(o, k, {"sent"}, "checked")
        /\ UNCHANGED <<req, status, allowed, queueVars, adminVars>>
    BY <1>1 DEF PreCheckoutStatus
  <2>2. /\ "none" \notin {"sent"}
        /\ "checked" \notin {"none", "marked"}
        /\ pay[o][k] \in Charged => "checked" \in Charged
        /\ status[o] # "NONE"
    BY <1>0, <1>1, <2>1 DEF PreCheckoutStatus, PayGoes, Charged
  <2> QED BY <2>1, <2>2, PayKeeps
<1>2. CASE PreCheckoutGate(o, k)
  <2>1. /\ PayGoes(o, k, {"checked"}, "approved")
        /\ UNCHANGED <<req, status, allowed, queueVars, adminVars>>
    BY <1>2 DEF PreCheckoutGate
  <2>2. /\ "none" \notin {"checked"}
        /\ "approved" \notin {"none", "marked"}
        /\ pay[o][k] \in Charged => "approved" \in Charged
        /\ status[o] # "NONE"
    BY <1>0, <1>2, <2>1 DEF PreCheckoutGate, PayGoes, Charged
  <2> QED BY <2>1, <2>2, PayKeeps
<1>3. CASE PreCheckoutFails(o, k)
  <2>1. /\ PayGoes(o, k, {"checked", "approved"}, "sent")
        /\ UNCHANGED <<req, status, allowed, queueVars, adminVars>>
    BY <1>3 DEF PreCheckoutFails
  <2>2. /\ "none" \notin {"checked", "approved"}
        /\ "sent" \notin {"none", "marked"}
        /\ pay[o][k] \in Charged => "sent" \in Charged
        /\ status[o] # "NONE"
    BY <1>0, <1>3, <2>1 DEF PreCheckoutFails, PayGoes, Charged
  <2> QED BY <2>1, <2>2, PayKeeps
<1>4. CASE Charge(o, k)
  <2>1. /\ PayGoes(o, k, {"approved"}, "charged")
        /\ UNCHANGED <<req, status, allowed, queueVars, adminVars>>
    BY <1>4 DEF Charge
  <2>2. /\ "none" \notin {"approved"}
        /\ "charged" \notin {"none", "marked"}
        /\ pay[o][k] \in Charged => "charged" \in Charged
        /\ status[o] # "NONE"
    BY <1>0, <1>4, <2>1 DEF Charge, PayGoes, Charged
  <2> QED BY <2>1, <2>2, PayKeeps
<1>5. CASE MarkPaid(o, k)
  <2>1. PayGoes(o, k, {"charged"}, "marked")
    BY <1>5 DEF MarkPaid
  <2>2. /\ pay[o][k] \in {"charged"}
        /\ \A p \in Orders, j \in Copies :
              pay'[p][j] = IF p = o /\ j = k THEN "marked" ELSE pay[p][j]
        /\ WasCharged(o)'
        /\ \A p \in Orders : WasCharged(p) => WasCharged(p)'
    BY <2>1, PayEffect DEF Charged, IInv
  <2>3. \A p \in Orders :
            status'[p] = IF p = o /\ status[o] = "PROCESS" THEN "PAID"
                                                           ELSE status[p]
    BY <1>5, StatusEffect DEF MarkPaid, IInv
  <2>4. NoRowBeforeCommit' /\ ExpirationEnqueued' /\ OpenOrderWillExpire'
    BY <1>5, <2>3
       DEF MarkPaid, IInv, Coherence, NoRowBeforeCommit, ExpirationEnqueued,
           OpenOrderWillExpire, queueVars
  <2>5. AttemptsCounted'
    BY <1>5, <2>2 DEF MarkPaid, IInv, Coherence, AttemptsCounted, queueVars
  <2>6. ChargedOrderExists'
    BY <1>0, <2>2, <2>3 DEF IInv, Coherence, ChargedOrderExists, Charged
  <2>7. PaidWasCharged'
    BY <2>2, <2>3 DEF IInv, Coherence, PaidWasCharged
  <2>8. NoticesFollowPayment'
    BY <1>0, <1>5, <2>2, <2>3
       DEF MarkPaid, IInv, Coherence, TypeOK, NoticesFollowPayment, Charged,
           adminVars
  <2> QED BY <2>4, <2>5, <2>6, <2>7, <2>8 DEF Coherence
<1>6. CASE AnnouncePayment(o, k)
  <2>1. PayGoes(o, k, {"marked"}, "done")
    BY <1>6 DEF AnnouncePayment
  <2>2. /\ pay[o][k] \in {"marked"}
        /\ \A p \in Orders, j \in Copies :
              pay'[p][j] = IF p = o /\ j = k THEN "done" ELSE pay[p][j]
        /\ WasCharged(o)'
        /\ \A p \in Orders : WasCharged(p) => WasCharged(p)'
    BY <2>1, PayEffect DEF Charged, IInv
  <2>3. status' = status
    BY <1>6 DEF AnnouncePayment
  <2>4. NoRowBeforeCommit' /\ ExpirationEnqueued' /\ OpenOrderWillExpire'
    BY <1>6, <2>3
       DEF AnnouncePayment, IInv, Coherence, NoRowBeforeCommit,
           ExpirationEnqueued, OpenOrderWillExpire, queueVars
  <2>5. AttemptsCounted'
    BY <1>6, <2>2
       DEF AnnouncePayment, IInv, Coherence, AttemptsCounted, queueVars
  <2>6. ChargedOrderExists'
    BY <1>0, <2>2, <2>3 DEF IInv, Coherence, ChargedOrderExists, Charged
  <2>7. PaidWasCharged'
    BY <2>2, <2>3 DEF IInv, Coherence, PaidWasCharged
  <2>8. NoticesFollowPayment'
    BY <1>0, <1>6, <2>2, <2>3
       DEF AnnouncePayment, IInv, Coherence, TypeOK, NoticesFollowPayment,
           Charged, adminVars
  <2> QED BY <2>4, <2>5, <2>6, <2>7, <2>8 DEF Coherence
<1>7. CASE DropPayment(o, k)
  <2>1. /\ PayGoes(o, k, {"charged", "marked"}, "done")
        /\ UNCHANGED <<req, status, allowed, queueVars, adminVars>>
    BY <1>7 DEF DropPayment
  <2>2. /\ "none" \notin {"charged", "marked"}
        /\ "done" \notin {"none", "marked"}
        /\ pay[o][k] \in Charged => "done" \in Charged
        /\ status[o] # "NONE"
    BY <1>0, <1>7, <2>1 DEF DropPayment, PayGoes, Charged
  <2> QED BY <2>1, <2>2, PayKeeps
<1>8. CASE RedeliverPayment(o, k)
  <2>1. /\ PayGoes(o, k, {"marked", "done"}, "charged")
        /\ UNCHANGED <<req, status, allowed, queueVars, adminVars>>
    BY <1>8 DEF RedeliverPayment
  <2>2. /\ "none" \notin {"marked", "done"}
        /\ "charged" \notin {"none", "marked"}
        /\ pay[o][k] \in Charged => "charged" \in Charged
        /\ status[o] # "NONE"
    BY <1>0, <1>8, <2>1 DEF RedeliverPayment, PayGoes, Charged
  <2> QED BY <2>1, <2>2, PayKeeps
<1> QED
  BY <1>1, <1>2, <1>3, <1>4, <1>5, <1>6, <1>7, <1>8 DEF PaymentStep

\* Sending an invoice disturbs none of the others' states.
LEMMA SendInvoiceKeeps ==
    ASSUME IInv, NEW o \in Orders, SendInvoice(o)
    PROVE  Coherence'
<1>1. /\ attempts[o] \in Copies
      /\ PayGoes(o, attempts[o], {"none"}, "sent")
  BY AttemptsAssumption
     DEF IInv, SendInvoice, WorkerGoes, TypeOK, Coherence, AttemptsCounted
<1>2. /\ pay[o][attempts[o]] = "none"
      /\ \A p \in Orders, j \in Copies :
            pay'[p][j] = IF p = o /\ j = attempts[o] THEN "sent"
                                                      ELSE pay[p][j]
      /\ \A p \in Orders : WasCharged(p) => WasCharged(p)'
  BY <1>1, PayEffect DEF Charged, IInv
<1>3. /\ \A p \in Orders :
            worker'[p] = IF p = o THEN "answered" ELSE worker[p]
      /\ UNCHANGED <<req, status, expJobs, attempts, adminVars>>
  BY DEF IInv, SendInvoice, WorkerGoes, TypeOK
<1>4. NoRowBeforeCommit' /\ ExpirationEnqueued' /\ OpenOrderWillExpire'
  BY <1>3 DEF IInv, Coherence, NoRowBeforeCommit, ExpirationEnqueued,
                    OpenOrderWillExpire
<1>5. AttemptsCounted'
  <2>1. AttemptsCounted /\ attempts \in [Orders -> 0 .. MaxAttempts]
    BY DEF IInv, Coherence, TypeOK
  <2> QED BY <1>1, <1>2, <1>3, <2>1, AttemptsAssumption DEF AttemptsCounted
<1>6. ChargedOrderExists'
  BY <1>2, <1>3 DEF IInv, Coherence, ChargedOrderExists, Charged
<1>7. PaidWasCharged'
  BY <1>2, <1>3 DEF IInv, Coherence, PaidWasCharged
<1>8. NoticesFollowPayment'
  BY <1>2, <1>3
     DEF IInv, Coherence, NoticesFollowPayment, TypeOK, adminVars
<1> QED BY <1>4, <1>5, <1>6, <1>7, <1>8 DEF Coherence

\* Every step keeps the inductive invariant.
LEMMA IInvStep ==
    ASSUME IInv, [Next]_vars
    PROVE  IInv'
<1>0. TypeOK /\ TypeOK' /\ Coherence
  BY TypeStep DEF IInv, Coherence
<1> SUFFICES Coherence'
  BY <1>0 DEF IInv
<1>1. ASSUME NEW o \in Orders, NEW k \in Copies, PaymentStep(o, k)
      PROVE  Coherence'
  BY <1>1, PaymentKeeps
<1>2. ASSUME NEW o \in Orders, SendInvoice(o)
      PROVE  Coherence'
  BY <1>2, SendInvoiceKeeps
<1> USE DEF TypeOK, Coherence, NoRowBeforeCommit, ExpirationEnqueued,
            AttemptsCounted, ChargedOrderExists, PaidWasCharged,
            NoticesFollowPayment, OpenOrderWillExpire, WasCharged, queueVars,
            adminVars
<1>3. ASSUME NEW o \in Orders, RequestStep(o)
      PROVE  Coherence'
  <2>1. CASE BeginOrder(o)
    BY <1>0, <2>1 DEF BeginOrder, RequestGoes, Running
  <2>2. CASE AddExpiration(o)
    BY <1>0, <2>2 DEF AddExpiration, RequestGoes, Running
  <2>3. CASE EnqueueInvoice(o)
    BY <1>0, <2>3 DEF EnqueueInvoice, RequestGoes, Running
  <2>4. CASE CommitOrder(o)
    BY <1>0, <2>4 DEF CommitOrder, RequestGoes, Running
  <2>5. CASE AbortOrder(o)
    BY <1>0, <2>5 DEF AbortOrder, RequestGoes, Running
  <2> QED
    BY <1>3, <2>1, <2>2, <2>3, <2>4, <2>5 DEF RequestStep
<1>4. ASSUME NEW o \in Orders, ExpirationStep(o)
      PROVE  Coherence'
  <2>1. CASE ExpireOrder(o)
    BY <1>0, <2>1 DEF ExpireOrder, Expirable, Running, SetOrderStatus
  <2>2. CASE ExpireOrderAgain(o)
    BY <1>0, <2>2 DEF ExpireOrderAgain, Expirable, Running, SetOrderStatus
  <2> QED
    BY <1>4, <2>1, <2>2 DEF ExpirationStep
<1>5. ASSUME NEW o \in Orders, InvoiceStep(o)
      PROVE  Coherence'
  <2>1. CASE TakeInvoiceJob(o)
    BY <1>0, AttemptsAssumption, <2>1 DEF TakeInvoiceJob, WorkerGoes
  <2>2. CASE SendInvoice(o)
    BY <1>2, <2>2
  <2>3. CASE RefuseInvoice(o)
    <3>1. \A p \in Orders :
              worker'[p] = IF p = o THEN "refused" ELSE worker[p]
      BY <1>0, <2>3 DEF RefuseInvoice, WorkerGoes
    <3>2. AttemptsCounted'
      BY <1>0, <2>3, <3>1 DEF RefuseInvoice, WorkerGoes
    <3> QED BY <1>0, <2>3, <3>2 DEF RefuseInvoice
  <2>4. CASE CancelRefused(o)
    BY <1>0, <2>4 DEF CancelRefused, WorkerGoes, UpdateOrderStatus
  <2>5. CASE CompleteJob(o)
    BY <1>0, <2>5 DEF CompleteJob, WorkerGoes
  <2>6. CASE RescheduleJob(o)
    BY <1>0, <2>6 DEF RescheduleJob, WorkerGoes
  <2> QED
    BY <1>5, <2>1, <2>2, <2>3, <2>4, <2>5, <2>6 DEF InvoiceStep
<1>6. ASSUME NEW o \in Orders, ButtonStep(o)
      PROVE  Coherence'
  <2>1. CASE NotifyOrderArrival(o)
    BY <1>0, <2>1 DEF NotifyOrderArrival
  <2>2. CASE ConfirmReceipt(o)
    BY <1>0, <2>2 DEF ConfirmReceipt, SetOrderStatus
  <2>3. CASE CancelPaidOrder(o)
    BY <1>0, <2>3 DEF CancelPaidOrder, SetOrderStatus
  <2>4. CASE EraseItems(o)
    BY <1>0, <2>4 DEF EraseItems
  <2> QED
    BY <1>6, <2>1, <2>2, <2>3, <2>4 DEF ButtonStep
<1>7. ASSUME NEW b \in BOOLEAN, SetOrderingAllowed(b)
      PROVE  Coherence'
  BY <1>0, <1>7 DEF SetOrderingAllowed
<1>8. CASE UNCHANGED vars
  BY <1>0, <1>8 DEF vars
<1> QED
  BY <1>1, <1>3, <1>4, <1>5, <1>6, <1>7, <1>8 DEF Next

\* The invariant all properties follow from: the states of the request, the
\* queues, the worker, the payments and the table fit together.
THEOREM Invariance == Spec => []IInv
<1>1. IInv /\ [Next]_vars => IInv'
  BY IInvStep
<1> QED BY InitIInv, <1>1, PTL DEF Spec

-----------------------------------------------------------------------------
(* The properties. *)

\* Every variable keeps its type: the statuses stay the four of
\* entity/order.go, and no attempt is counted past the bound.
THEOREM TypeCorrect == Spec => []TypeOK
<1>1. IInv => TypeOK
  BY DEF IInv
<1> QED BY Invariance, <1>1, PTL

\* An invoice of an order whose transaction rolled back
\* (transaction/manager.go:69) can never be approved or paid.
THEOREM ChargesHaveOrders == Spec => []ChargedOrderExists
<1>1. IInv => ChargedOrderExists
  BY DEF IInv, Coherence
<1> QED BY Invariance, <1>1, PTL

\* Whatever is retried, redelivered or canceled, the order counts as paid or
\* received (bot/controller/order.go:62, :190) only after a charge.
THEOREM PaidOrdersWereCharged == Spec => []PaidWasCharged
<1>1. IInv => PaidWasCharged
  BY DEF IInv, Coherence
<1> QED BY Invariance, <1>1, PTL

\* The admins' buttons never act on an order that is still open, and nobody is
\* told of an arrival, a cancellation or a receipt before a payment
\* (bot/controller/order.go:62-73).
THEOREM NoticesComeAfterPayment == Spec => []NoticesFollowPayment
<1>1. IInv => NoticesFollowPayment
  BY DEF IInv, Coherence
<1> QED BY Invariance, <1>1, PTL

\* As long as no request outlives the expiration delay, every open order has a
\* job that will expire it (service/payment/payment.go:43 enqueues it before
\* transaction/manager.go:69 commits).
THEOREM OpenOrdersWillExpire == Spec => []OpenOrderWillExpire
<1>1. IInv => OpenOrderWillExpire
  BY DEF IInv, Coherence
<1> QED BY Invariance, <1>1, PTL

\* The worker overwrites a payment only in a second handling of the invoice
\* job (bot/payment_bot.go:90): in the first one no invoice went out before.
THEOREM PaymentsOverriddenOnlyOnRetry == Spec => PaidOverriddenOnlyOnRetry
<1> DEFINE A ==
    \A o \in Orders :
        /\ status[o] \in {"PAID", "SUCCESS"}
        /\ status'[o] = "CANCELED"
        /\ worker'[o] # worker[o]
        => attempts[o] > 1
<1>1. ASSUME IInv, [Next]_vars PROVE [A]_vars
  <2> SUFFICES ASSUME NEW o \in Orders,
                      status[o] \in {"PAID", "SUCCESS"},
                      status'[o] = "CANCELED",
                      worker'[o] # worker[o]
               PROVE  attempts[o] > 1
    OBVIOUS
  <2>1. worker[o] = "refused"
    <3>1. PICK p \in Orders : InvoiceStep(p)
      BY <1>1 DEF Next, vars, RequestStep, BeginOrder, AddExpiration,
                  EnqueueInvoice, CommitOrder, AbortOrder, ExpirationStep,
                  ExpireOrder, ExpireOrderAgain, PaymentStep,
                  PreCheckoutStatus, PreCheckoutGate, PreCheckoutFails, Charge,
                  MarkPaid, AnnouncePayment, DropPayment, RedeliverPayment,
                  ButtonStep, NotifyOrderArrival, ConfirmReceipt,
                  CancelPaidOrder, EraseItems, SetOrderingAllowed, queueVars
    <3>2. CancelRefused(p)
      BY <3>1 DEF InvoiceStep, TakeInvoiceJob, SendInvoice, RefuseInvoice,
                  CompleteJob, RescheduleJob
    <3> QED
      BY <1>1, <3>2 DEF CancelRefused, WorkerGoes, IInv, TypeOK
  <2>2. attempts[o] \in Nat /\ attempts[o] # 0
    BY <1>1, <2>1 DEF IInv, TypeOK, Coherence, AttemptsCounted
  <2>3. PICK k \in Copies : pay[o][k] \in Charged
    BY <1>1 DEF IInv, Coherence, PaidWasCharged, WasCharged
  <2>4. k < attempts[o]
    BY <1>1, <2>1, <2>2, <2>3, AttemptsAssumption
       DEF IInv, Coherence, AttemptsCounted, Charged
  <2> QED BY <2>2, <2>4, AttemptsAssumption
<1> QED BY Invariance, <1>1, PTL DEF Spec, PaidOverriddenOnlyOnRetry

-----------------------------------------------------------------------------
(* The implementation of OrderStatus. *)

\* Payment steps other than Charge leave the set of charged orders alone.
LEMMA ChargedOrdersSame ==
    ASSUME TypeOK, NEW o \in Orders, NEW k \in Copies, NEW from, NEW to,
           PayGoes(o, k, from, to),
           pay[o][k] \in Charged <=> to \in Charged
    PROVE  ChargedOrders' = ChargedOrders
<1>1. \A p \in Orders : WasCharged(p) => WasCharged(p)'
  BY PayEffect
<1>2. ASSUME NEW p \in Orders, WasCharged(p)' PROVE WasCharged(p)
  <2>1. \A q \in Orders, j \in Copies :
            pay'[q][j] = IF q = o /\ j = k THEN to ELSE pay[q][j]
    BY PayEffect
  <2>2. PICK j \in Copies : pay'[p][j] \in Charged
    BY <1>2 DEF WasCharged
  <2> QED BY <2>1, <2>2 DEF WasCharged
<1> QED BY <1>1, <1>2 DEF ChargedOrders

\* The initial states map to the initial state of OrderStatus.
LEMMA PromiseInit == Init => Promise!Init
BY DEF Init, Promise!Init, ChargedOrders, WasCharged, Charged

\* Every step maps to a step of OrderStatus, or to none.
LEMMA PromiseStep ==
    ASSUME IInv, [Next]_vars
    PROVE  [Promise!Next]_(Promise!vars)
<1> DEFINE Same == status' = status /\ ChargedOrders' = ChargedOrders
<1>0. TypeOK
  BY DEF IInv
<1>s. ASSUME Same PROVE UNCHANGED Promise!vars
  BY <1>s DEF Promise!vars
<1>p. ASSUME UNCHANGED pay PROVE ChargedOrders' = ChargedOrders
  BY <1>p DEF ChargedOrders, WasCharged
<1>1. ASSUME NEW o \in Orders, RequestStep(o)
      PROVE  Promise!Place(o) \/ Same
  <2>1. CASE CommitOrder(o)
    BY <1>p, <2>1 DEF CommitOrder, RequestGoes, IInv, Coherence,
                      NoRowBeforeCommit, Promise!Place, Promise!Move
  <2>2. CASE BeginOrder(o) \/ AddExpiration(o) \/ EnqueueInvoice(o)
             \/ AbortOrder(o)
    BY <1>p, <2>2 DEF BeginOrder, AddExpiration, EnqueueInvoice, AbortOrder
  <2> QED BY <1>1, <2>1, <2>2 DEF RequestStep
<1>2. ASSUME NEW o \in Orders, ExpirationStep(o)
      PROVE  Promise!Cancel(o) \/ Same
  BY <1>p, <1>2 DEF ExpirationStep, ExpireOrder, ExpireOrderAgain,
                    SetOrderStatus, Promise!Cancel, Promise!Move
<1>3. ASSUME NEW o \in Orders, InvoiceStep(o)
      PROVE  Promise!Cancel(o) \/ Same
  <2>1. CASE CancelRefused(o)
    <3>1. ChargedOrders' = ChargedOrders
      BY <1>p, <2>1 DEF CancelRefused
    <3>2. CASE status[o] = "SUCCESS"
      <4>1. attempts[o] # 1
        BY <2>1, <3>2, AttemptsAssumption
           DEF CancelRefused, WorkerGoes, IInv, TypeOK, Coherence,
               AttemptsCounted, PaidWasCharged, WasCharged, Charged
      <4>2. MaxAttempts # 1
        BY <2>1, <4>1, AttemptsAssumption
           DEF CancelRefused, WorkerGoes, IInv, TypeOK, Coherence,
               AttemptsCounted
      <4> QED BY <2>1, <3>1, <3>2, <4>2
              DEF CancelRefused, UpdateOrderStatus, Promise!Cancel, Promise!Move
    <3>3. CASE status[o] \in {"NONE", "PROCESS", "PAID", "CANCELED"}
      BY <1>0, <2>1, <3>1, <3>3
         DEF CancelRefused, UpdateOrderStatus, Promise!Cancel, Promise!Move,
             TypeOK
    <3> QED BY <1>0, <3>2, <3>3 DEF TypeOK, Statuses
  <2>2. CASE SendInvoice(o)
    <3>1. PayGoes(o, attempts[o], {"none"}, "sent")
      BY <2>2 DEF SendInvoice
    <3>2. attempts[o] \in Copies
      BY <2>2, AttemptsAssumption
         DEF SendInvoice, WorkerGoes, IInv, TypeOK, Coherence, AttemptsCounted
    <3> QED BY <1>0, <2>2, <3>1, <3>2, ChargedOrdersSame, PayEffect
            DEF SendInvoice, Charged
  <2>3. CASE TakeInvoiceJob(o) \/ RefuseInvoice(o) \/ CompleteJob(o)
             \/ RescheduleJob(o)
    BY <1>p, <2>3 DEF TakeInvoiceJob, RefuseInvoice, CompleteJob, RescheduleJob
  <2> QED BY <1>3, <2>1, <2>2, <2>3 DEF InvoiceStep
<1>4. ASSUME NEW o \in Orders, NEW k \in Copies, PaymentStep(o, k)
      PROVE  Promise!Charge(o) \/ Promise!Pay(o) \/ Same
  <2>1. CASE Charge(o, k)
    <3>1. PayGoes(o, k, {"approved"}, "charged") /\ status' = status
      BY <2>1 DEF Charge
    <3>2. /\ pay[o][k] \in {"approved"}
          /\ \A p \in Orders, j \in Copies :
               pay'[p][j] = IF p = o /\ j = k THEN "charged" ELSE pay[p][j]
          /\ WasCharged(o)'
          /\ \A p \in Orders : WasCharged(p) => WasCharged(p)'
      BY <1>0, <3>1, PayEffect DEF Charged
    <3>3. ASSUME NEW p \in Orders, p # o, WasCharged(p)' PROVE WasCharged(p)
      BY <3>2, <3>3 DEF WasCharged
    <3>4. ChargedOrders' = ChargedOrders \union {o}
      BY <3>2, <3>3 DEF ChargedOrders
    <3>5. status[o] # "NONE"
      BY <3>2 DEF IInv, Coherence, ChargedOrderExists
    <3> QED BY <3>1, <3>4, <3>5 DEF Promise!Charge
  <2>2. CASE MarkPaid(o, k)
    <3>1. PayGoes(o, k, {"charged"}, "marked")
      BY <2>2 DEF MarkPaid
    <3>2. ChargedOrders' = ChargedOrders
      BY <1>0, <3>1, ChargedOrdersSame, PayEffect DEF Charged
    <3>3. o \in ChargedOrders
      BY <3>1 DEF PayGoes, ChargedOrders, WasCharged, Charged
    <3> QED BY <2>2, <3>2, <3>3
            DEF MarkPaid, SetOrderStatus, Promise!Pay, Promise!Move
  <2>3. CASE PreCheckoutStatus(o, k)
    BY <1>0, <2>3, ChargedOrdersSame, PayEffect DEF PreCheckoutStatus, Charged
  <2>4. CASE PreCheckoutGate(o, k)
    BY <1>0, <2>4, ChargedOrdersSame, PayEffect DEF PreCheckoutGate, Charged
  <2>5. CASE PreCheckoutFails(o, k)
    BY <1>0, <2>5, ChargedOrdersSame, PayEffect DEF PreCheckoutFails, Charged
  <2>6. CASE AnnouncePayment(o, k)
    BY <1>0, <2>6, ChargedOrdersSame, PayEffect DEF AnnouncePayment, Charged
  <2>7. CASE DropPayment(o, k)
    BY <1>0, <2>7, ChargedOrdersSame, PayEffect DEF DropPayment, Charged
  <2>8. CASE RedeliverPayment(o, k)
    BY <1>0, <2>8, ChargedOrdersSame, PayEffect DEF RedeliverPayment, Charged
  <2> QED BY <1>4, <2>1, <2>2, <2>3, <2>4, <2>5, <2>6, <2>7, <2>8
          DEF PaymentStep
<1>5. ASSUME NEW o \in Orders, ButtonStep(o)
      PROVE  Promise!Receive(o) \/ Promise!Cancel(o) \/ Same
  <2>1. CASE ConfirmReceipt(o)
    BY <1>p, <2>1 DEF ConfirmReceipt, SetOrderStatus, Promise!Receive,
                      Promise!Move
  <2>2. CASE CancelPaidOrder(o)
    BY <1>p, <2>2 DEF CancelPaidOrder, SetOrderStatus, Promise!Cancel,
                      Promise!Move
  <2>3. CASE NotifyOrderArrival(o) \/ EraseItems(o)
    BY <1>p, <2>3 DEF NotifyOrderArrival, EraseItems
  <2> QED BY <1>5, <2>1, <2>2, <2>3 DEF ButtonStep
<1>6. ASSUME NEW b \in BOOLEAN, SetOrderingAllowed(b) PROVE Same
  BY <1>p, <1>6 DEF SetOrderingAllowed
<1>7. ASSUME UNCHANGED vars PROVE Same
  BY <1>p, <1>7 DEF vars
<1> HIDE DEF Same
<1> QED
  BY <1>s, <1>1, <1>2, <1>3, <1>4, <1>5, <1>6, <1>7 DEF Next, Promise!Next

\* Every run of the handlers, workers and retries is one the four statuses of
\* entity/order.go allow; with a single attempt per invoice job, no received
\* order is ever canceled.
THEOREM Implementation == Spec => Implements
<1>1. IInv /\ [Next]_vars => [Promise!Next]_(Promise!vars)
  BY PromiseStep
<1> QED BY Invariance, PromiseInit, <1>1, PTL DEF Spec, Implements, Promise!Spec

-----------------------------------------------------------------------------
(***************************************************************************)
(* What must happen.  ENABLED is beyond the provers: GuardsEnable says, of  *)
(* the actions that WorkersAndBotRun is fair to, that an action whose guard *)
(* is true is enabled.  It is a hypothesis of the theorems below; what      *)
(* happens in between, from the step that owes another to the step that     *)
(* ends the matter, is proved.                                              *)
(***************************************************************************)

GuardsEnable ==
    \A o \in Orders :
        /\ Expirable(o) => ENABLED <<ExpireOrder(o)>>_vars
        /\ o \in invJobs =>
            /\ worker[o] = "idle" /\ attempts[o] < MaxAttempts =>
                ENABLED <<TakeInvoiceJob(o)>>_vars
            /\ worker[o] = "allowed" =>
                ENABLED <<SendInvoice(o) \/ RefuseInvoice(o)>>_vars
            /\ worker[o] = "refused" => ENABLED <<CancelRefused(o)>>_vars
            /\ worker[o] = "answered" => ENABLED <<CompleteJob(o)>>_vars
        /\ \A k \in Copies :
            /\ pay[o][k] = "charged" => ENABLED <<MarkPaid(o, k)>>_vars
            /\ pay[o][k] = "marked" => ENABLED <<AnnouncePayment(o, k)>>_vars

\* Only its request puts an invoice job in the queue, only its last answer
\* takes it out, and a job that waits there may be taken once more.
JobsCoherent ==
    \A o \in Orders :
        /\ req[o] \in {"idle", "open", "expiring"} =>
            o \notin invJobs /\ attempts[o] = 0
        /\ worker[o] # "idle" => o \in invJobs
        /\ o \in invJobs /\ worker[o] = "idle" => attempts[o] < MaxAttempts

LEMMA JobsStep ==
    ASSUME TypeOK, JobsCoherent, [Next]_vars
    PROVE  JobsCoherent'
<1> USE AttemptsAssumption
    DEF TypeOK, JobsCoherent, RequestSteps, WorkerSteps, Running, queueVars,
        adminVars, RequestGoes, WorkerGoes
<1>1. ASSUME NEW o \in Orders, RequestStep(o) PROVE JobsCoherent'
  <2>1. CASE BeginOrder(o)
    BY <2>1 DEF BeginOrder
  <2>2. CASE AddExpiration(o)
    BY <2>2 DEF AddExpiration
  <2>3. CASE EnqueueInvoice(o)
    BY <2>3 DEF EnqueueInvoice
  <2>4. CASE CommitOrder(o)
    BY <2>4 DEF CommitOrder
  <2>5. CASE AbortOrder(o)
    BY <2>5 DEF AbortOrder
  <2> QED
    BY <1>1, <2>1, <2>2, <2>3, <2>4, <2>5 DEF RequestStep
<1>2. ASSUME NEW o \in Orders, ExpirationStep(o) PROVE JobsCoherent'
  BY <1>2 DEF ExpirationStep, ExpireOrder, ExpireOrderAgain
<1>3. ASSUME NEW o \in Orders, InvoiceStep(o) PROVE JobsCoherent'
  <2>1. CASE TakeInvoiceJob(o)
    BY <2>1 DEF TakeInvoiceJob
  <2>2. CASE SendInvoice(o)
    BY <2>2 DEF SendInvoice
  <2>3. CASE RefuseInvoice(o)
    BY <2>3 DEF RefuseInvoice
  <2>4. CASE CancelRefused(o)
    BY <2>4 DEF CancelRefused
  <2>5. CASE CompleteJob(o)
    BY <2>5 DEF CompleteJob
  <2>6. CASE RescheduleJob(o)
    BY <2>6 DEF RescheduleJob
  <2> QED
    BY <1>3, <2>1, <2>2, <2>3, <2>4, <2>5, <2>6 DEF InvoiceStep
<1>4. ASSUME NEW o \in Orders, NEW k \in Copies, PaymentStep(o, k)
      PROVE  JobsCoherent'
  <2>1. UNCHANGED <<req, queueVars>>
    BY <1>4 DEF PaymentStep, PreCheckoutStatus, PreCheckoutGate,
                PreCheckoutFails, Charge, MarkPaid, AnnouncePayment,
                DropPayment, RedeliverPayment
  <2> QED BY <2>1
<1>5. ASSUME NEW o \in Orders, ButtonStep(o) PROVE JobsCoherent'
  BY <1>5 DEF ButtonStep, NotifyOrderArrival, ConfirmReceipt, CancelPaidOrder,
              EraseItems
<1>6. ASSUME NEW b \in BOOLEAN, SetOrderingAllowed(b) PROVE JobsCoherent'
  BY <1>6 DEF SetOrderingAllowed
<1>7. CASE UNCHANGED vars
  BY <1>7 DEF vars
<1> QED BY <1>1, <1>2, <1>3, <1>4, <1>5, <1>6, <1>7 DEF Next

LEMMA JobsInvariance == Spec => []JobsCoherent
<1>1. Init => JobsCoherent
  BY AttemptsAssumption DEF Init, JobsCoherent
<1>2. IInv /\ JobsCoherent /\ [Next]_vars => JobsCoherent'
  BY JobsStep DEF IInv
<1> QED BY Invariance, <1>1, <1>2, PTL DEF Spec

\* However many orders there are, each open order is paid, canceled or expired,
\* as long as no transaction outlives the expiration delay
\* (service/payment/expiration/worker.go:29).
THEOREM OrdersSettle ==
    ASSUME ~SlowRequests
    PROVE  FairSpec /\ []GuardsEnable => Settles
<1>1. ASSUME NEW o \in Orders
      PROVE  FairSpec /\ []GuardsEnable
                => (status[o] = "PROCESS" ~> status[o] # "PROCESS")
  <2>1. IInv /\ status[o] = "PROCESS" => Expirable(o)
    BY DEF IInv, Coherence, NoRowBeforeCommit, OpenOrderWillExpire, Expirable,
           Running
  <2>2. GuardsEnable /\ Expirable(o) => ENABLED <<ExpireOrder(o)>>_vars
    BY DEF GuardsEnable
  <2>3. IInv /\ <<ExpireOrder(o)>>_vars => (status[o] # "PROCESS")'
    BY DEF IInv, TypeOK, ExpireOrder, SetOrderStatus
  <2>4. WorkersAndBotRun => WorkersRun(o)
    BY DEF WorkersAndBotRun
  <2>5. status[o] = "PROCESS" \/ status[o] # "PROCESS"
    OBVIOUS
  <2> QED
    BY Invariance, <2>1, <2>2, <2>3, <2>4, <2>5, PTL DEF FairSpec, WorkersRun
<1> QED BY <1>1 DEF Settles, Promise!Settles

\* What a step can do to one invoice: nothing, unless it is a step of the
\* invoice's payment or the one that sends it.
LEMMA InvoiceMoves ==
    ASSUME IInv, NEW o \in Orders, NEW k \in Copies, [Next]_vars,
           pay[o][k] \notin {"none", "sent"}, pay'[o][k] # pay[o][k]
    PROVE  PaymentStep(o, k)
<1>1. ASSUME NEW p \in Orders, NEW j \in Copies, PaymentStep(p, j)
      PROVE  p = o /\ j = k
  <2>1. PICK from, to : PayGoes(p, j, from, to)
    BY <1>1 DEF PaymentStep, PreCheckoutStatus, PreCheckoutGate,
                PreCheckoutFails, Charge, MarkPaid, AnnouncePayment,
                DropPayment, RedeliverPayment
  <2> QED BY <2>1, PayEffect DEF IInv
<1>2. ASSUME NEW p \in Orders, SendInvoice(p) PROVE FALSE
  <2>1. PayGoes(p, attempts[p], {"none"}, "sent") /\ attempts[p] \in Copies
    BY <1>2, AttemptsAssumption
       DEF SendInvoice, WorkerGoes, IInv, TypeOK, Coherence, AttemptsCounted
  <2> QED BY <2>1, PayEffect DEF IInv, Charged
<1>3. ASSUME NEW p \in Orders,
             \/ RequestStep(p) \/ ExpirationStep(p) \/ ButtonStep(p)
             \/ InvoiceStep(p) /\ ~SendInvoice(p)
      PROVE  FALSE
  BY <1>3 DEF RequestStep, BeginOrder, AddExpiration, EnqueueInvoice,
              CommitOrder, AbortOrder, ExpirationStep, ExpireOrder,
              ExpireOrderAgain, ButtonStep, NotifyOrderArrival, ConfirmReceipt,
              CancelPaidOrder, EraseItems, InvoiceStep, TakeInvoiceJob,
              RefuseInvoice, CancelRefused, CompleteJob, RescheduleJob
<1>4. ASSUME NEW b \in BOOLEAN, SetOrderingAllowed(b) PROVE FALSE
  BY <1>4 DEF SetOrderingAllowed
<1>5. ~UNCHANGED vars
  BY DEF vars
<1>6. ASSUME NEW p \in Orders, InvoiceStep(p) PROVE FALSE
  BY <1>2, <1>3, <1>6
<1> QED BY <1>1, <1>3, <1>4, <1>5, <1>6 DEF Next

Announced(o) == o \in notified \/ o \in erased

\* A charge waits to be marked, and a marked one to be announced; nothing else
\* happens to it as long as no update is lost.
LEMMA ChargeMoves ==
    ASSUME IInv, ~Lossy, NEW o \in Orders, NEW k \in Copies, [Next]_vars
    PROVE  /\ pay[o][k] = "charged" => pay'[o][k] \in {"charged", "marked"}
           /\ pay[o][k] = "marked" => pay'[o][k] = "marked" \/ Announced(o)'
<1>1. SUFFICES ASSUME pay[o][k] \in {"charged", "marked"},
                      pay'[o][k] # pay[o][k]
               PROVE  \/ pay[o][k] = "charged" /\ pay'[o][k] = "marked"
                      \/ pay[o][k] = "marked" /\ Announced(o)'
  OBVIOUS
<1>2. PaymentStep(o, k)
  BY <1>1, InvoiceMoves
<1>3. MarkPaid(o, k) \/ AnnouncePayment(o, k)
  BY <1>1, <1>2 DEF PaymentStep, PreCheckoutStatus, PreCheckoutGate,
                    PreCheckoutFails, Charge, DropPayment, RedeliverPayment,
                    PayGoes
<1>4. CASE MarkPaid(o, k)
  BY <1>1, <1>4 DEF MarkPaid, PayGoes, IInv, TypeOK
<1>5. CASE AnnouncePayment(o, k)
  BY <1>1, <1>5 DEF AnnouncePayment, PayGoes, Announced, GetOrderFinds, IInv,
                    Coherence, ChargedOrderExists, Charged
<1> QED BY <1>3, <1>4, <1>5

\* Without lost updates, every charge of every order reaches the admins, unless
\* the order's dishes are gone (bot/controller/order.go:62-73).
THEOREM ChargesReachAdmins ==
    ASSUME ~Lossy
    PROVE  FairSpec /\ []GuardsEnable => ChargesAnnounced
<1>1. ASSUME NEW o \in Orders, NEW k \in Copies
      PROVE  FairSpec /\ []GuardsEnable
                => (pay[o][k] = "charged" ~> o \in notified \/ o \in erased)
  <2> DEFINE Taken == pay[o][k] = "charged"
             Marked == pay[o][k] = "marked"
  <2>1. IInv /\ [Next]_vars /\ Taken => Taken' \/ Marked'
    BY ChargeMoves
  <2>2. IInv /\ [Next]_vars /\ Marked => Marked' \/ Announced(o)'
    BY ChargeMoves
  <2>3. IInv /\ Taken /\ <<MarkPaid(o, k)>>_vars => Marked'
    <3>1. IInv /\ MarkPaid(o, k) => pay'[o][k] = "marked"
      BY PayEffect DEF MarkPaid, IInv
    <3> QED BY <3>1
  <2>4. IInv /\ Marked /\ <<AnnouncePayment(o, k)>>_vars => ~Marked'
    BY DEF IInv, TypeOK, AnnouncePayment, PayGoes
  <2>5. /\ GuardsEnable /\ Taken => ENABLED <<MarkPaid(o, k)>>_vars
        /\ GuardsEnable /\ Marked => ENABLED <<AnnouncePayment(o, k)>>_vars
    BY DEF GuardsEnable
  <2>6. ~(Taken /\ Marked)
    OBVIOUS
  <2>7. WorkersAndBotRun => BotRuns(o, k)
    BY DEF WorkersAndBotRun
  <2>8. Announced(o) <=> o \in notified \/ o \in erased
    BY DEF Announced
  <2> HIDE DEF Taken, Marked
  <2>9. FairSpec /\ []GuardsEnable
            => (Taken ~> o \in notified \/ o \in erased)
    BY Invariance, <2>1, <2>2, <2>3, <2>4, <2>5, <2>6, <2>7, <2>8, PTL
       DEF FairSpec, Spec, BotRuns
  <2> QED BY <2>9 DEF Taken
<1> QED BY <1>1 DEF ChargesAnnounced

\* Where the n-th attempt of the invoice job of o is.
Attempt(o, n, w) == o \in invJobs /\ attempts[o] = n /\ worker[o] = w

Over(o, n) == o \notin invJobs \/ attempts[o] = n + 1

Taken(o, n) == o \in invJobs /\ attempts[o] = n

AttemptEnds(o, n) == Taken(o, n) ~> Over(o, n)

\* The handler goes forward or gives the job back, and only a new attempt
\* starts it over.
LEMMA AttemptMoves ==
    ASSUME IInv, NEW o \in Orders, NEW n \in Nat, [Next]_vars
    PROVE  /\ Attempt(o, n, "idle") => Attempt(o, n, "idle")' \/ Over(o, n)'
           /\ Attempt(o, n, "allowed") =>
                \E w \in WorkerSteps : Attempt(o, n, w)'
           /\ Attempt(o, n, "refused") =>
                \E w \in {"refused", "answered", "idle"} : Attempt(o, n, w)'
           /\ Attempt(o, n, "answered") =>
                \/ \E w \in {"answered", "idle"} : Attempt(o, n, w)'
                \/ Over(o, n)'
<1> USE DEF Attempt, Over, IInv, TypeOK, WorkerSteps, queueVars, adminVars
<1>1. ASSUME UNCHANGED <<worker, attempts>>, invJobs \subseteq invJobs',
             o \in invJobs
      PROVE  \A w \in WorkerSteps : Attempt(o, n, w) => Attempt(o, n, w)'
  BY <1>1
<1>2. ASSUME NEW p \in Orders, RequestStep(p)
      PROVE  UNCHANGED <<worker, attempts>> /\ invJobs \subseteq invJobs'
  BY <1>2 DEF RequestStep, BeginOrder, AddExpiration, EnqueueInvoice,
              CommitOrder, AbortOrder
<1>3. ASSUME NEW p \in Orders, ExpirationStep(p) \/ ButtonStep(p)
      PROVE  UNCHANGED <<worker, attempts>> /\ invJobs \subseteq invJobs'
  BY <1>3 DEF ExpirationStep, ExpireOrder, ExpireOrderAgain, ButtonStep,
              NotifyOrderArrival, ConfirmReceipt, CancelPaidOrder, EraseItems
<1>4. ASSUME NEW p \in Orders, NEW k \in Copies, PaymentStep(p, k)
      PROVE  UNCHANGED <<worker, attempts>> /\ invJobs \subseteq invJobs'
  BY <1>4 DEF PaymentStep, PreCheckoutStatus, PreCheckoutGate,
              PreCheckoutFails, Charge, MarkPaid, AnnouncePayment,
              DropPayment, RedeliverPayment
<1>5. ASSUME (\E b \in BOOLEAN : SetOrderingAllowed(b)) \/ UNCHANGED vars
      PROVE  UNCHANGED <<worker, attempts>> /\ invJobs \subseteq invJobs'
  BY <1>5 DEF SetOrderingAllowed, vars
<1>6. ASSUME NEW p \in Orders, InvoiceStep(p), p # o
      PROVE  /\ worker'[o] = worker[o] /\ attempts'[o] = attempts[o]
             /\ o \in invJobs => o \in invJobs'
  BY <1>6 DEF InvoiceStep, TakeInvoiceJob, SendInvoice, RefuseInvoice,
              CancelRefused, CompleteJob, RescheduleJob, WorkerGoes
<1>7. ASSUME InvoiceStep(o), o \in invJobs, attempts[o] = n
      PROVE  \/ worker[o] = "idle" /\ Over(o, n)'
             \/ /\ worker[o] = "allowed"
                /\ \E w \in WorkerSteps : Attempt(o, n, w)'
             \/ worker[o] = "refused" /\ Attempt(o, n, "answered")'
             \/ worker[o] = "answered" /\ Over(o, n)'
             \/ worker[o] # "idle" /\ Attempt(o, n, "idle")'
  <2>1. CASE TakeInvoiceJob(o)
    BY <1>7, <2>1 DEF TakeInvoiceJob, WorkerGoes
  <2>2. CASE SendInvoice(o) \/ RefuseInvoice(o)
    BY <1>7, <2>2 DEF SendInvoice, RefuseInvoice, WorkerGoes
  <2>3. CASE CancelRefused(o)
    BY <1>7, <2>3 DEF CancelRefused, WorkerGoes
  <2>4. CASE CompleteJob(o)
    BY <1>7, <2>4 DEF CompleteJob, WorkerGoes
  <2>5. CASE RescheduleJob(o)
    BY <1>7, <2>5 DEF RescheduleJob
  <2> QED BY <1>7, <2>1, <2>2, <2>3, <2>4, <2>5 DEF InvoiceStep
<1> QED BY <1>1, <1>2, <1>3, <1>4, <1>5, <1>6, <1>7 DEF Next

\* Every attempt at an invoice job comes to an end, whatever the order's status:
\* the job leaves the queue or is taken once more
\* (service/payment/telegram/controller.go:29).
THEOREM InvoiceAttemptsEnd ==
    FairSpec /\ []GuardsEnable => \A o \in Orders, n \in Nat : AttemptEnds(o, n)
<1>1. ASSUME NEW o \in Orders, NEW n \in Nat
      PROVE  FairSpec /\ []GuardsEnable => AttemptEnds(o, n)
  <2> DEFINE Waiting == Attempt(o, n, "idle")
             Allowed == Attempt(o, n, "allowed")
             Refused == Attempt(o, n, "refused")
             Answered == Attempt(o, n, "answered")
  <2>1. IInv /\ Taken(o, n) => Waiting \/ Allowed \/ Refused \/ Answered
    BY DEF IInv, TypeOK, Attempt, Taken, WorkerSteps
  <2>2. IInv /\ [Next]_vars =>
            /\ Waiting => Waiting' \/ Over(o, n)'
            /\ Allowed => Allowed' \/ Refused' \/ Answered' \/ Waiting'
            /\ Refused => Refused' \/ Answered' \/ Waiting'
            /\ Answered => Answered' \/ Waiting' \/ Over(o, n)'
    BY AttemptMoves DEF WorkerSteps
  <2>3. /\ IInv /\ <<TakeInvoiceJob(o)>>_vars => ~Waiting'
        /\ IInv /\ <<SendInvoice(o) \/ RefuseInvoice(o)>>_vars => ~Allowed'
        /\ IInv /\ <<CancelRefused(o)>>_vars => ~Refused'
        /\ IInv /\ <<CompleteJob(o)>>_vars => ~Answered'
    BY DEF IInv, TypeOK, Attempt, TakeInvoiceJob, SendInvoice, RefuseInvoice,
           CancelRefused, CompleteJob, WorkerGoes
  <2>4. GuardsEnable /\ JobsCoherent =>
            /\ Waiting => ENABLED <<TakeInvoiceJob(o)>>_vars
            /\ Allowed => ENABLED <<SendInvoice(o) \/ RefuseInvoice(o)>>_vars
            /\ Refused => ENABLED <<CancelRefused(o)>>_vars
            /\ Answered => ENABLED <<CompleteJob(o)>>_vars
    BY DEF GuardsEnable, JobsCoherent, Attempt
  <2>5. WorkersAndBotRun => WorkersRun(o)
    BY DEF WorkersAndBotRun
  <2> HIDE DEF Waiting, Allowed, Refused, Answered
  <2> QED
    BY Invariance, JobsInvariance, <2>1, <2>2, <2>3, <2>4, <2>5, PTL
       DEF FairSpec, Spec, WorkersRun, AttemptEnds
<1> QED BY <1>1

\* So for any orders the queue of invoices drains, as many attempts as the runs
\* allow (service/payment/telegram/controller.go:29).  For any other bound the
\* same steps are repeated, which takes an induction over temporal formulas.
THEOREM InvoiceJobsEnd ==
    ASSUME MaxAttempts \in 1 .. 3
    PROVE  FairSpec /\ []GuardsEnable => InvoiceJobEnds
<1>1. ASSUME NEW o \in Orders
      PROVE  FairSpec /\ []GuardsEnable => (o \in invJobs ~> o \notin invJobs)
  <2>1. ASSUME NEW n \in Nat
        PROVE  FairSpec /\ []GuardsEnable => AttemptEnds(o, n)
    BY InvoiceAttemptsEnd
  <2>2. /\ FairSpec /\ []GuardsEnable => AttemptEnds(o, 0)
        /\ FairSpec /\ []GuardsEnable => AttemptEnds(o, 1)
        /\ FairSpec /\ []GuardsEnable => AttemptEnds(o, 2)
        /\ FairSpec /\ []GuardsEnable => AttemptEnds(o, 3)
    BY <2>1
  <2>3. IInv /\ o \in invJobs
            => Taken(o, 0) \/ Taken(o, 1) \/ Taken(o, 2) \/ Taken(o, 3)
    BY DEF IInv, TypeOK, Taken
  <2>4. /\ IInv /\ Over(o, 0) => o \notin invJobs \/ Taken(o, 1)
        /\ IInv /\ Over(o, 1) => o \notin invJobs \/ Taken(o, 2)
        /\ IInv /\ Over(o, 2) => o \notin invJobs \/ Taken(o, 3)
        /\ IInv /\ Over(o, 3) => o \notin invJobs
    BY DEF IInv, TypeOK, Over, Taken
  <2>5. o \in invJobs \/ o \notin invJobs
    OBVIOUS
  <2> QED BY Invariance, <2>2, <2>3, <2>4, <2>5, PTL DEF FairSpec, AttemptEnds
<1> QED BY <1>1 DEF InvoiceJobEnds
=============================================================================

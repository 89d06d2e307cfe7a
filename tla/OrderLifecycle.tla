--------------------------- MODULE OrderLifecycle ---------------------------
(***************************************************************************)
(* The life of an order, from the HTTP request that places it to the      *)
(* confirmation that the customer received it.  Five kinds of actor touch *)
(* the same row of the orders table without knowing of each other:        *)
(*                                                                         *)
(*   - the request, whose database transaction inserts the row while the  *)
(*     two background jobs it enqueues go through a connection of their   *)
(*     own and are visible before, and even without, its commit;          *)
(*   - the worker of the payment-expiration queue;                        *)
(*   - the worker of the telegram-payment queue, which sends the invoice; *)
(*   - the bot handlers of Telegram's payment updates;                    *)
(*   - the admins' and the customer's buttons, and the ordering gate.     *)
(*                                                                         *)
(* A job of the bgjob library is locked while a worker handles it and is  *)
(* removed only when the handler's result is stored, so it can be handled *)
(* more than once but never by two workers at the same time.  That is why *)
(* the worker's state is kept per order: reconfiguration adds workers and *)
(* never stops the old ones (assembly/assembly.go:77), so their number is *)
(* not bounded here.                                                      *)
(***************************************************************************)
EXTENDS Naturals

CONSTANTS
    Orders,         \* order ids
    MaxAttempts,    \* bound: how often one invoice job is handled
    SlowRequests,   \* may a request's transaction outlive the expiration delay?
    Lossy           \* may bot updates be lost, fail half-way or be redelivered?

ASSUME AttemptsAssumption == MaxAttempts \in Nat \ {0}
ASSUME EnvironmentAssumption == SlowRequests \in BOOLEAN /\ Lossy \in BOOLEAN

VARIABLES
    req,        \* how far the request that places the order has come
    status,     \* orders.status, "NONE" while no committed row exists
    allowed,    \* is an allow_ordering_audit period open?
    expJobs,    \* orders with a job in the payment-expiration queue
    invJobs,    \* orders with a job in the telegram-payment queue
    worker,     \* how far the handler of the order's invoice job has come
    attempts,   \* how often the invoice job was taken
    pay,        \* pay[o][k]: what became of the invoice sent by attempt k
    notified,   \* paid orders announced to the admins
    arrived,    \* orders whose arrival the customer was told of
    notices,    \* orders whose customer was told of a cancellation
    erased      \* orders whose items were deleted along with their dishes

vars == <<req, status, allowed, expJobs, invJobs, worker, attempts, pay,
          notified, arrived, notices, erased>>

queueVars == <<expJobs, invJobs, worker, attempts>>
adminVars == <<notified, arrived, notices, erased>>

Copies == 1 .. MaxAttempts

Statuses == {"NONE", "PROCESS", "PAID", "SUCCESS", "CANCELED"}
Running == {"open", "expiring", "invoicing"}
RequestSteps == {"idle", "committed", "aborted"} \union Running
WorkerSteps == {"idle", "allowed", "refused", "answered"}
Charged == {"charged", "marked", "done"}
PaySteps == {"none", "sent", "checked", "approved"} \union Charged

TypeOK ==
    /\ req \in [Orders -> RequestSteps]
    /\ status \in [Orders -> Statuses]
    /\ allowed \in BOOLEAN
    /\ expJobs \subseteq Orders
    /\ invJobs \subseteq Orders
    /\ worker \in [Orders -> WorkerSteps]
    /\ attempts \in [Orders -> 0 .. MaxAttempts]
    /\ pay \in [Orders -> [Copies -> PaySteps]]
    /\ notified \subseteq Orders
    /\ arrived \subseteq Orders
    /\ notices \subseteq Orders
    /\ erased \subseteq Orders

Init ==
    /\ req = [o \in Orders |-> "idle"]
    /\ status = [o \in Orders |-> "NONE"]
    /\ allowed \in BOOLEAN
    /\ expJobs = {}
    /\ invJobs = {}
    /\ worker = [o \in Orders |-> "idle"]
    /\ attempts = [o \in Orders |-> 0]
    /\ pay = [o \in Orders |-> [k \in Copies |-> "none"]]
    /\ notified = {}
    /\ arrived = {}
    /\ notices = {}
    /\ erased = {}

-----------------------------------------------------------------------------
(* The two ways a status is written.  Neither reports that no row matched. *)

SetOrderStatus(o, old, new) ==
    status' = IF status[o] = old THEN [status EXCEPT ![o] = new] ELSE status

UpdateOrderStatus(o, new) ==
    status' = IF status[o] = "NONE" THEN status ELSE [status EXCEPT ![o] = new]

\* GetOrder joins the items with their dishes and restaurants: an order whose
\* items are gone is not found, although its row and status are there.
GetOrderFinds(o) == status[o] # "NONE" /\ o \notin erased

RequestGoes(o, from, to) ==
    /\ req[o] = from
    /\ req' = [req EXCEPT ![o] = to]

WorkerGoes(o, from, to) ==
    /\ worker[o] = from
    /\ worker' = [worker EXCEPT ![o] = to]

PayGoes(o, k, from, to) ==
    /\ pay[o][k] \in from
    /\ pay' = [pay EXCEPT ![o][k] = to]

-----------------------------------------------------------------------------
(* The request.  The gate is read once, at the start of the transaction.  *)
(* What the transaction inserts becomes visible when it commits.          *)

BeginOrder(o) ==
    /\ allowed
    /\ RequestGoes(o, "idle", "open")
    /\ UNCHANGED <<status, allowed, queueVars, pay, adminVars>>

\* Mutant: the expiration job is forgotten.
BugNoExpirationJob(o) ==
    /\ RequestGoes(o, "open", "expiring")
    /\ UNCHANGED <<status, allowed, queueVars, pay, adminVars>>

AddExpiration(o) ==
    /\ RequestGoes(o, "open", "expiring")
    /\ expJobs' = expJobs \union {o}
    /\ UNCHANGED <<status, allowed, invJobs, worker, attempts, pay, adminVars>>

EnqueueInvoice(o) ==
    /\ RequestGoes(o, "expiring", "invoicing")
    /\ invJobs' = invJobs \union {o}
    /\ UNCHANGED <<status, allowed, expJobs, worker, attempts, pay, adminVars>>

\* Mutant: the row is stored with a status outside entity/order.go.
BugCommitNew(o) ==
    /\ RequestGoes(o, "invoicing", "committed")
    /\ status' = [status EXCEPT ![o] = "NEW"]
    /\ UNCHANGED <<allowed, queueVars, pay, adminVars>>

CommitOrder(o) ==
    /\ RequestGoes(o, "invoicing", "committed")
    /\ status' = [status EXCEPT ![o] = "PROCESS"]
    /\ UNCHANGED <<allowed, queueVars, pay, adminVars>>

\* A failing statement, a failing enqueue, a failing commit or a crash.  The
\* rows roll back; the jobs that were enqueued do not.
AbortOrder(o) ==
    /\ req[o] \in Running
    /\ req' = [req EXCEPT ![o] = "aborted"]
    /\ UNCHANGED <<status, allowed, queueVars, pay, adminVars>>

-----------------------------------------------------------------------------
(* The worker of the payment-expiration queue. *)

Expirable(o) ==
    /\ o \in expJobs
    /\ SlowRequests \/ req[o] \notin Running

ExpireOrder(o) ==
    /\ Expirable(o)
    /\ SetOrderStatus(o, "PROCESS", "CANCELED")
    /\ expJobs' = expJobs \ {o}
    /\ UNCHANGED <<req, allowed, invJobs, worker, attempts, pay, adminVars>>

\* The update took effect and the job is handled again all the same: the
\* answer of the database was lost, or the process stopped before the result
\* of the handler was stored.
ExpireOrderAgain(o) ==
    /\ Expirable(o)
    /\ SetOrderStatus(o, "PROCESS", "CANCELED")
    /\ UNCHANGED <<req, allowed, queueVars, pay, adminVars>>

-----------------------------------------------------------------------------
(* The worker of the telegram-payment queue. *)

TakeInvoiceJob(o) ==
    /\ o \in invJobs
    /\ attempts[o] < MaxAttempts
    /\ attempts' = [attempts EXCEPT ![o] = @ + 1]
    /\ WorkerGoes(o, "idle", IF allowed THEN "allowed" ELSE "refused")
    /\ UNCHANGED <<req, status, allowed, expJobs, invJobs, pay, adminVars>>

\* Mutant: the check of the answer falls through to cancelOrder.
BugSendThenCancel(o) ==
    /\ WorkerGoes(o, "allowed", "refused")
    /\ PayGoes(o, attempts[o], {"none"}, "sent")
    /\ UNCHANGED <<req, status, allowed, expJobs, invJobs, attempts, adminVars>>

SendInvoice(o) ==
    /\ WorkerGoes(o, "allowed", "answered")
    /\ PayGoes(o, attempts[o], {"none"}, "sent")
    /\ UNCHANGED <<req, status, allowed, expJobs, invJobs, attempts, adminVars>>

\* Telegram answers 400 to the invoice.
RefuseInvoice(o) ==
    /\ WorkerGoes(o, "allowed", "refused")
    /\ UNCHANGED <<req, status, allowed, expJobs, invJobs, attempts, pay,
                   adminVars>>

\* cancelOrder writes CANCELED over whatever the status is.
CancelRefused(o) ==
    /\ WorkerGoes(o, "refused", "answered")
    /\ UpdateOrderStatus(o, "CANCELED")
    /\ UNCHANGED <<req, allowed, expJobs, invJobs, attempts, pay, adminVars>>

\* Mutant: a handled job is not removed from its queue.
BugKeepJob(o) ==
    /\ WorkerGoes(o, "answered", "idle")
    /\ UNCHANGED <<req, status, allowed, expJobs, invJobs, attempts, pay,
                   adminVars>>

CompleteJob(o) ==
    /\ WorkerGoes(o, "answered", "idle")
    /\ invJobs' = invJobs \ {o}
    /\ UNCHANGED <<req, status, allowed, expJobs, attempts, pay, adminVars>>

\* An error of the handler reschedules the job, a crash leaves it in the
\* queue; either can come after the invoice went out or the order was canceled.
RescheduleJob(o) ==
    /\ worker[o] # "idle"
    /\ attempts[o] < MaxAttempts
    /\ worker' = [worker EXCEPT ![o] = "idle"]
    /\ UNCHANGED <<req, status, allowed, expJobs, invJobs, attempts, pay,
                   adminVars>>

-----------------------------------------------------------------------------
(* The payment itself: Telegram asks before it charges and tells           *)
(* afterwards.                                                             *)

\* Mutant: an order without a row passes.
BugMissingRowPasses(o, k) ==
    /\ status[o] \notin {"PAID", "CANCELED"}
    /\ PayGoes(o, k, {"sent"}, "checked")
    /\ UNCHANGED <<req, status, allowed, queueVars, adminVars>>

\* HandlePreCheckout turns away paid and canceled orders, and has no answer
\* for an order without a row.  It lets every other status pass.
PreCheckoutStatus(o, k) ==
    /\ status[o] \notin {"NONE", "PAID", "CANCELED"}
    /\ PayGoes(o, k, {"sent"}, "checked")
    /\ UNCHANGED <<req, status, allowed, queueVars, adminVars>>

\* Mutant: the order counts as paid as soon as the payment is approved.
BugPaidWhenApproved(o, k) ==
    /\ allowed
    /\ PayGoes(o, k, {"checked"}, "approved")
    /\ SetOrderStatus(o, "PROCESS", "PAID")
    /\ UNCHANGED <<req, allowed, queueVars, adminVars>>

PreCheckoutGate(o, k) ==
    /\ allowed
    /\ PayGoes(o, k, {"checked"}, "approved")
    /\ UNCHANGED <<req, status, allowed, queueVars, adminVars>>

\* The gate is closed, the handler fails, its answer is late, or the
\* customer's bank declines: the invoice can be paid another time.
PreCheckoutFails(o, k) ==
    /\ PayGoes(o, k, {"checked", "approved"}, "sent")
    /\ UNCHANGED <<req, status, allowed, queueVars, adminVars>>

Charge(o, k) ==
    /\ PayGoes(o, k, {"approved"}, "charged")
    /\ UNCHANGED <<req, status, allowed, queueVars, adminVars>>

\* Mutant: the status is written without looking at the old one.
BugMarkAnyPaid(o, k) ==
    /\ PayGoes(o, k, {"charged"}, "marked")
    /\ UpdateOrderStatus(o, "PAID")
    /\ UNCHANGED <<req, allowed, queueVars, adminVars>>

\* Mutant: old and new status are swapped in the call.
BugSwappedStatuses(o, k) ==
    /\ PayGoes(o, k, {"charged"}, "marked")
    /\ SetOrderStatus(o, "PAID", "PROCESS")
    /\ UNCHANGED <<req, allowed, queueVars, adminVars>>

\* First half of HandlePayment.
MarkPaid(o, k) ==
    /\ PayGoes(o, k, {"charged"}, "marked")
    /\ SetOrderStatus(o, "PROCESS", "PAID")
    /\ UNCHANGED <<req, allowed, queueVars, adminVars>>

\* Mutant: only payments that changed the status are announced.
BugAnnounceOnlyPaid(o, k) ==
    /\ PayGoes(o, k, {"marked"}, "done")
    /\ notified' = IF GetOrderFinds(o) /\ status[o] = "PAID"
                       THEN notified \union {o} ELSE notified
    /\ UNCHANGED <<req, status, allowed, queueVars, arrived, notices, erased>>

\* Second half.  At least one admin is assumed.
AnnouncePayment(o, k) ==
    /\ PayGoes(o, k, {"marked"}, "done")
    /\ notified' = IF GetOrderFinds(o) THEN notified \union {o} ELSE notified
    /\ UNCHANGED <<req, status, allowed, queueVars, arrived, notices, erased>>

\* The handler fails or the process stops, and Telegram does not ask again.
DropPayment(o, k) ==
    /\ Lossy
    /\ PayGoes(o, k, {"charged", "marked"}, "done")
    /\ UNCHANGED <<req, status, allowed, queueVars, adminVars>>

\* The process stopped before it acknowledged the update.
RedeliverPayment(o, k) ==
    /\ Lossy
    /\ PayGoes(o, k, {"marked", "done"}, "charged")
    /\ UNCHANGED <<req, status, allowed, queueVars, adminVars>>

-----------------------------------------------------------------------------
(* Buttons and commands.  Every admin has a copy of the message with its   *)
(* buttons, so a button can be pressed again.                              *)

NotifyOrderArrival(o) ==
    /\ o \in notified
    /\ arrived' = arrived \union {o}
    /\ UNCHANGED <<req, status, allowed, queueVars, pay, notified, notices,
                   erased>>

ConfirmReceipt(o) ==
    /\ o \in arrived
    /\ SetOrderStatus(o, "PAID", "SUCCESS")
    /\ UNCHANGED <<req, allowed, queueVars, pay, adminVars>>

\* The customer is told of the cancellation whether or not the update found a
\* paid order; looking up the chat or sending the message can fail.
CancelPaidOrder(o) ==
    /\ o \in notified
    /\ SetOrderStatus(o, "PAID", "CANCELED")
    /\ notices' \in {notices, notices \union {o}}
    /\ UNCHANGED <<req, allowed, queueVars, pay, notified, arrived, erased>>

SetOrderingAllowed(b) ==
    /\ allowed' = b
    /\ UNCHANGED <<req, status, queueVars, pay, adminVars>>

\* An admin deletes the dishes, or the restaurant, of a stored order.
EraseItems(o) ==
    /\ status[o] # "NONE"
    /\ erased' = erased \union {o}
    /\ UNCHANGED <<req, status, allowed, queueVars, pay, notified, arrived,
                   notices>>

-----------------------------------------------------------------------------
RequestStep(o) ==
    \/ BeginOrder(o) \/ AddExpiration(o) \/ EnqueueInvoice(o)
    \/ CommitOrder(o) \/ AbortOrder(o)

ExpirationStep(o) == ExpireOrder(o) \/ ExpireOrderAgain(o)

InvoiceStep(o) ==
    \/ TakeInvoiceJob(o) \/ SendInvoice(o) \/ RefuseInvoice(o)
    \/ CancelRefused(o) \/ CompleteJob(o) \/ RescheduleJob(o)

PaymentStep(o, k) ==
    \/ PreCheckoutStatus(o, k) \/ PreCheckoutGate(o, k)
    \/ PreCheckoutFails(o, k) \/ Charge(o, k) \/ MarkPaid(o, k)
    \/ AnnouncePayment(o, k) \/ DropPayment(o, k) \/ RedeliverPayment(o, k)

ButtonStep(o) ==
    \/ NotifyOrderArrival(o) \/ ConfirmReceipt(o) \/ CancelPaidOrder(o)
    \/ EraseItems(o)

Next ==
    \/ \E o \in Orders :
        \/ RequestStep(o) \/ ExpirationStep(o) \/ InvoiceStep(o)
        \/ ButtonStep(o)
        \/ \E k \in Copies : PaymentStep(o, k)
    \/ \E b \in BOOLEAN : SetOrderingAllowed(b)

Spec == Init /\ [][Next]_vars

\* Workers poll for ever, and the bot handles the updates it has fetched.
\* Nobody owes the system a payment, a click or an open gate.
WorkersRun(o) ==
    /\ WF_vars(ExpireOrder(o))
    /\ WF_vars(TakeInvoiceJob(o))
    /\ WF_vars(SendInvoice(o) \/ RefuseInvoice(o))
    /\ WF_vars(CancelRefused(o))
    /\ WF_vars(CompleteJob(o))

BotRuns(o, k) == WF_vars(MarkPaid(o, k)) /\ WF_vars(AnnouncePayment(o, k))

WorkersAndBotRun ==
    \A o \in Orders : WorkersRun(o) /\ \A k \in Copies : BotRuns(o, k)

FairSpec == Spec /\ WorkersAndBotRun
-----------------------------------------------------------------------------
(* Properties. *)

WasCharged(o) == \E k \in Copies : pay[o][k] \in Charged

ChargedOrders == {o \in Orders : WasCharged(o)}

\* No customer approves or pays an invoice of an order whose transaction
\* rolled back, although its invoice job outlives the rollback: the missing
\* row stops HandlePreCheckout (bot/controller/order.go:129).
ChargedOrderExists ==
    \A o \in Orders :
        (\E k \in Copies : pay[o][k] \in {"checked", "approved"} \union Charged)
            => status[o] # "NONE"

\* An order counts as paid or received only if its customer was charged,
\* whatever was retried, redelivered or canceled on the way.
PaidWasCharged ==
    \A o \in Orders : status[o] \in {"PAID", "SUCCESS"} => WasCharged(o)

\* The admins learn of a payment only once it is in the table, hence their
\* buttons never act on an order that is still open; a customer is told of an
\* arrival or a cancellation, and an order is received, only after that.
\* HandlePayment updates before it notifies (bot/controller/order.go:62-73),
\* and the conditional update may have found the order no longer open.
NoticesFollowPayment ==
    /\ \A o \in Orders, k \in Copies :
        pay[o][k] = "marked" => status[o] \notin {"NONE", "PROCESS"}
    /\ \A o \in notified :
        status[o] \notin {"NONE", "PROCESS"} /\ WasCharged(o)
    /\ arrived \union notices \subseteq notified
    /\ \A o \in Orders : status[o] = "SUCCESS" => o \in arrived

\* An open order always has a job that will expire it, although the job is
\* stored apart from the order and is removed apart from it.  It holds as long
\* as no transaction outlives the expiration delay.
OpenOrderWillExpire ==
    SlowRequests \/ \A o \in Orders : status[o] = "PROCESS" => o \in expJobs

\* cancelOrder (bot/payment_bot.go:90) overwrites a payment only when the
\* invoice job is handled again after an invoice of the order went out.
PaidOverriddenOnlyOnRetry ==
    [][\A o \in Orders :
        /\ status[o] \in {"PAID", "SUCCESS"}
        /\ status'[o] = "CANCELED"
        /\ worker'[o] # worker[o]
        => attempts[o] > 1]_vars

\* The handlers, workers and retries together keep what OrderStatus promises.
\* When no invoice job is handled twice, nothing overwrites a received order.
Promise ==
    INSTANCE OrderStatus WITH
        charged <- ChargedOrders,
        Overridable <- IF MaxAttempts = 1 THEN {} ELSE {"SUCCESS"}

Implements == Promise!Spec

\* No order stays open for ever (FairSpec, no slow request).
Settles == Promise!Settles

\* The queue of invoices drains: every job is completed, whether its order
\* was stored, rolled back, paid or canceled in the meantime.
InvoiceJobEnds == \A o \in Orders : o \in invJobs ~> o \notin invJobs

\* A customer who was charged is served by somebody: the admins learn of the
\* payment even if the order expired meanwhile, unless its dishes are gone.
ChargesAnnounced ==
    \A o \in Orders, k \in Copies :
        pay[o][k] = "charged" ~> o \in notified \/ o \in erased

-----------------------------------------------------------------------------
(* What messages of the bot say, and the code does not keep. *)

\* "Заказ №%s отменён" (bot/service/user_order.go:119): a customer told that
\* the order is canceled has a canceled order.
CancelNoticeTruthful ==
    \A o \in Orders : o \in notices => status[o] = "CANCELED"

\* "order already paid" (bot/controller/order.go:136): an invoice that a retry
\* sent once more is turned away when its order was paid, also when the order
\* was received since.
AlreadyPaidIsRefused ==
    [][\A o \in Orders, k \in Copies :
        pay[o][k] = "sent" /\ pay'[o][k] = "checked"
            => status[o] \notin {"PAID", "SUCCESS"}]_vars
=============================================================================

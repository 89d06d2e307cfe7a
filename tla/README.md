# Verification of dishes-service-backend

TLA+ models of the service, TLC runs that check them on small instances, and
TLAPS proofs of the main properties for every value of the constants. Paths
below are relative to `src/`.

## 1. Inventory

The service takes orders for dishes over HTTP, lets a Telegram bot collect the
payment, and lets admins run everything from the same bot. All state is in one
PostgreSQL database, except the images of dishes, which are files of a storage
service, and the invoices and menus, which Telegram has.

| Component | State | Operations | Talks to | What is hard |
|---|---|---|---|---|
| Order service (`service/order.go`, `repository/order.go`) | `orders`, `order_items` | `ProcessOrder`, `SetOrderStatus`, reads | payment service inside its transaction | jobs become visible before the commit |
| Payment service (`service/payment/payment.go`) | none | `Process` | both queues | two enqueues, neither in the transaction |
| Expiration queue (`service/payment/expiration/`) | jobs of `payment-expiration` | `AddOrder`, `Handle` | `SetOrderStatus` | delay against slow requests, repeated handling |
| Invoice queue (`service/payment/telegram/`) | jobs of `telegram-payment` | `Process`, `Handle` | payment bot | rescheduling after the invoice went out |
| Payment bot (`bot/payment_bot.go`) | none | `ProcessPayment`, `cancelOrder` | Telegram, `UpdateOrderStatus` | an unconditional cancellation |
| Bot order controller (`bot/controller/order.go`) | none | `HandlePreCheckout`, `HandlePayment`, buttons, gate commands | order service, notifications | status read before the charge, lost and repeated updates |
| Order notifications (`bot/service/user_order.go`) | messages with buttons | `NotifySuccessPayment`, `NotifyOrderArrival`, `CancelPaidOrder` | Telegram | every admin has a copy of the buttons |
| Ordering gate (`service/order.go`) | `allow_ordering_audit` | `SetOrderingAllowed`, `IsOrderingAllowed` | | read, check, write; UNIQUE `end_period` |
| Dishes (`service/dish.go`, `repository/dish.go`, `repository/file.go`) | `dish`, `dish_categories`, image files | add, edit, delete, lists | storage service | two stores without a common transaction |
| Categories, restaurants (`repository/dish_category.go`, `repository/restaurant.go`) | `categories`, `restaurants` | add, rename, delete, lists | cascade to dishes and order items | concurrent insertion of a name; renames that swap names; deletions that cascade into an edit |
| Transactions (`transaction/manager.go`, `assembly/assembly.go`) | row locks, one pool of connections | begin, commit, roll back | PostgreSQL | a second connection while the first is held |
| Users and admins (`service/user.go`, `repository/user.go`, `service/events/`, `bot/routes/register.go`) | `users`, `users_telegrams`, command menus | register, add and remove admins | Telegram | role, chat and menu change one after the other |
| Authentication (`service/auth.go`, `routes/middlewares.go`) | none (tokens) | login, refresh, role | | a token keeps the role of the login |
| CSV export, HTTP router, assembly, configuration | none | reads and wiring | | formatting of amounts |

What makes each of them correct, in a sentence: an order counts as paid only
after a charge and is settled in the end; nobody is told what is not so; the
gate stands as it was last put; a dish shows an image that exists and the
categories it was given, and files are not forgotten; a name belongs to one row,
and who adds it gets that row; an admin's role, chat and menu agree; amounts are
the sums they say they are; a role ends; transactions do not wait for ever. `PROJECT.json` lists every hazard at its line.

## 2. Modules

    OrderStatus            abstract: what the status of an order may do
      ^ implemented by
    OrderLifecycle         request, two queues, payment, buttons, gate
      OrderLifecycleProofs proofs
    OrderingGate           allow_ordering_audit and its concurrent calls
      MCOrderingGate, OrderingGateProofs
    DishImages             rows and image files of dishes
      MCDishImages, DishImagesProofs
    UserAdmin              users, chats, roles and the menus of commands
      MCUserAdmin, UserAdminProofs
    AuthTokens             logins, refreshes, and what the tokens still allow
      MCAuthTokens, AuthTokensProofs
    OrderPricing           int32 lines and totals, and how they are shown
      MCOrderPricing, OrderPricingProofs
    CatalogTransactions    locks of rows and names, and connections
      MCCatalogTransactions, CatalogTransactionsProofs
    CategoryNames          unique names of categories and restaurants
      MCCategoryNames, CategoryNamesProofs

Operators called `Bug...` are deliberate mistakes. Each stands before the
definition it would replace and belongs to a property that must notice it
(`mutants` in `PROJECT.json`); no specification uses them.

### OrderLifecycle

`req[o]` is how far `ProcessOrder` has come; the row appears in `status` with
the commit (`CommitOrder`), while `AddExpiration` and `EnqueueInvoice` take
effect at once, because the job client has a connection of its own
(`assembly/assembly.go:64`). `AbortOrder` rolls the rows back and leaves the
jobs. `SetOrderStatus` and `UpdateOrderStatus` are the two writes of
`repository/order.go`, with their silence about rows that did not match.

`worker[o]` is the handler of the invoice job between its steps: the gate was
read (`TakeInvoiceJob`), the invoice was sent or refused (`SendInvoice`,
`RefuseInvoice`), the order was canceled (`CancelRefused`), the result was
stored (`CompleteJob`) or the job comes again (`RescheduleJob`: an error or a
crash, possibly after the invoice went out). `pay[o][k]` is the invoice that
attempt `k` sent: `HandlePreCheckout` reads the status and then the gate
(`PreCheckoutStatus`, `PreCheckoutGate`), Telegram charges (`Charge`),
`HandlePayment` updates and then announces (`MarkPaid`, `AnnouncePayment`).
The update can be lost or come again (`DropPayment`, `RedeliverPayment`).

The buttons of the messages are enabled for as long as somebody may still hold
one: the keyboard is removed from the message that was clicked only, and each
admin has a message of his own. Deleting dishes or restaurants erases an
order's items by cascade (`EraseItems`), after which `GetOrder` finds nothing.

`OrderStatus` states the promise: placed once, paid after a charge, received
after a payment, canceled before it is received. The code keeps it in full when
no invoice job is handled twice; otherwise `cancelOrder` may also overwrite a
received order (`Overridable = {"SUCCESS"}`).

### OrderingGate

`SetOrderingAllowed` is one transaction under READ COMMITTED: `ReadSwitch` or
`NothingToDo`, then `InsertAllowOrderingAudit`, or `ChooseOpenPeriods` and
`SetOrderingAuditEndPeriod`. The choice of the rows is apart from their update
because another call can commit between the two. A statement that gives two
rows the same `end_period` fails on the UNIQUE constraint. `answer` is what the
last call came to; a failing call answers with an error, and may have taken
effect when only the answer of the commit was lost. `overlapped` is a history
variable: whether two calls were ever under way at once, which depends on the bot
library. So are `raced`, whether a call ever found ordering closed while another one
that had found it closed was about to open it, and `seen[c]`, how the switch has
stood since call `c` began (`Watch`). `OrderLifecycle` takes the
gate as one boolean that changes at any time.

### DishImages

A call is an add, an edit or a delete of a dish, chosen in the initial state,
and its id is also the id of the image it would upload (each makes a uuid).
`UpdateRow` takes the row lock that is held to the end of the transaction
(`Locked`); `ReadImage` reads the committed row through another connection;
`DeleteFile` and `UploadFile` change the storage service at once; `CommitDish`
changes the row. `DeleteDish` reads, removes the file, and deletes the row
without a transaction. `Fail` ends a call after any step.

### UserAdmin

A user is a row of `users`, known by the username it was registered with
(UNIQUE); `chat` is its row of `users_telegrams`, and each person has one private
chat (a bot that is used from group chats is not modelled). `Register` refuses a
username that is taken, and silently leaves a new user without a chat when the
chat is taken, as happens to a person who registers again under a new username.
The user `DELETED` of the migration never has one.
`call[c]` is a handler of a command: `AddAdmin` and `RemoveAdmin` set the role
(`SetUserAdminStatus`), look the chat up (`GetUserChatIdByUsername`) and change
its menu (`ChangeMenu`), each of which may fail; the secret sets the role of the
chat it comes from (`AddAdminChatId`). At a start and for each configuration
`RegisterRoutes` reads the admins, clears the commands and sets those of one
admin after the other; an error of it is fatal. Meanwhile the old mux serves
(`assembly/assembly.go:72-82`), so commands and registrations overlap, and so may
two commands. Two history variables tell of it: `crossed`, the users that
commands were about during this registration, and `tangled`, the users about whom
two commands, or a command and a registration, ever were under way at once.
Whether the bot library's clearing reaches the menus of single chats is left
open: `ClearAllCommands` does either. Since people change their usernames in
Telegram as they like, `Register` takes any username that no user has.

### AuthTokens

`role` is the user's role in the database. A device holds what it was last given:
`data`, which Telegram signed when the application was opened, and the two tokens.
`request` is its login (`VerifyTelegramInitData`, `GetUserByTelegramId`,
`LoginByTelegram`) or its refresh (`ParseRefreshToken`, `RefreshAccessToken`), and
admins change roles between any two of these steps. `AdminAuthToken` and
`UserAuthToken` are the middlewares. Time is counted in hours, as the configuration
does; `RequestTime` is the longest that a request takes. `wasAdmin` and `present`
are history variables. Signatures are taken to be unforgeable: a device has only
tokens and data that it was given.

### OrderPricing

One request after its counts were found positive. `GetDishesByIds` is the one
statement that reads all prices; `AddItem` is one turn of the loop, in any order,
with Go's wrapping products and sums (`Wrap`); `InsertOrder` happens if the
CHECKs of `orders` and `order_items` and the reference to `dish` hold
(`Acceptable`), or else the request is refused. Admins change prices and delete
dishes at any time (`ChangePrice`). `exact` is a history variable: the sum that
unbounded integers would give. The amounts shown later are functions of what was
stored: `TotalPrice`, and the invoice's sum (`InvoiceAmount`).

### CatalogTransactions

A call is one transaction (or one statement that is its own): an edit, an addition
or a deletion of a dish, the addition, the renaming or the deletion of a category
or a restaurant, the items of an order, or a job. `step` is the statement
it is at. A statement first locks, row by row and in any order, the rows in
`Needs`: those that it is about, those that its foreign keys refer to
(`FOR KEY SHARE`), and those that a deletion cascades to; `Mode` is the strength
of the lock. A rename has locked its row when it comes to write the name
(`RenameRow`, then step "naming"): names are unique, so it waits for whoever has
written the name or would give it up with its commit (`Gives`), and then goes on
(`WriteName`) or fails if another row has the name (`Taken`). An addition waits in
the same way, and leaves a name that is taken alone (`KeepName`). `LockRow` and
`Wait` are PostgreSQL's, for rows as for names. Locks stay until the
transaction ends (`Ends`), and what it did is seen at its commit (`StoreDish`,
`RemoveRows`, `StoreName`). An edit replaces the links that it found and locked
when it deleted them, not whatever links there are at its commit. `EndDeadlock` ends
any transaction of a circle.

An edit looks the old image up (`service/dish.go:237`), an order looks for its
chat and adds its two jobs (`service/order.go:219`), and a job's handler writes
the status, each through the pool while the transaction has a connection of its
own: `TakeSecond`. So does an edit of a dish that is gone, unless it has
categories, whose insertion fails before (`service/dish.go:196`); it fails after the
lookup (`service/dish.go:242`). With as many such transactions as connections everybody
waits, and PostgreSQL sees no circle. The size of the pool is a variable that never
changes, so that one run checks all of them. `StuckFillsPool` says precisely when
it happens; that it does is no violation of anything the repository says.

`CirclesHaveACause` says which circles there are: a deletion that cascades is in
them, or renames that swap names (`Swap`). Both kinds occur in the run. The ordering
switch and the registration of users are left out: they wait for none of these rows
and names, and take no second connection.

### CategoryNames

Categories and restaurants have the same code, so one table stands for both.
A call is one statement. `Begin` takes its snapshot; `LockRow` and `WriteName`
are the two halves of an UPDATE, the row and the unique index; `InsertRow` is
`INSERT ... ON CONFLICT DO NOTHING`, which waits for whoever is about to take or
to free the name (`Takers`) and then sees what was committed; `Found` is the
UNION of its row and the snapshot's. The answer of an add may therefore be the id
of a row that was renamed or deleted meanwhile, one of two ids, or none
(`noRows`, an error 500 of the service). `borne` is a history variable: the rows
that bore the name since the call began.

## 3. Runs

| Run | Instance | Shows |
|---|---|---|
| `OrderSafety` | 1 order, 3 attempts, slow requests, lossy bot | types; no charge without an order; no PAID or SUCCESS without a charge; notices only after payment; a payment is overridden only by a second handling; `OrderStatus` with a weak end |
| `OrderLiveness` | 1 order, 2 attempts, fair | open orders have their expiration job and settle; the invoice queue drains; a charge reaches the admins |
| `OrderingGate` | 3 calls, 4 periods | a second period is open only after two calls both found ordering closed before either opened it; until calls overlap, ordering stands as last answered; with overlaps, nobody is told of a state that the switch did not have during the call |
| `DishImages` | 4 calls on a dish | a missing image has a failed or running call as its cause; edits leak no file; a committed image is stored |
| `AdminMenus` | 2 people, 3 usernames, 2 handlers | exactly the admins have the admin's menu, up to failed calls and to users about whom commands overlapped; a restart repairs what failed or overlapped before it; no role changes hands |
| `AuthTokens` | 2 people, 1 device, tokens of 1 and 2 hours, data of 1 hour, 7 hours | an admin's rights and a person's access end with the two tokens, whatever is refreshed or logged in again |
| `OrderPricing` | 3 dishes, 3 prices, counts up to 2, 9-bit integers | a total that fits is the true one at prices of one moment; invoice and total agree modulo the width |
| `ShownTotalPrice` | the same | a violation, see below |
| `CatalogTransactions` | 3 calls, 1 dish, 1 category, 2 restaurants, 2 names, pools of 1 to 3 | a circle has the deletion of a category or a restaurant, or a swap of names, in it; everybody is stuck only with a full pool; a dish has the categories it was given |
| `CategoryNames` | 3 calls, 3 names, 4 ids | an add answers with a row that bore the name; errors are explained by a committed row; two adds agree |
| `CancelNotice`, `PaidAgain` | 1 order, 1 or 2 attempts | violations, see below |

Bounds. Orders share nothing but the gate, so one order shows what a single
order can suffer; that nothing leaks from one to another is left to the proofs,
which hold for any set of orders. `MaxAttempts` bounds how often an invoice job is handled;
the second attempt is where duplicates appear, the third allows two duplicates
and a cancellation. The last attempt is not rescheduled: in `OrderLiveness` this
says that retries succeed in the end, in the other runs it only ends the
exploration. `MaxPeriods` bounds the rows ever inserted; four let a switch open
and close three times. Dishes are independent, so one is enough for TLC, and
four calls are an add, two edits and a delete. Two people are enough for one to
register a username that the other one gave up, and of the three usernames one is
that of `DELETED`, which leaves two to register again with; handlers are used
again and again, until they fail, so two of them are all that can be under way at
once, not all that ever happens. In `CatalogTransactions` a circle of three is
the longest that is new (an edit between two deletions); two restaurants let an
edit move its dish, and two names let two renames swap them; a pool of three is one
that three calls fill and that has one connection to spare with two. Orders of two
dishes, and circles of more calls, are left to the proofs. In `CategoryNames` three calls are an add, one that takes the name
and one that frees it; the ids bound the rows that are ever inserted. In `AuthTokens` devices share
nothing but the roles, so one is enough, and it can pass from one person to the
other; the 7 hours are as long as it takes for data, a refresh token and an access
token to end one after the other, with an hour for each request. In `OrderPricing` the integers are
as narrow as it takes for lines to wrap, for sums of lines that do not wrap to
wrap, and for wrapped totals to be positive again. The proofs have no such bounds.

Deadlock is checked except in `DishImages`, `CatalogTransactions` and
`CategoryNames`, where all calls may be done.

Fairness (`WorkersAndBotRun`, which is `WorkersRun` of each order and `BotRuns` of
each invoice). The two workers poll every five seconds for as
long as the process lives (`assembly/locator.go:98-104`, `:143-149`) and jobs
are durable, so an enabled handler step is taken in the end (weak fairness on
each step). The bot handles the updates it fetched (`MarkPaid`,
`AnnouncePayment`). Nothing is assumed of customers, admins, the gate or
requests. `OrderLiveness` also assumes what the constants say: no transaction
outlives the expiration delay (at least one minute, `conf/remote.go:40`; with
`SlowRequests` an order may stay open for ever), and no update is lost.

### Disagreements found

- `CancelNotice`: the customer of a received order is told "Заказ №… отменён"
  (`bot/service/user_order.go:119`), since the notice does not depend on
  whether the conditional update matched.
- `PaidAgain`: "order already paid" (`bot/controller/order.go:136`) is answered
  for PAID, not for SUCCESS, so a second invoice of a received order is charged.
- `ShownTotalPrice`: `TotalPrice` of the customer's orders multiplies the price
  of the line by the count once more (`service/order.go:252`); the CSV report
  calls the same stored price "итоговая цена" (`service/csv_exporter.go:49`).

Two more can be read off the models and have no run: an order that expires
between the approved pre-checkout and the charge is charged and stays canceled,
although "order canceled" (`bot/controller/order.go:142`) refuses payments of
canceled orders; and "пользователь с ником '%s' не найден"
(`bot/controller/user.go:84`) answers an `AddAdmin` that has already made the user
an admin, when the user has no chat.

A total that does not fit is stored wrapped if it wraps to a positive number
(`orders.total` is a BIGINT, but the service computes it in int32). No text of
the repository says otherwise, so this is a condition of `ExactWhenItFits` and
not a violation.

## 4. Proofs

`OrderLifecycleProofs`, for every set of orders, every `MaxAttempts` and every
environment: `TypeOK`, `ChargedOrderExists`, `PaidWasCharged`,
`NoticesFollowPayment`, `OpenOrderWillExpire`, `PaidOverriddenOnlyOnRetry`, and
`Spec => Implements`. None of the invariants is inductive alone. `IInv` adds:

- `NoRowBeforeCommit`: without it an uncommitted order could be expired or
  paid;
- `ExpirationEnqueued`: the job is there before the commit, and without slow
  requests it is not handled before it, hence `OpenOrderWillExpire`;
- `AttemptsCounted`: an invoice of attempt `k` exists only if `k` attempts were
  begun, hence a worker that cancels a paid order is in a second attempt.

The second half of the module is about progress, for every set of orders.
`OrdersSettle` (without slow requests) and `ChargesReachAdmins` (without lost
updates) prove `Settles` and `ChargesAnnounced` from the fairness of
`WorkersAndBotRun`; `InvoiceAttemptsEnd` proves that each attempt at an invoice job
ends, whatever the bound on the attempts, and `InvoiceJobsEnd` chains up to three of
them, as many as the runs allow, to `InvoiceJobEnds`. The argument is the same each
time: in the state that waits, the step that ends the wait is enabled, no other
step leaves that state but forward (`InvoiceMoves`, `ChargeMoves`, `AttemptMoves`),
and the step itself leaves it. That the workers find the guards as they need them is
part of it (`JobsCoherent`: a job that waits has an attempt left, only a job in the
queue is handled, and only its request puts it there). These theorems have one
hypothesis that is not proved: `GuardsEnable` says that the guards of these steps
are all that ENABLED asks for, that is, that each of their actions has a successor
once its guard holds, and changes something. tlapm has no rule for ENABLED. It can
be read off the actions: beside its guard each has nothing but assignments of primed
variables, one of which changes a step. TLC does not need it: it checks
the liveness properties themselves.

`OrderingGateProofs`: a call that is about to open a period found none open, and
unless two such calls raced nobody else is about to open one (`OpensAlone`), hence
`AtMostOneOpen`.
Until calls overlap, a call is alone and what it read still holds when it writes
(`Alone`, `ReadStillHolds`), hence `AnswerStands`. For any number of concurrent
calls, a call that is under way has seen how the switch stands, and one that chose the
periods to close chose all that are open or has seen it closed (`WatchKeeps`), hence `AnswersWereTrue`.

`DishImagesProofs`: the row lock keeps edits apart (`EditsExclude`), hence what
an edit read stays true until it commits (`EditsKeepTheirView`); with
`ImagesAreCommitted`, nobody removes an image that is still being uploaded.

`UserAdminProofs`: the chats of users never change hands (`ChatsOfUsers`,
`OneUserPerChat`), which makes roles personal whatever overlaps. The history
variables miss no overlap (`Apart`): two calls about one user have tangled it, and
one that meets a registration has crossed it. Hence for any other user a call finds
the role as it has set it (`RoleAsSet`) and gives the chat it found (`FoundChat`)
the right menu. `AdminsHaveMenu` carries the promise through a restart: what was
read at its start is still to be set, is set, or was crossed.

`AuthTokensProofs`: each token bears witness of its login (`Given`): it ends at
most so long after its user was an admin, and was there, as the tokens and requests
before it can have lasted. `Checked` carries this over the steps of a request, and
`GivenStays` over everything that happens later, because the last hour as an admin
and the last visit only move on (`Onward`).

`OrderPricingProofs`: `AddedUp` says that while the true sum fits, the total is it,
and that each line is at most the sum; since prices are positive a sum that fits has
never wrapped before (`WrapIsInt32`, `ProductIsNat`), hence `ExactWhenItFits` for
every width. `InvoiceAsksForTotal` is about a sum over a set, which `MapThenSumSet`
computes with a recursive function over its subsets. The library's induction
theorems take an operator as a parameter, but the well-founded order of strict
subsets has a first-order form (`WFMin`): a set of sets that is not empty has a
smallest member (`SmallestSet`). With it, `SumsAgree` and `SumsExist` show that
there is exactly one function that solves the equation of the sums (`SumEquation`),
whichever element it takes out first, so that the sum of a set is the sum of the
rest and of any one element (`SumOfRest`). `WrapOfSum` says that wrapping every step
of a sum or only the result comes to the same. Hence `LinesMakeTotal`: the total is
the wrapped sum of the lines added so far, and `InvoiceIsTotal`: the invoice's sum,
which Telegram does not wrap, and the total agree in their low bits, and equal the
true sum if that fits.

`CatalogTransactionsProofs`: `LocksAgree` says that no two calls hold locks that
exclude each other, `HeldByKind` which rows and names a call of a kind holds.
`KindsAtSteps` says which statements a kind of call comes to, and `EditsHold`, `CascadesHold` and
`NamingsHold` what it holds there. For `CirclesCaused`: in a circle without a
cascade everybody who is waited for waits himself, with something in his hands; an edit
holds its dish before anything else, and what else it holds is shared or belongs to
that dish, orders and additions hold what is shared or new, so that only renames are
left, which have locked their rows and wait for a name that one of them gives up
(`OneWanted`, `KeysAreNoRows`, `CircleHasCause`). `EditsHold` and `CascadesHold` also say that
a commit still has the rows it writes and removes, and `LinksRefer` that links belong
to dishes and categories that are there, hence `CategoriesAsGiven`,
whoever was ended in between. For `OnlyThePoolSticks`: if all transactions waited for
locks they would be a circle themselves.

`CategoryNamesProofs`: `RowsHeld` and `NamesTaken` say that a name that is about to
be written is nobody else's, hence `NamesUnique` and `AddsAgree`; `BorneNow` and
`RowMet` tie the history to the snapshot and to the row that is inserted, hence
`AnswerWasTrue`; `ErrorsExplained` and `AnswersLast` carry this to the answers,
which stay. Which circles there are among such calls is in `CatalogTransactions`.

The assumptions are the ASSUMEs of the modules: the bounds are natural numbers,
the switches booleans, prices are positive and at most the largest integer
(`validate:"gte=800"`, `domain/dish.go:23`), the dishes are finitely many
(`DishesAssumption`), and the ids of calls are no reserved words.

Only model-checked: `InvoiceJobEnds` for more than three attempts, which would be an
induction over temporal formulas. Neither: `GuardsEnable`, see above. All
properties of the passing runs are stated by a theorem.

## 5. Assumptions about the environment

- bgjob (external): a job is durable, locked while it is handled and removed
  when its result is stored. It may be handled again after a crash.
- PostgreSQL runs transactions under READ COMMITTED. It locks the rows that a
  statement changes, deletes or refers to until the transaction ends, ends one
  transaction of a circle of waiting ones, and lets `ON CONFLICT DO NOTHING` wait
  for a transaction that is about to commit the same key.
- The pool gives its connections to one caller each; a caller waits for a free one.
- Whether the bot framework handles updates one after the other is not visible
  in this repository (the shipped configuration fetches one at a time,
  `conf/default_remote_config.json`); `overlapped`, `crossed` and `tangled` tell
  the two answers apart.
- There is at least one admin when a payment is announced.
- Telegram answers an invoice with 400 or accepts it, asks before it charges,
  and charges only after an approval.
- Dishes are edited or deleted only after they were added.
- The configuration gives Telegram's data a lifetime (`conf/remote.go:46`); without
  one `verifyTelegramInitData` would not look at their age (`service/auth.go:185`).
- The jwt library (external) refuses expired tokens; the server and Telegram agree
  on the time.

## 6. Not modelled

- CSV export (`service/csv_exporter.go`): a read. Two things about it are listed
  as hazards and left to a unit test and to a query: `%d.%d` prints 10.05 as
  10.5, and the report joins the dishes that are left, so the lines of a deleted
  dish are missing from an order whose total has them.
- The listings of dishes, categories, restaurants, users and orders: single
  statements that change nothing.
- Router, controllers and assembly beyond the requests, the middlewares, the
  reception of a configuration and the pool: tables and wiring.
- The domain types, configuration loading, logging and the wording of messages.
- Signatures: tokens and Telegram's data are unforgeable by assumption.
- What the bgjob library does inside, dead-letter queue included: the code never
  enqueues a payload that does not parse.

Left for later: the gate's periods inside `OrderLifecycle` as a refinement of its
boolean, and the composition of `CatalogTransactions` with `OrderLifecycle`, whose
products of states are beyond TLC at sizes where they say something new; the
proofs treat each for any number of calls.

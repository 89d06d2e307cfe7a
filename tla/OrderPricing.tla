---------------------------- MODULE OrderPricing ----------------------------
(***************************************************************************)
(* What an order costs.  Prices and counts are int32 and so are their     *)
(* products and the total, which wrap around without notice; what the     *)
(* database accepts is decided by the CHECKs of its tables.  Later the    *)
(* order is shown in two places: in Telegram's invoice, and to its        *)
(* customer over HTTP.                                                     *)
(***************************************************************************)
EXTENDS Integers, FiniteSets, FiniteSetsExt

CONSTANTS
    Dishes,
    Prices,     \* the prices a dish may have, in kopecks
    MaxCount,   \* bound on the portions of a dish in one request
    MaxInt      \* the largest int32

ASSUME DishesAssumption == IsFiniteSet(Dishes)
ASSUME PricesAssumption == Prices \subseteq 1..MaxInt
ASSUME MaxCountAssumption == MaxCount \in 0..MaxInt
ASSUME MaxIntAssumption == MaxInt \in Nat \ {0}

VARIABLES
    price,      \* dish.price, or 0 where there is no row
    count,      \* the items of the request; a dish it does not name has 0
    read,       \* the prices that GetDishesByIds returned
    left,       \* the items that the loop has not come to
    line,       \* order_items.price
    total,      \* orders.total
    exact,      \* the same sum without a limit (a history variable)
    step        \* how far the request has come

vars == <<price, count, read, left, line, total, exact, step>>

order == <<count, read, left, line, total, exact, step>>

Int32 == -(MaxInt + 1)..MaxInt

\* Go's int32 keeps the low bits of a result.
Wrap(n) ==
    IF n \in Int32 THEN n
    ELSE ((n + MaxInt + 1) % (2 * (MaxInt + 1))) - (MaxInt + 1)

Items == {d \in Dishes : count[d] > 0}

TypeOK ==
    /\ price \in [Dishes -> Prices \union {0}]
    /\ count \in [Dishes -> 0..MaxCount]
    /\ read \in [Dishes -> Prices \union {0}]
    /\ left \subseteq Items
    /\ line \in [Dishes -> Int32]
    /\ total \in Int32
    /\ exact \in Nat
    /\ step \in {"new", "adding", "stored", "refused"}

Init ==
    /\ price \in [Dishes -> Prices \union {0}]
    /\ count \in [Dishes -> 0..MaxCount]
    /\ read = [d \in Dishes |-> 0]
    /\ left = {}
    /\ line = [d \in Dishes |-> 0]
    /\ total = 0
    /\ exact = 0
    /\ step = "new"

Refuse ==
    /\ step' = "refused"
    /\ UNCHANGED <<price, count, read, left, line, total, exact>>

\* One statement reads all the prices; ErrDishNotFound if a dish is missing.
GetDishesByIds ==
    /\ step = "new"
    /\ \A d \in Items : price[d] # 0
    /\ step' = "adding"
    /\ read' = [d \in Dishes |-> IF d \in Items THEN price[d] ELSE 0]
    /\ left' = Items
    /\ UNCHANGED <<price, count, line, total, exact>>

DishNotFound ==
    /\ step = "new"
    /\ \E d \in Items : price[d] = 0
    /\ Refuse

\* Mutant: the price is looked up again, item by item.
BugReadAgain(d) ==
    /\ step = "adding"
    /\ d \in left
    /\ left' = left \ {d}
    /\ line' = [line EXCEPT ![d] = Wrap(count[d] * price[d])]
    /\ total' = Wrap(total + Wrap(price[d] * count[d]))
    /\ exact' = exact + count[d] * read[d]
    /\ UNCHANGED <<price, count, read, step>>

\* Mutant: the total forgets the count.
BugCountOnce(d) ==
    /\ step = "adding"
    /\ d \in left
    /\ left' = left \ {d}
    /\ line' = [line EXCEPT ![d] = Wrap(count[d] * read[d])]
    /\ total' = Wrap(total + read[d])
    /\ exact' = exact + count[d] * read[d]
    /\ UNCHANGED <<price, count, read, step>>

\* Mutant: the product is not cut to int32.
BugWideLine(d) ==
    /\ step = "adding"
    /\ d \in left
    /\ left' = left \ {d}
    /\ line' = [line EXCEPT ![d] = count[d] * read[d]]
    /\ total' = Wrap(total + read[d] * count[d])
    /\ exact' = exact + count[d] * read[d]
    /\ UNCHANGED <<price, count, read, step>>

\* One turn of the loop over the items, in the order of a map.
AddItem(d) ==
    /\ step = "adding"
    /\ d \in left
    /\ left' = left \ {d}
    /\ line' = [line EXCEPT ![d] = Wrap(count[d] * read[d])]
    /\ total' = Wrap(total + Wrap(read[d] * count[d]))
    /\ exact' = exact + count[d] * read[d]
    /\ UNCHANGED <<price, count, read, step>>

\* The CHECKs of orders and order_items, and the reference to dish.
Acceptable ==
    /\ total > 0
    /\ \A d \in Items : line[d] > 0 /\ price[d] # 0

InsertOrder ==
    /\ step = "adding"
    /\ left = {}
    /\ Acceptable
    /\ step' = "stored"
    /\ UNCHANGED <<price, count, read, left, line, total, exact>>

RefuseOrder ==
    /\ step = "adding"
    /\ left = {}
    /\ ~Acceptable
    /\ Refuse

\* Admins add, edit and delete dishes meanwhile.
ChangePrice(d, p) ==
    /\ price' = [price EXCEPT ![d] = p]
    /\ UNCHANGED order

Next ==
    \/ GetDishesByIds \/ DishNotFound
    \/ \E d \in Dishes : AddItem(d)
    \/ InsertOrder \/ RefuseOrder
    \/ \E d \in Dishes, p \in Prices \union {0} : ChangePrice(d, p)

Spec == Init /\ [][Next]_vars

-----------------------------------------------------------------------------
(* What is shown of an order. *)

\* Telegram adds the lines of the invoice up, in int64.
InvoiceAmount == MapThenSumSet(LAMBDA d : line[d], Items)

\* GetUserOrders, which the customer sees.
TotalPrice(d) == Wrap(count[d] * line[d])

-----------------------------------------------------------------------------
(* Properties. *)

\* As long as the true sum is an int32, what is stored is the true sum, at
\* prices that were all read at once, however the admins change them meanwhile
\* (service/order.go:174-197).
ExactWhenItFits ==
    step = "stored" /\ exact <= MaxInt =>
        /\ total = exact
        /\ \A d \in Items : line[d] = count[d] * read[d]

\* Whatever wraps, the stored total is the low bits of what the invoice asks
\* for, and an invoice whose true sum is an int32 asks for that sum
\* (service/order.go:190-197, bot/payment_bot.go:58-65).
InvoiceIsTotal ==
    step = "stored" =>
        /\ Wrap(InvoiceAmount) = total
        /\ exact <= MaxInt => InvoiceAmount = exact

-----------------------------------------------------------------------------
(* A place that does not show what was stored. *)

\* "итоговая цена: %s" of item.Price (service/csv_exporter.go:49): what is
\* stored with an item is the price of all its portions.
TotalPriceIsOfLine ==
    step = "stored" /\ exact <= MaxInt =>
        \A d \in Items : TotalPrice(d) = line[d]
=============================================================================

------------------------ MODULE CatalogTransactions ------------------------
(***************************************************************************)
(* What the transactions on dishes, categories and restaurants wait for.  *)
(* They lock rows of PostgreSQL, those of their statements and those that *)
(* foreign keys make them check or delete; names are unique, so who writes *)
(* one waits for whoever is about to take it or to give it up; each has a  *)
(* connection of the pool, and an edit, an order and a job ask for a second *)
(* one while they hold the first.  PostgreSQL sees circles of calls that   *)
(* wait for rows and names and ends one of them; it does not see who waits *)
(* for the pool.                                                           *)
(*                                                                         *)
(* A call is one transaction.  Single statements that wait for none of     *)
(* these rows and names are left out.  What an addition of a name answers   *)
(* is in CategoryNames.                                                     *)
(***************************************************************************)
EXTENDS Naturals, FiniteSets

CONSTANTS
    Calls,
    Dishes, Categories, Restaurants,    \* ids
    Names,                              \* of categories and of restaurants
    NoRow,                              \* none of them
    MaxPool                             \* bound on the connections of the pool

Links == Dishes \X Categories           \* dish_categories

Named == Categories \union Restaurants  \* the rows that have a unique name

\* What the two UNIQUE indexes lock.
Keys == {"categories", "restaurants"} \X Names

ASSUME CallsAssumption == IsFiniteSet(Calls)
ASSUME PoolAssumption == MaxPool \in Nat
ASSUME RowsAssumption ==
    /\ Dishes \intersect (Categories \union Restaurants \union Links) = {}
    /\ Categories \intersect (Restaurants \union Links) = {}
    /\ Restaurants \intersect Links = {}
    /\ NoRow \notin Dishes \union Categories \union Restaurants \union Links
    /\ Keys \intersect (Dishes \union Named \union Links) = {}
    /\ NoRow \notin Keys \union Names

Rows == Dishes \union Named \union Links

VARIABLES
    pool,       \* the number of connections
    op,         \* what a call does
    step,       \* the statement it is at
    held,       \* the rows it has locked, and the name it has written
    awaited,    \* the row or the name it waits for, or NoRow
    live,       \* the rows there are, as committed
    name,       \* their names; NoRow before the row is added
    home,       \* dish.restaurant_id; NoRow before the dish is added
    given       \* the categories a dish was last given (history)

vars == <<pool, op, step, held, awaited, live, name, home, given>>
data == <<live, name, home, given>>

Deletions == {"deleteDish", "deleteCategory", "deleteRestaurant"}

Naming == {"rename", "addName"}

Operation == [kind : Deletions \union Naming \union {"edit", "add", "order", "job"},
              dishes : SUBSET Dishes,
              categories : SUBSET Categories,
              restaurants : SUBSET Restaurants,
              name : Names \union {NoRow}]

Request(k, D, C, R, n) ==
    [kind |-> k, dishes |-> D, categories |-> C, restaurants |-> R, name |-> n]

NoRequest == Request("job", {}, {}, {}, NoRow)

\* The requests there are.  An order has one dish at least; a category or a
\* restaurant is added, renamed or deleted.
Requests ==
    {Request(k, {d}, C, {q}, NoRow) : k \in {"edit", "add"}, d \in Dishes,
                                      C \in SUBSET Categories, q \in Restaurants}
    \union {Request("order", D, {}, {}, NoRow) : D \in (SUBSET Dishes) \ {{}}}
    \union {Request("deleteDish", {d}, {}, {}, NoRow) : d \in Dishes}
    \union {Request("deleteCategory", {}, {a}, {}, NoRow) : a \in Categories}
    \union {Request("deleteRestaurant", {}, {}, {a}, NoRow) : a \in Restaurants}
    \union {Request(k, {}, {a}, {}, n) : k \in Naming, a \in Categories, n \in Names}
    \union {Request(k, {}, {}, {a}, n) : k \in Naming, a \in Restaurants, n \in Names}
    \union {NoRequest}

Steps == {"new", "first", "naming", "restaurant", "dishes", "links", "categories",
          "nested", "using", "ending", "done"}

TypeOK ==
    /\ pool \in 1 .. MaxPool
    /\ op \in [Calls -> Operation]
    /\ step \in [Calls -> Steps]
    /\ held \in [Calls -> SUBSET (Rows \union Keys)]
    /\ awaited \in [Calls -> Rows \union Keys \union {NoRow}]
    /\ live \subseteq Rows
    /\ name \in [Named -> Names \union {NoRow}]
    /\ home \in [Dishes -> Restaurants \union {NoRow}]
    /\ given \in [Dishes -> SUBSET Categories]
    /\ \A d \in Dishes \intersect live : home[d] # NoRow
    /\ \A a \in Named \intersect live : name[a] # NoRow

\* Some rows with unique names, and some dishes that refer to them; the others
\* can still be added.
Init ==
    /\ pool \in 1 .. MaxPool
    /\ op = [c \in Calls |-> NoRequest]
    /\ step = [c \in Calls |-> "new"]
    /\ held = [c \in Calls |-> {}]
    /\ awaited = [c \in Calls |-> NoRow]
    /\ name \in [Named -> Names \union {NoRow}]
    /\ \A t \in {Categories, Restaurants} : \A a, b \in t :
        a # b /\ name[a] # NoRow => name[a] # name[b]
    /\ home \in [Dishes -> Restaurants \union {NoRow}]
    /\ given \in [Dishes -> SUBSET Categories]
    /\ \A d \in Dishes :
        /\ home[d] = NoRow => given[d] = {}
        /\ \A a \in Named : a = home[d] \/ a \in given[d] => name[a] # NoRow
    /\ live = {a \in Named : name[a] # NoRow}
                \union {d \in Dishes : home[d] # NoRow}
                \union {l \in Links : l[2] \in given[l[1]]}

-----------------------------------------------------------------------------
(* Connections. *)

Connected == {c \in Calls : step[c] \notin {"new", "done"}}

\* Mutant: a query of an order before its transaction keeps its connection.
BugTwice ==
    {c \in Calls : step[c] = "using" \/ (c \in Connected /\ op[c].kind = "order")}

Twice == {c \in Calls : step[c] = "using"}

ConnectionFree == Cardinality(Connected) + Cardinality(Twice) < pool

-----------------------------------------------------------------------------
(* Locks of rows and names. *)

\* FOR UPDATE for what is deleted or gets another name (a unique column), FOR
\* NO KEY UPDATE for a dish that is edited and a row that keeps its name, FOR
\* KEY SHARE for what a foreign key refers to.  Two calls that write or give up
\* one name exclude each other.
Mode(c, x) ==
    IF x \in Named /\ op[c].kind = "rename" /\ name[x] = op[c].name THEN "update"
    ELSE IF op[c].kind \in Deletions \union Naming THEN "exclusive"
    ELSE IF op[c].kind = "edit" /\ x \in Links THEN "exclusive"
    ELSE IF op[c].kind = "edit" /\ x \in Dishes THEN "update"
    ELSE "share"

Conflict(m, n) == "exclusive" \in {m, n} \/ (m = "update" /\ n = "update")

Key(a, n) == <<IF a \in Categories THEN "categories" ELSE "restaurants", n>>

\* The names that c gives up if it commits: of the row that it renames or deletes.
Gives(c) ==
    IF op[c].kind \in {"rename", "deleteCategory", "deleteRestaurant"}
    THEN {Key(a, name[a]) : a \in held[c] \intersect Named}
    ELSE {}

\* The calls that keep c from locking x.
Holders(c, x) ==
    {y \in Calls \ {c} :
        x \in held[y] \union Gives(y) /\ Conflict(Mode(c, x), Mode(y, x))}

\* The rows that the first statement is about.
Target(c) ==
    CASE op[c].kind \in {"edit", "order", "deleteDish"} -> op[c].dishes
      [] op[c].kind \in {"add", "deleteRestaurant"} -> op[c].restaurants
      [] op[c].kind \in {"deleteCategory", "rename"} ->
            op[c].categories \union op[c].restaurants
      [] OTHER -> {}

\* The name that c is to write.
Wanted(c) == {Key(a, op[c].name) : a \in op[c].categories \union op[c].restaurants}

\* Another row has it.
Taken(c) ==
    \E a \in (Named \intersect live) \ held[c] : Key(a, name[a]) \in Wanted(c)

\* The restaurant is checked only if the edit changes it.
Moves(c) == \E d \in op[c].dishes \intersect live : home[d] \notin op[c].restaurants

\* Mutant: an edit deletes its links before it updates its dish.
BugNeeds(c) ==
    IF step[c] = "naming" THEN Wanted(c)
    ELSE live \intersect
        CASE step[c] = "first" /\ op[c].kind = "edit" -> op[c].dishes \X Categories
          [] step[c] = "links" /\ op[c].kind = "edit" -> op[c].dishes
          [] step[c] = "first" /\ op[c].kind # "edit" -> Target(c)
          [] step[c] = "restaurant" -> IF Moves(c) THEN op[c].restaurants ELSE {}
          [] step[c] = "dishes" -> {d \in Dishes : home[d] \in op[c].restaurants}
          [] step[c] = "links" /\ op[c].kind # "edit" ->
                {l \in Links : l[1] \in held[c] \/ l[2] \in held[c]}
          [] step[c] = "categories" -> op[c].categories
          [] OTHER -> {}

\* What the statement at hand has to lock, one by one in any order.  Rows that
\* are not there, or no longer, are not locked.
Needs(c) ==
    IF step[c] = "naming" THEN Wanted(c)
    ELSE live \intersect
        CASE step[c] = "first" -> Target(c)
          [] step[c] = "restaurant" -> IF Moves(c) THEN op[c].restaurants ELSE {}
          [] step[c] = "dishes" -> {d \in Dishes : home[d] \in op[c].restaurants}
          [] step[c] = "links" ->
                {l \in Links : l[1] \in held[c] \/ l[2] \in held[c]}
          [] step[c] = "categories" -> op[c].categories
          [] OTHER -> {}

LockRow(c) ==
    \E x \in Needs(c) \ held[c] :
        /\ awaited[c] \in Needs(c) => awaited[c] = x
        /\ Holders(c, x) = {}
        /\ step[c] = "naming" => ~Taken(c)
        /\ held' = [held EXCEPT ![c] = @ \union {x}]
        /\ awaited' = [awaited EXCEPT ![c] = NoRow]
        /\ UNCHANGED <<pool, op, step, data>>

Wait(c) ==
    \E x \in Needs(c) \ held[c] :
        /\ awaited[c] \notin Needs(c)
        /\ Holders(c, x) # {}
        /\ awaited' = [awaited EXCEPT ![c] = x]
        /\ UNCHANGED <<pool, op, step, held, data>>

\* The statement has its locks and is done.
Statement(c, kinds, from, to) ==
    /\ op[c].kind \in kinds
    /\ step[c] = from
    /\ Needs(c) \subseteq held[c]
    /\ step' = [step EXCEPT ![c] = to]
    /\ awaited' = [awaited EXCEPT ![c] = NoRow]
    /\ UNCHANGED <<pool, op, held, data>>

-----------------------------------------------------------------------------
(* The statements. *)

FirstStep(kind) ==
    CASE kind = "job" -> "nested"
      [] kind = "addName" -> "naming"
      [] OTHER -> "first"

\* A transaction begins.  Ids are serial: one that is added never was there,
\* and nobody else adds it; any other that is asked for was there once.
Begin(c) ==
    /\ step[c] = "new"
    /\ ConnectionFree
    /\ \E r \in Requests :
        /\ \A d \in r.dishes : r.kind = "add" <=> home[d] = NoRow
        /\ \A a \in r.categories \union r.restaurants :
            r.kind = "addName" <=> name[a] = NoRow
        /\ \A y \in Connected : r.kind = op[y].kind =>
            /\ r.kind = "add" => r.dishes # op[y].dishes
            /\ r.kind = "addName" =>
                <<r.categories, r.restaurants>> # <<op[y].categories, op[y].restaurants>>
        /\ op' = [op EXCEPT ![c] = r]
        /\ step' = [step EXCEPT ![c] = FirstStep(r.kind)]
    /\ UNCHANGED <<pool, held, awaited, data>>

\* The UPDATE of a dish; none may match.
EditDish(c) == Statement(c, {"edit"}, "first", "restaurant")

MoveDish(c) ==
    /\ Moves(c) => op[c].restaurants \subseteq live
    /\ Statement(c, {"edit"}, "restaurant", "links")

DeleteDishCategories(c) == Statement(c, {"edit"}, "links", "categories")

InsertDish(c) ==
    /\ op[c].restaurants \subseteq live
    /\ Statement(c, {"add"}, "first", "categories")

\* References to what is not there fail, also to a dish that no edit found.
\* Without categories there is no such statement.
InsertDishCategories(c) ==
    /\ op[c].categories \subseteq live
    /\ \/ Statement(c, {"add"}, "categories", "ending")
       \/ /\ op[c].categories = {} \/ op[c].dishes \subseteq live
          /\ Statement(c, {"edit"}, "categories", "nested")

InsertOrderItems(c) ==
    /\ op[c].dishes \subseteq live
    /\ Statement(c, {"order"}, "first", "nested")

\* The UPDATE locks its row, then writes the name; no row may match.
RenameRow(c) ==
    Statement(c, {"rename"}, "first", IF held[c] = {} THEN "ending" ELSE "naming")

\* No other row has the name, or the UPDATE fails.
WriteName(c) == Statement(c, Naming, "naming", "ending")

\* ON CONFLICT DO NOTHING.
KeepName(c) ==
    /\ op[c].kind = "addName"
    /\ step[c] = "naming"
    /\ held[c] = {}
    /\ Taken(c)
    /\ \A x \in Wanted(c) : Holders(c, x) = {}
    /\ step' = [step EXCEPT ![c] = "ending"]
    /\ awaited' = [awaited EXCEPT ![c] = NoRow]
    /\ UNCHANGED <<pool, op, held, data>>

DeleteRow(c) ==
    \/ Statement(c, {"deleteDish", "deleteCategory"}, "first", "links")
    \/ Statement(c, {"deleteRestaurant"}, "first", "dishes")

CascadeToDishes(c) == Statement(c, {"deleteRestaurant"}, "dishes", "links")

CascadeToLinks(c) == Statement(c, Deletions, "links", "ending")

\* The image of the old row, the chat and the two jobs of an order, the status
\* that a job writes: not through the transaction, but through the pool.
TakeSecond(c) ==
    /\ step[c] = "nested"
    /\ ConnectionFree
    /\ step' = [step EXCEPT ![c] = "using"]
    /\ UNCHANGED <<pool, op, held, awaited, data>>

\* An edit that looks in vain for its dish and the image fails.
GiveSecondBack(c) ==
    /\ step[c] = "using"
    /\ op[c].kind = "edit" => op[c].dishes \subseteq live
    /\ step' = [step EXCEPT ![c] = "ending"]
    /\ UNCHANGED <<pool, op, held, awaited, data>>

\* The transaction is over: its locks and connections are free again.
Ends(c) ==
    /\ step' = [step EXCEPT ![c] = "done"]
    /\ op' = [op EXCEPT ![c] = NoRequest]
    /\ held' = [held EXCEPT ![c] = {}]
    /\ awaited' = [awaited EXCEPT ![c] = NoRow]
    /\ UNCHANGED pool

\* Mutant: an edit adds categories and removes none.
BugStoreDish(c) ==
    /\ op[c].kind \in {"edit", "add"}
    /\ live' = live \union op[c].dishes \union (op[c].dishes \X op[c].categories)
    /\ home' = [d \in Dishes |-> IF d \in op[c].dishes
                                THEN CHOOSE r \in op[c].restaurants : TRUE
                                ELSE home[d]]
    /\ given' = [d \in Dishes |-> IF d \in op[c].dishes THEN op[c].categories
                                                       ELSE given[d]]
    /\ UNCHANGED name

\* The links that were there when the edit deleted them are replaced.
StoreDish(c) ==
    /\ op[c].kind \in {"edit", "add"}
    /\ live' = (live \ (held[c] \intersect Links))
                \union op[c].dishes \union (op[c].dishes \X op[c].categories)
    /\ home' = [d \in Dishes |-> IF d \in op[c].dishes
                                THEN CHOOSE r \in op[c].restaurants : TRUE
                                ELSE home[d]]
    /\ given' = [d \in Dishes |-> IF d \in op[c].dishes THEN op[c].categories
                                                       ELSE given[d]]
    /\ UNCHANGED name

\* Mutant: ON DELETE SET NULL for the dishes of a restaurant.
BugRemoveRows(c) ==
    /\ op[c].kind \in Deletions
    /\ live' = live \ IF op[c].kind = "deleteRestaurant" THEN op[c].restaurants
                                                       ELSE held[c]
    /\ home' = [d \in Dishes |-> IF home[d] \in op[c].restaurants THEN NoRow
                                                               ELSE home[d]]
    /\ UNCHANGED <<name, given>>

\* What was locked for a deletion is deleted.
RemoveRows(c) ==
    /\ op[c].kind \in Deletions
    /\ live' = live \ held[c]
    /\ UNCHANGED <<name, home, given>>

\* The row has the name that was written, if one was.
StoreName(c) ==
    /\ op[c].kind \in Naming
    /\ LET a == op[c].categories \union op[c].restaurants
       IN  IF Wanted(c) \subseteq held[c]
           THEN /\ live' = live \union a
                /\ name' = [b \in Named |-> IF b \in a THEN op[c].name ELSE name[b]]
           ELSE UNCHANGED <<live, name>>
    /\ UNCHANGED <<home, given>>

Commit(c) ==
    /\ step[c] = "ending"
    /\ Ends(c)
    /\ \/ StoreDish(c)
       \/ RemoveRows(c)
       \/ StoreName(c)
       \/ op[c].kind \in {"order", "job"} /\ UNCHANGED data

\* A statement, the storage service or the commit fails, or the client is gone.
Fail(c) ==
    /\ c \in Connected
    /\ Ends(c)
    /\ UNCHANGED data

-----------------------------------------------------------------------------
(* Deadlocks. *)

WaitsFor(x, y) ==
    /\ awaited[x] # NoRow
    /\ awaited[x] \in Needs(x) \ held[x]
    /\ y \in Holders(x, awaited[x])

\* Calls that wait for each other: each one for another one of them.
Circle(S) == S # {} /\ \A x \in S : \E y \in S : WaitsFor(x, y)

\* PostgreSQL ends a transaction of a circle.
EndDeadlock(c) ==
    /\ awaited[c] # NoRow
    /\ \E S \in SUBSET Calls : c \in S /\ Circle(S)
    /\ Ends(c)
    /\ UNCHANGED data

-----------------------------------------------------------------------------

CallStep(c) ==
    \/ Begin(c) \/ LockRow(c) \/ Wait(c)
    \/ EditDish(c) \/ MoveDish(c) \/ DeleteDishCategories(c)
    \/ InsertDish(c) \/ InsertDishCategories(c) \/ InsertOrderItems(c)
    \/ RenameRow(c) \/ WriteName(c) \/ KeepName(c)
    \/ DeleteRow(c) \/ CascadeToDishes(c) \/ CascadeToLinks(c)
    \/ TakeSecond(c) \/ GiveSecondBack(c)
    \/ Commit(c) \/ Fail(c) \/ EndDeadlock(c)

Next == \E c \in Calls : CallStep(c)

Spec == Init /\ [][Next]_vars

-----------------------------------------------------------------------------
(* Properties. *)

\* Renames each of which wants the name that one of them is to give up.
Swap(T) ==
    /\ T # {}
    /\ \A x \in T : /\ op[x].kind = "rename"
                     /\ \E y \in T : Wanted(x) \subseteq Gives(y)

\* Calls that wait for each other in a circle have one of two causes: the
\* deletion of a category or a restaurant, which cascades, or renames that swap
\* names.  Edits, orders, additions and deletions of dishes alone never do
\* (service/dish.go:173-201, repository/order.go:46-67,
\* repository/dish_category.go:76, repository/restaurant.go:64).
CirclesHaveACause ==
    \A S \in SUBSET Calls : Circle(S) =>
        \/ \E c \in S : op[c].kind \in {"deleteCategory", "deleteRestaurant"}
        \/ \E T \in SUBSET S : Swap(T)

Waiting(c) ==
    \/ step[c] = "nested" /\ ~ConnectionFree
    \/ \E y \in Calls : WaitsFor(c, y)

\* All transactions wait, and PostgreSQL has none to end.
Stuck ==
    /\ Connected # {}
    /\ \A c \in Connected : Waiting(c)
    /\ ~\E S \in SUBSET Calls : Circle(S)

\* All are stuck only if each connection of the pool has a transaction and one
\* of them asks for a second: with a connection more than there are
\* transactions, row locks and connections together never stop everybody, and
\* neither do they without an edit, an order or a job (service/dish.go:203,
\* :237, service/order.go:219).
StuckFillsPool ==
    Stuck => /\ pool <= Cardinality(Connected)
             /\ \E c \in Calls : step[c] = "nested"

\* Whatever ran at the same time and whoever was ended as the victim of a
\* deadlock, a dish has the categories that it was last given, those that were
\* deleted since excepted (service/dish.go:187-201).
CategoriesAsGiven ==
    \A d \in Dishes \intersect live :
        {k \in Categories : <<d, k>> \in live} = given[d] \intersect live
=============================================================================

--------------------- MODULE CatalogTransactionsProofs ---------------------
(***************************************************************************)
(* Proofs about CatalogTransactions, for any number of calls, rows, names  *)
(* and connections.  A call waits where it may only because of what it     *)
(* holds by then: the conjuncts named ...At say what that is, from the     *)
(* step it is at, and HeldByKind says it whatever the step.                *)
(***************************************************************************)
EXTENDS CatalogTransactions, FiniteSetTheorems, TLAPS

\* Locks on a row or a name that exclude each other are not held by two calls.
LocksAgree ==
    \A c, y \in Calls : c # y =>
        \A x \in held[c] \intersect held[y] : ~Conflict(Mode(c, x), Mode(y, x))

\* Which calls are at which step.
KindAt(c, s) ==
    /\ s \in {"new", "done"} => held[c] = {}
    /\ s = "first" => held[c] \subseteq Target(c)
    /\ s = "naming" => op[c].kind \in Naming
    /\ s = "restaurant" => op[c].kind = "edit"
    /\ s = "dishes" => op[c].kind = "deleteRestaurant"
    /\ s = "links" => op[c].kind \in Deletions \union {"edit"}
    /\ s = "categories" => op[c].kind \in {"edit", "add"}
    /\ s \in {"nested", "using"} => op[c].kind \in {"edit", "order", "job"}

\* The rows a dish is stored with, and the links that go then, are locked until
\* it is stored; they are no categories before it gets the new ones.
EditAt(c, s) ==
    /\ op[c].kind = "edit" =>
        /\ s \in {"first", "restaurant", "links"} => held[c] \intersect Categories = {}
        /\ s \in {"restaurant", "links", "categories", "nested", "using"} =>
            op[c].dishes \intersect live \subseteq held[c]
        /\ s = "ending" => op[c].dishes \subseteq held[c]
        /\ s \in {"nested", "using", "ending"} => op[c].categories \subseteq held[c]
        /\ s \in {"categories", "nested", "using", "ending"} =>
            \A l \in Links \intersect live : l[1] \in held[c] => l \in held[c]
    /\ op[c].kind = "add" /\ s = "ending" => op[c].categories \subseteq held[c]

\* A category goes with all its links.
CascadeAt(c, s) ==
    op[c].kind = "deleteCategory" /\ s = "ending" =>
        \A l \in Links \intersect live : l[2] \in held[c] => l \in held[c]

\* A name is locked by who adds or renames a row, with the row that is renamed.
NamingAt(c, s) ==
    /\ op[c].kind = "addName" =>
        s \in {"naming", "ending"} /\ held[c] \subseteq Wanted(c)
    /\ op[c].kind = "rename" =>
        /\ s = "naming" => Target(c) \subseteq held[c]
        /\ s = "ending" => held[c] = {} \/ Target(c) \subseteq held[c]
    /\ s \notin {"naming", "ending"} \/ op[c].kind \notin Naming =>
        held[c] \intersect Keys = {}
    /\ held[c] \intersect Keys \subseteq Wanted(c)

Requested == \A c \in Calls : op[c] \in Requests

KindsAtSteps == \A c \in Calls : KindAt(c, step[c])

EditsHold == \A c \in Calls : EditAt(c, step[c])

CascadesHold == \A c \in Calls : CascadeAt(c, step[c])

NamingsHold == \A c \in Calls : NamingAt(c, step[c])

\* What is locked by whom: a link only together with its dish or, by the
\* deletion of a category, with its category.
HeldByKind ==
    \A c \in Calls :
        /\ \A l \in held[c] \intersect Links :
            \/ /\ op[c].kind \in {"edit", "deleteDish", "deleteRestaurant"}
               /\ l[1] \in held[c]
            \/ op[c].kind = "deleteCategory" /\ l[2] \in held[c]
        /\ op[c].kind \in {"deleteDish", "deleteRestaurant"} =>
            held[c] \intersect Categories = {}
        /\ op[c].kind = "deleteDish" => held[c] \intersect Restaurants = {}
        /\ op[c].kind = "deleteCategory" => held[c] \intersect Dishes = {}
        /\ op[c].kind = "edit" => held[c] \intersect Dishes \subseteq op[c].dishes

\* Only what was never there is added, and by one call.
SerialIds ==
    \A c \in Connected :
        /\ \A d \in op[c].dishes : op[c].kind = "add" <=> home[d] = NoRow
        /\ \A a \in op[c].categories \union op[c].restaurants :
            op[c].kind = "addName" <=> name[a] = NoRow
        /\ \A y \in Connected \ {c} : op[c].kind = op[y].kind =>
            /\ op[c].kind = "add" => op[c].dishes # op[y].dishes
            /\ op[c].kind = "addName" =>
                <<op[c].categories, op[c].restaurants>>
                    # <<op[y].categories, op[y].restaurants>>

HeldIsLive == \A c \in Calls : held[c] \intersect Rows \subseteq live

\* Only a dish that was added has links, and only to categories that were.
LinksRefer ==
    /\ \A l \in Links \intersect live : home[l[1]] # NoRow
    /\ \A d \in Dishes : \A k \in given[d] : name[k] # NoRow

IInv ==
    /\ TypeOK
    /\ LocksAgree
    /\ Requested
    /\ KindsAtSteps
    /\ EditsHold
    /\ CascadesHold
    /\ NamingsHold
    /\ HeldByKind
    /\ SerialIds
    /\ HeldIsLive
    /\ LinksRefer
    /\ CategoriesAsGiven

-----------------------------------------------------------------------------
(* Requests, names and lock modes. *)

LEMMA RequestShape ==
    ASSUME NEW r \in Requests
    PROVE  /\ r.kind \in {"edit", "add", "deleteDish"} =>
                \E d \in Dishes : r.dishes = {d}
           /\ r.kind \in {"edit", "add"} => \E q \in Restaurants : r.restaurants = {q}
           /\ r.kind \in {"deleteDish", "order"} =>
                r.categories = {} /\ r.restaurants = {}
           /\ r.kind = "deleteCategory" => r.dishes = {} /\ r.restaurants = {}
           /\ r.kind = "deleteRestaurant" => r.dishes = {} /\ r.categories = {}
           /\ r.kind \in Naming =>
                /\ r.dishes = {}
                /\ r.name \in Names
                /\ \/ \E a \in Categories : r.categories = {a} /\ r.restaurants = {}
                   \/ \E a \in Restaurants : r.categories = {} /\ r.restaurants = {a}
           /\ r \in Operation
<1> DEFINE A1 == {Request(k, {d}, C, {q}, NoRow) :
                    k \in {"edit", "add"}, d \in Dishes,
                    C \in SUBSET Categories, q \in Restaurants}
           A2 == {Request("order", D, {}, {}, NoRow) : D \in (SUBSET Dishes) \ {{}}}
           A3 == {Request("deleteDish", {d}, {}, {}, NoRow) : d \in Dishes}
           A4 == {Request("deleteCategory", {}, {a}, {}, NoRow) : a \in Categories}
           A5 == {Request("deleteRestaurant", {}, {}, {a}, NoRow) : a \in Restaurants}
           A6 == {Request(k, {}, {a}, {}, n) :
                    k \in Naming, a \in Categories, n \in Names}
           A7 == {Request(k, {}, {}, {a}, n) :
                    k \in Naming, a \in Restaurants, n \in Names}
           A8 == {NoRequest}
<1>1. CASE r \in A1
  BY <1>1, SMTT(30) DEF Request, Operation, Naming
<1>2. CASE r \in A2
  BY <1>2, SMTT(30) DEF Request, Operation, Naming
<1>3. CASE r \in A3
  BY <1>3, SMTT(30) DEF Request, Operation, Naming, Deletions
<1>4. CASE r \in A4
  BY <1>4, SMTT(30) DEF Request, Operation, Naming, Deletions
<1>5. CASE r \in A5
  BY <1>5, SMTT(30) DEF Request, Operation, Naming, Deletions
<1>6. CASE r \in A6
  BY <1>6, SMTT(30) DEF Request, Operation, Naming
<1>7. CASE r \in A7
  BY <1>7, SMTT(30) DEF Request, Operation, Naming
<1>8. CASE r \in A8
  BY <1>8, SMTT(30) DEF NoRequest, Request, Operation, Naming
<1>9. r \in A1 \union A2 \union A3 \union A4 \union A5 \union A6 \union A7 \union A8
  BY PTL DEF Requests
<1> HIDE DEF A1, A2, A3, A4, A5, A6, A7, A8
<1>10. \/ r \in A1 \/ r \in A2 \/ r \in A3 \/ r \in A4
       \/ r \in A5 \/ r \in A6 \/ r \in A7 \/ r \in A8
  BY <1>9
<1> QED
  BY <1>1, <1>2, <1>3, <1>4, <1>5, <1>6, <1>7, <1>8, <1>10

LEMMA NoRequestIsOne ==
    NoRequest \in Requests /\ NoRequest.kind = "job" /\ NoRequest \in Operation
  BY SMT DEF NoRequest, Request, Requests, Operation

LEMMA ConflictSymmetric ==
    ASSUME NEW m, NEW n, Conflict(m, n)
    PROVE  Conflict(n, m)
  BY DEF Conflict

LEMMA RequestOf ==
    ASSUME IInv, NEW c \in Calls
    PROVE  /\ op[c] \in Requests
           /\ op[c] \in Operation
           /\ op[c].dishes \subseteq Dishes
           /\ op[c].categories \subseteq Categories
           /\ op[c].restaurants \subseteq Restaurants
  BY DEF IInv, Requested, TypeOK, Operation

\* A call adds or renames one row, and wants one name.
LEMMA OneWanted ==
    ASSUME IInv, NEW c \in Calls, op[c].kind \in Naming
    PROVE  \E a \in Named :
              /\ op[c].categories \union op[c].restaurants = {a}
              /\ Wanted(c) = {Key(a, op[c].name)}
              /\ Key(a, op[c].name) \in Keys
              /\ op[c].kind = "rename" => Target(c) = {a}
<1>1. /\ op[c].name \in Names
      /\ \/ \E a \in Categories : op[c].categories = {a} /\ op[c].restaurants = {}
         \/ \E a \in Restaurants : op[c].categories = {} /\ op[c].restaurants = {a}
  BY RequestOf, RequestShape
<1>2. PICK a \in Named : op[c].categories \union op[c].restaurants = {a}
  BY <1>1 DEF Named
<1>3. Wanted(c) = {Key(a, op[c].name)}
  BY <1>2 DEF Wanted
<1>4. Key(a, op[c].name) \in Keys
  BY <1>1 DEF Key, Keys
<1>5. op[c].kind = "rename" => Target(c) = {a}
  BY <1>2 DEF Target
<1> QED
  BY <1>2, <1>3, <1>4, <1>5

\* Names are no rows, neither those that are wanted nor those given up.
LEMMA KeysAreNoRows ==
    ASSUME IInv, NEW c \in Calls
    PROVE  /\ Keys \intersect Rows = {}
           /\ step[c] = "naming" => Needs(c) \subseteq Keys
           /\ step[c] # "naming" => Needs(c) \subseteq live
           /\ live \subseteq Rows
           /\ Gives(c) \subseteq Keys
<1>1. Keys \intersect Rows = {}
  BY RowsAssumption DEF Rows
<1>2. ASSUME step[c] = "naming"
      PROVE  Needs(c) \subseteq Keys
  <2>1. op[c].kind \in Naming
    BY <1>2 DEF IInv, KindsAtSteps, KindAt
  <2> QED
    BY <1>2, <2>1, OneWanted DEF Needs
<1>3. step[c] # "naming" => Needs(c) \subseteq live
  BY DEF Needs
<1>4. live \subseteq Rows /\ name \in [Named -> Names \union {NoRow}]
  BY DEF IInv, TypeOK
<1>5. ASSUME NEW a \in held[c] \intersect Named
      PROVE  Key(a, name[a]) \in Keys
  <2>1. a \in live
    BY DEF IInv, HeldIsLive, Rows
  <2>2. name[a] \in Names
    BY <1>4, <2>1 DEF IInv, TypeOK
  <2> QED
    BY <2>2 DEF Key, Keys
<1>6. Gives(c) \subseteq Keys
  BY <1>5 DEF Gives
<1> QED
  BY <1>1, <1>2, <1>3, <1>4, <1>6

-----------------------------------------------------------------------------
(* A call goes to its next statement, with the locks it has. *)

LEMMA NextStatement ==
    ASSUME IInv, NEW c \in Calls, NEW to \in Steps \ {"new", "done"},
           step[c] \notin {"new", "done"},
           step' = [step EXCEPT ![c] = to],
           awaited' \in [Calls -> Rows \union Keys \union {NoRow}],
           UNCHANGED <<pool, op, held, data>>,
           KindAt(c, to), EditAt(c, to), CascadeAt(c, to), NamingAt(c, to)
    PROVE  IInv'
<1>1. step \in [Calls -> Steps] /\ step' \in [Calls -> Steps]
  BY DEF IInv, TypeOK
<1>2. \A y \in Calls : step'[y] = IF y = c THEN to ELSE step[y]
  BY <1>1
<1>3. Connected' = Connected
  BY <1>2 DEF Connected, Steps
<1>4. /\ pool' = pool /\ op' = op /\ held' = held
      /\ live' = live /\ name' = name /\ home' = home /\ given' = given
  BY DEF data
<1>5. TypeOK'
  BY <1>1, <1>4 DEF IInv, TypeOK
<1>6. LocksAgree' /\ Requested'
  BY <1>4 DEF IInv, LocksAgree, Mode, Requested
<1>7. KindsAtSteps'
  BY <1>2, <1>4 DEF IInv, KindsAtSteps, KindAt, Target
<1>8. EditsHold'
  BY <1>2, <1>4 DEF IInv, EditsHold, EditAt
<1>9. CascadesHold'
  BY <1>2, <1>4 DEF IInv, CascadesHold, CascadeAt
<1>10. NamingsHold'
  BY <1>2, <1>4 DEF IInv, NamingsHold, NamingAt, Target, Wanted, Key
<1>11. HeldByKind' /\ SerialIds'
  BY <1>3, <1>4 DEF IInv, HeldByKind, SerialIds
<1>12. HeldIsLive' /\ LinksRefer' /\ CategoriesAsGiven'
  BY <1>4 DEF IInv, HeldIsLive, LinksRefer, CategoriesAsGiven
<1> QED
  BY <1>5, <1>6, <1>7, <1>8, <1>9, <1>10, <1>11, <1>12 DEF IInv

LEMMA AfterStatement ==
    ASSUME IInv, NEW c \in Calls,
           NEW kinds, NEW from \in Steps \ {"new", "done"}, NEW to \in Steps,
           Statement(c, kinds, from, to)
    PROVE  /\ op[c].kind \in kinds /\ step[c] = from
           /\ Needs(c) \subseteq held[c]
           /\ step' = [step EXCEPT ![c] = to]
           /\ awaited' \in [Calls -> Rows \union Keys \union {NoRow}]
           /\ UNCHANGED <<pool, op, held, data>>
           /\ KindAt(c, from) /\ EditAt(c, from)
           /\ CascadeAt(c, from) /\ NamingAt(c, from)
  BY DEF Statement, IInv, TypeOK, KindsAtSteps, EditsHold, CascadesHold, NamingsHold

LEMMA EditDishKeeps ==
    ASSUME IInv, NEW c \in Calls, EditDish(c)
    PROVE  IInv'
<1>1. /\ op[c].kind = "edit" /\ step[c] = "first" /\ Needs(c) \subseteq held[c]
      /\ step' = [step EXCEPT ![c] = "restaurant"]
      /\ awaited' \in [Calls -> Rows \union Keys \union {NoRow}]
      /\ UNCHANGED <<pool, op, held, data>>
      /\ EditAt(c, "first") /\ NamingAt(c, "first")
  BY AfterStatement DEF EditDish, Steps
<1>2. op[c].dishes \intersect live \subseteq held[c]
  BY <1>1 DEF Needs, Target
<1>3. KindAt(c, "restaurant") /\ CascadeAt(c, "restaurant") /\ NamingAt(c, "restaurant")
  BY <1>1 DEF KindAt, CascadeAt, NamingAt, Naming
<1>4. EditAt(c, "restaurant")
  BY <1>1, <1>2 DEF EditAt
<1> QED
  BY <1>1, <1>3, <1>4, NextStatement DEF Steps

LEMMA MoveDishKeeps ==
    ASSUME IInv, NEW c \in Calls, MoveDish(c)
    PROVE  IInv'
<1>1. /\ op[c].kind = "edit" /\ step[c] = "restaurant"
      /\ step' = [step EXCEPT ![c] = "links"]
      /\ awaited' \in [Calls -> Rows \union Keys \union {NoRow}]
      /\ UNCHANGED <<pool, op, held, data>>
      /\ EditAt(c, "restaurant") /\ NamingAt(c, "restaurant")
  BY AfterStatement DEF MoveDish, Steps
<1>2. KindAt(c, "links") /\ CascadeAt(c, "links") /\ NamingAt(c, "links")
  BY <1>1 DEF KindAt, CascadeAt, NamingAt, Naming
<1>3. EditAt(c, "links")
  BY <1>1 DEF EditAt
<1> QED
  BY <1>1, <1>2, <1>3, NextStatement DEF Steps

LEMMA DeleteDishCategoriesKeeps ==
    ASSUME IInv, NEW c \in Calls, DeleteDishCategories(c)
    PROVE  IInv'
<1>1. /\ op[c].kind = "edit" /\ step[c] = "links" /\ Needs(c) \subseteq held[c]
      /\ step' = [step EXCEPT ![c] = "categories"]
      /\ awaited' \in [Calls -> Rows \union Keys \union {NoRow}]
      /\ UNCHANGED <<pool, op, held, data>>
      /\ EditAt(c, "links") /\ NamingAt(c, "links")
  BY AfterStatement DEF DeleteDishCategories, Steps
<1>2. \A l \in Links \intersect live : l[1] \in held[c] => l \in held[c]
  BY <1>1 DEF Needs
<1>3. KindAt(c, "categories") /\ CascadeAt(c, "categories") /\ NamingAt(c, "categories")
  BY <1>1 DEF KindAt, CascadeAt, NamingAt, Naming
<1>4. EditAt(c, "categories")
  BY <1>1, <1>2 DEF EditAt
<1> QED
  BY <1>1, <1>3, <1>4, NextStatement DEF Steps

LEMMA InsertDishKeeps ==
    ASSUME IInv, NEW c \in Calls, InsertDish(c)
    PROVE  IInv'
<1>1. /\ op[c].kind = "add" /\ step[c] = "first"
      /\ step' = [step EXCEPT ![c] = "categories"]
      /\ awaited' \in [Calls -> Rows \union Keys \union {NoRow}]
      /\ UNCHANGED <<pool, op, held, data>>
      /\ NamingAt(c, "first")
  BY AfterStatement DEF InsertDish, Steps
<1>2. /\ KindAt(c, "categories") /\ CascadeAt(c, "categories")
      /\ EditAt(c, "categories") /\ NamingAt(c, "categories")
  BY <1>1 DEF KindAt, CascadeAt, EditAt, NamingAt, Naming
<1> QED
  BY <1>1, <1>2, NextStatement DEF Steps

LEMMA InsertDishCategoriesKeeps ==
    ASSUME IInv, NEW c \in Calls, InsertDishCategories(c)
    PROVE  IInv'
<1>1. op[c].categories \subseteq live
  BY DEF InsertDishCategories
<1>2. CASE Statement(c, {"add"}, "categories", "ending")
  <2>1. /\ op[c].kind = "add" /\ step[c] = "categories" /\ Needs(c) \subseteq held[c]
        /\ step' = [step EXCEPT ![c] = "ending"]
        /\ awaited' \in [Calls -> Rows \union Keys \union {NoRow}]
        /\ UNCHANGED <<pool, op, held, data>>
        /\ NamingAt(c, "categories")
    BY <1>2, AfterStatement DEF Steps
  <2>2. op[c].categories \subseteq held[c]
    BY <1>1, <2>1 DEF Needs
  <2>3. /\ KindAt(c, "ending") /\ CascadeAt(c, "ending")
        /\ EditAt(c, "ending") /\ NamingAt(c, "ending")
    BY <2>1, <2>2 DEF KindAt, CascadeAt, EditAt, NamingAt, Naming
  <2> QED
    BY <2>1, <2>3, NextStatement DEF Steps
<1>3. CASE Statement(c, {"edit"}, "categories", "nested")
  <2>1. /\ op[c].kind = "edit" /\ step[c] = "categories" /\ Needs(c) \subseteq held[c]
        /\ step' = [step EXCEPT ![c] = "nested"]
        /\ awaited' \in [Calls -> Rows \union Keys \union {NoRow}]
        /\ UNCHANGED <<pool, op, held, data>>
        /\ EditAt(c, "categories") /\ NamingAt(c, "categories")
    BY <1>3, AfterStatement DEF Steps
  <2>2. op[c].categories \subseteq held[c]
    BY <1>1, <2>1 DEF Needs
  <2>3. KindAt(c, "nested") /\ CascadeAt(c, "nested") /\ NamingAt(c, "nested")
    BY <2>1 DEF KindAt, CascadeAt, NamingAt, Naming
  <2>4. EditAt(c, "nested")
    BY <2>1, <2>2 DEF EditAt
  <2> QED
    BY <2>1, <2>3, <2>4, NextStatement DEF Steps
<1> QED
  BY <1>2, <1>3 DEF InsertDishCategories

LEMMA DeletionsKeep ==
    ASSUME IInv, NEW c \in Calls,
           DeleteRow(c) \/ CascadeToDishes(c) \/ CascadeToLinks(c)
    PROVE  IInv'
<1>1. ASSUME NEW from \in Steps \ {"new", "done", "naming"},
             NEW to \in {"dishes", "links", "ending"},
             Statement(c, Deletions, from, to),
             to = "dishes" => op[c].kind = "deleteRestaurant",
             to = "ending" => from = "links"
      PROVE  IInv'
  <2>1. /\ op[c].kind \in Deletions /\ step[c] = from /\ Needs(c) \subseteq held[c]
        /\ step' = [step EXCEPT ![c] = to]
        /\ awaited' \in [Calls -> Rows \union Keys \union {NoRow}]
        /\ UNCHANGED <<pool, op, held, data>>
        /\ NamingAt(c, from)
    BY <1>1, AfterStatement DEF Steps
  <2>2. to = "ending" => \A l \in Links \intersect live : l[2] \in held[c] => l \in held[c]
    BY <1>1, <2>1 DEF Needs
  <2>3. KindAt(c, to) /\ CascadeAt(c, to) /\ EditAt(c, to)
    BY <1>1, <2>1, <2>2 DEF KindAt, CascadeAt, EditAt, Deletions
  <2>4. NamingAt(c, to)
    BY <1>1, <2>1 DEF NamingAt, Deletions, Naming
  <2> QED
    BY <2>1, <2>3, <2>4, NextStatement DEF Steps
<1>2. CASE Statement(c, {"deleteDish", "deleteCategory"}, "first", "links")
  <2>1. Statement(c, Deletions, "first", "links")
    BY <1>2 DEF Statement, Deletions
  <2> QED
    BY <1>1, <2>1 DEF Steps
<1>3. CASE Statement(c, {"deleteRestaurant"}, "first", "dishes")
  <2>1. Statement(c, Deletions, "first", "dishes") /\ op[c].kind = "deleteRestaurant"
    BY <1>3 DEF Statement, Deletions
  <2> QED
    BY <1>1, <2>1 DEF Steps
<1>4. CASE CascadeToDishes(c)
  <2>1. Statement(c, Deletions, "dishes", "links")
    BY <1>4 DEF CascadeToDishes, Statement, Deletions
  <2> QED
    BY <1>1, <2>1 DEF Steps
<1>5. CASE CascadeToLinks(c)
  BY <1>1, <1>5 DEF CascadeToLinks, Steps
<1> QED
  BY <1>2, <1>3, <1>4, <1>5 DEF DeleteRow

LEMMA InsertOrderItemsKeeps ==
    ASSUME IInv, NEW c \in Calls, InsertOrderItems(c)
    PROVE  IInv'
<1>1. /\ op[c].kind = "order" /\ step[c] = "first"
      /\ step' = [step EXCEPT ![c] = "nested"]
      /\ awaited' \in [Calls -> Rows \union Keys \union {NoRow}]
      /\ UNCHANGED <<pool, op, held, data>>
      /\ NamingAt(c, "first")
  BY AfterStatement DEF InsertOrderItems, Steps
<1>2. /\ KindAt(c, "nested") /\ CascadeAt(c, "nested")
      /\ EditAt(c, "nested") /\ NamingAt(c, "nested")
  BY <1>1 DEF KindAt, CascadeAt, EditAt, NamingAt, Naming
<1> QED
  BY <1>1, <1>2, NextStatement DEF Steps

LEMMA RenameRowKeeps ==
    ASSUME IInv, NEW c \in Calls, RenameRow(c)
    PROVE  IInv'
<1> DEFINE to == IF held[c] = {} THEN "ending" ELSE "naming"
<1>1. /\ op[c].kind = "rename" /\ step[c] = "first"
      /\ step' = [step EXCEPT ![c] = to]
      /\ awaited' \in [Calls -> Rows \union Keys \union {NoRow}]
      /\ UNCHANGED <<pool, op, held, data>>
      /\ NamingAt(c, "first") /\ KindAt(c, "first")
  BY AfterStatement DEF RenameRow, Steps
<1>2. held[c] # {} => Target(c) \subseteq held[c]
  BY <1>1, OneWanted DEF KindAt, Naming
<1>3. KindAt(c, to) /\ CascadeAt(c, to) /\ EditAt(c, to)
  BY <1>1 DEF KindAt, CascadeAt, EditAt, Naming
<1>4. NamingAt(c, to)
  BY <1>1, <1>2 DEF NamingAt, Naming
<1>5. to \in Steps \ {"new", "done"}
  BY DEF Steps
<1> QED
  BY <1>1, <1>3, <1>4, <1>5, NextStatement

LEMMA NameIsWritten ==
    ASSUME IInv, NEW c \in Calls, WriteName(c) \/ KeepName(c)
    PROVE  IInv'
<1>1. /\ op[c].kind \in Naming /\ step[c] = "naming"
      /\ step' = [step EXCEPT ![c] = "ending"]
      /\ awaited' \in [Calls -> Rows \union Keys \union {NoRow}]
      /\ UNCHANGED <<pool, op, held, data>>
  BY DEF WriteName, KeepName, Statement, Naming, IInv, TypeOK
<1>2. NamingAt(c, "naming")
  BY <1>1 DEF IInv, NamingsHold
<1>3. KindAt(c, "ending") /\ CascadeAt(c, "ending") /\ EditAt(c, "ending")
  BY <1>1 DEF KindAt, CascadeAt, EditAt, Naming
<1>4. NamingAt(c, "ending")
  BY <1>1, <1>2 DEF NamingAt, Naming
<1> QED
  BY <1>1, <1>3, <1>4, NextStatement DEF Steps

LEMMA SecondKeeps ==
    ASSUME IInv, NEW c \in Calls, TakeSecond(c) \/ GiveSecondBack(c)
    PROVE  IInv'
<1>1. /\ step[c] \in {"nested", "using"}
      /\ awaited' \in [Calls -> Rows \union Keys \union {NoRow}]
      /\ UNCHANGED <<pool, op, held, data>>
      /\ KindAt(c, step[c]) /\ EditAt(c, step[c]) /\ NamingAt(c, step[c])
  BY DEF TakeSecond, GiveSecondBack, IInv, TypeOK, KindsAtSteps, EditsHold, NamingsHold
<1>2. PICK to \in {"using", "ending"} :
        /\ step' = [step EXCEPT ![c] = to]
        /\ to = "ending" /\ op[c].kind = "edit" => op[c].dishes \subseteq live
  BY DEF TakeSecond, GiveSecondBack
<1>3. op[c].kind \in {"edit", "order", "job"}
  BY <1>1 DEF KindAt
<1>4. KindAt(c, to) /\ CascadeAt(c, to) /\ NamingAt(c, to)
  BY <1>1, <1>3 DEF KindAt, CascadeAt, NamingAt, Naming
<1>5. EditAt(c, to)
  <2>1. CASE op[c].kind # "edit"
    BY <1>3, <2>1 DEF EditAt
  <2>2. CASE op[c].kind = "edit"
    <3>1. /\ op[c].dishes \intersect live \subseteq held[c]
          /\ op[c].categories \subseteq held[c]
          /\ \A l \in Links \intersect live : l[1] \in held[c] => l \in held[c]
      BY <1>1, <2>2 DEF EditAt
    <3> QED
      BY <1>2, <2>2, <3>1 DEF EditAt
  <2> QED
    BY <2>1, <2>2
<1> QED
  BY <1>1, <1>2, <1>4, <1>5, NextStatement DEF Steps

-----------------------------------------------------------------------------
(* Locks. *)

LEMMA InitHolds == Init => IInv
<1> SUFFICES ASSUME Init
             PROVE  IInv
  OBVIOUS
<1>1. /\ op = [c \in Calls |-> NoRequest] /\ step = [c \in Calls |-> "new"]
      /\ held = [c \in Calls |-> {}]
  BY DEF Init
<1>2. \A d \in Dishes : \A k \in given[d] : home[d] # NoRow /\ name[k] # NoRow /\ k \in Named
  BY DEF Init, Named
<1>3. \A z : /\ z \in Dishes => (z \in live <=> home[z] # NoRow)
             /\ z \in Named => (z \in live <=> name[z] # NoRow)
             /\ z \in Links => (z \in live <=> z[2] \in given[z[1]])
  BY RowsAssumption DEF Init, Named
<1>4. TypeOK
  <2>1. live \subseteq Rows
    BY DEF Init, Rows, Named, Links
  <2> QED
    BY <1>1, <1>3, <2>1, NoRequestIsOne DEF TypeOK, Init, Steps
<1>5. LocksAgree /\ HeldIsLive
  BY <1>1 DEF LocksAgree, HeldIsLive
<1>6. Requested /\ KindsAtSteps
  BY <1>1, NoRequestIsOne DEF Requested, KindsAtSteps, KindAt
<1>7. EditsHold /\ CascadesHold
  BY <1>1, NoRequestIsOne DEF EditsHold, EditAt, CascadesHold, CascadeAt
<1>8. NamingsHold /\ HeldByKind
  BY <1>1, NoRequestIsOne DEF NamingsHold, NamingAt, HeldByKind
<1>9. SerialIds
  BY <1>1 DEF SerialIds, Connected
<1>10. LinksRefer
  <2>1. ASSUME NEW l \in Links \intersect live
        PROVE  home[l[1]] # NoRow
    BY <1>2, <1>3 DEF Links
  <2> QED
    BY <1>2, <2>1 DEF LinksRefer
<1>11. CategoriesAsGiven
  <2> SUFFICES ASSUME NEW d \in Dishes \intersect live, NEW k \in Categories
               PROVE  <<d, k>> \in live <=> k \in given[d] \intersect live
    BY DEF CategoriesAsGiven, Init
  <2>1. <<d, k>> \in Links /\ <<d, k>>[1] = d /\ <<d, k>>[2] = k
    BY DEF Links
  <2>2. k \in given[d] => k \in live
    BY <1>2, <1>3
  <2> QED
    BY <1>3, <2>1, <2>2
<1> QED
  BY <1>4, <1>5, <1>6, <1>7, <1>8, <1>9, <1>10, <1>11 DEF IInv

LEMMA LockRowKeeps ==
    ASSUME IInv, NEW c \in Calls, LockRow(c)
    PROVE  IInv'
<1>1. PICK x \in Needs(c) \ held[c] :
        /\ Holders(c, x) = {}
        /\ held' = [held EXCEPT ![c] = @ \union {x}]
        /\ awaited' = [awaited EXCEPT ![c] = NoRow]
        /\ UNCHANGED <<pool, op, step, data>>
  BY DEF LockRow
<1>2. /\ pool' = pool /\ op' = op /\ step' = step
      /\ live' = live /\ name' = name /\ home' = home /\ given' = given
  BY <1>1 DEF data
<1>3. /\ held \in [Calls -> SUBSET (Rows \union Keys)]
      /\ Keys \intersect Rows = {} /\ live \subseteq Rows
      /\ step[c] = "naming" => x \in Wanted(c) /\ x \in Keys
      /\ step[c] # "naming" => x \in live /\ x \in Rows
  <2>1. step[c] = "naming" => x \in Wanted(c)
    BY <1>1 DEF Needs
  <2> QED
    BY <1>1, <2>1, KeysAreNoRows DEF IInv, TypeOK
<1>4. \A y \in Calls : held'[y] = IF y = c THEN held[c] \union {x} ELSE held[y]
  BY <1>1, <1>3
<1>5. /\ op[c].dishes \subseteq Dishes /\ op[c].categories \subseteq Categories
      /\ op[c].restaurants \subseteq Restaurants
      /\ KindAt(c, step[c]) /\ EditAt(c, step[c])
      /\ CascadeAt(c, step[c]) /\ NamingAt(c, step[c])
  BY RequestOf DEF IInv, KindsAtSteps, EditsHold, CascadesHold, NamingsHold
\* What is locked at each step.
<1>6. /\ step[c] \in {"first", "naming", "restaurant", "dishes", "links", "categories"}
      /\ step[c] = "first" => x \in Target(c)
      /\ step[c] = "restaurant" => x \in Restaurants
      /\ step[c] = "dishes" => x \in Dishes
      /\ step[c] = "links" => x \in Links /\ (x[1] \in held[c] \/ x[2] \in held[c])
      /\ step[c] = "categories" => x \in Categories
  <2>1. /\ step[c] \in {"first", "naming", "restaurant", "dishes", "links", "categories"}
        /\ step[c] = "first" => x \in Target(c)
        /\ step[c] = "dishes" => x \in Dishes
        /\ step[c] = "links" => x \in Links /\ (x[1] \in held[c] \/ x[2] \in held[c])
    BY <1>1 DEF Needs
  <2>2. step[c] = "restaurant" => x \in Restaurants
    BY <1>1, <1>5 DEF Needs
  <2>3. step[c] = "categories" => x \in Categories
    BY <1>1, <1>5 DEF Needs
  <2> QED
    BY <2>1, <2>2, <2>3
<1>7. step[c] = "first" =>
        \/ op[c].kind \in {"edit", "order", "deleteDish"} /\ x \in op[c].dishes
        \/ op[c].kind \in {"add", "deleteRestaurant"} /\ x \in Restaurants
        \/ op[c].kind = "deleteCategory" /\ x \in Categories
        \/ op[c].kind = "rename" /\ x \in Named
  <2>1. op[c].kind = "deleteCategory" => op[c].restaurants = {}
    BY RequestOf, RequestShape
  <2> QED
    BY <1>5, <1>6, <2>1 DEF Target, Named
<1>8. TypeOK'
  BY <1>1, <1>2, <1>3 DEF IInv, TypeOK
<1>9. LocksAgree'
  <2> SUFFICES ASSUME NEW a \in Calls, NEW b \in Calls, a # b,
                      NEW z \in held'[a] \intersect held'[b]
               PROVE  ~Conflict(Mode(a, z), Mode(b, z))
    BY <1>2 DEF LocksAgree, Mode
  <2>1. \A y \in Calls \ {c} : x \in held[y] => ~Conflict(Mode(c, x), Mode(y, x))
    BY <1>1 DEF Holders
  <2> QED
    BY <1>4, <2>1, ConflictSymmetric DEF IInv, LocksAgree
<1>10. Requested' /\ SerialIds'
  BY <1>2 DEF IInv, Requested, SerialIds, Connected
<1>11. KindsAtSteps'
  <2>1. KindAt(c, step[c])'
    BY <1>2, <1>4, <1>5, <1>6 DEF KindAt, Target
  <2> QED
    BY <1>2, <1>4, <2>1 DEF IInv, KindsAtSteps, KindAt, Target
<1>12. EditsHold'
  <2>1. op[c].kind = "edit" /\ step[c] \in {"first", "restaurant", "links"} =>
            x \notin Categories
    BY <1>5, <1>6, <1>7, RowsAssumption
  <2>2. op[c].kind = "edit" /\ step[c] = "categories" => x \notin Dishes
    BY <1>6, RowsAssumption
  <2>3. EditAt(c, step[c])'
    BY <1>2, <1>4, <1>5, <1>6, <2>1, <2>2 DEF EditAt, Links
  <2> QED
    BY <1>2, <1>4, <2>3 DEF IInv, EditsHold, EditAt
<1>13. CascadesHold'
  BY <1>2, <1>4, <1>6 DEF IInv, CascadesHold, CascadeAt
<1>14. NamingsHold'
  <2>1. NamingAt(c, step[c])'
    <3>1. CASE step[c] = "naming"
      <4>1. op[c].kind \in Naming
        BY <1>5, <3>1 DEF KindAt
      <4> QED
        BY <1>2, <1>3, <1>4, <1>5, <3>1, <4>1 DEF NamingAt, Target, Wanted, Key
    <3>2. CASE step[c] # "naming"
      <4>1. x \notin Keys
        BY <1>3, <3>2
      <4>2. op[c].kind # "addName"
        BY <1>5, <1>6, <3>2 DEF NamingAt
      <4> QED
        BY <1>2, <1>4, <1>5, <1>6, <3>2, <4>1, <4>2 DEF NamingAt, Target, Wanted, Key
    <3> QED
      BY <3>1, <3>2
  <2> QED
    BY <1>2, <1>4, <2>1 DEF IInv, NamingsHold, NamingAt, Target, Wanted, Key
<1>15. HeldByKind'
  <2>1. CASE step[c] = "naming"
    <3>1. x \notin Dishes \union Categories \union Restaurants \union Links
      BY <1>3, <2>1 DEF Rows, Named
    <3> QED
      BY <1>2, <1>4, <3>1 DEF IInv, HeldByKind
  <2>2. CASE step[c] = "first"
    BY <1>2, <1>4, <1>5, <1>7, <2>2, RowsAssumption DEF IInv, HeldByKind, Named
  <2>3. CASE step[c] = "restaurant"
    <3>1. op[c].kind = "edit" /\ x \in Restaurants
      BY <1>5, <1>6, <2>3 DEF KindAt
    <3> QED
      BY <1>2, <1>4, <3>1, RowsAssumption DEF IInv, HeldByKind
  <2>4. CASE step[c] = "dishes"
    <3>1. op[c].kind = "deleteRestaurant" /\ x \in Dishes
      BY <1>5, <1>6, <2>4 DEF KindAt
    <3> QED
      BY <1>2, <1>4, <3>1, RowsAssumption DEF IInv, HeldByKind
  <2>5. CASE step[c] = "links"
    <3>1. op[c].kind \in {"edit", "deleteDish", "deleteCategory", "deleteRestaurant"}
      BY <1>5, <2>5 DEF KindAt, Deletions
    <3>2. x \in Links /\ x[1] \in Dishes /\ x[2] \in Categories
      BY <1>6, <2>5 DEF Links
    <3>3. /\ op[c].kind # "deleteCategory" => held[c] \intersect Categories = {}
          /\ op[c].kind = "deleteCategory" => held[c] \intersect Dishes = {}
      BY <1>5, <2>5, <3>1 DEF IInv, HeldByKind, EditAt
    <3>4. \/ op[c].kind \in {"edit", "deleteDish", "deleteRestaurant"} /\ x[1] \in held[c]
          \/ op[c].kind = "deleteCategory" /\ x[2] \in held[c]
      BY <1>6, <2>5, <3>1, <3>2, <3>3
    <3>5. x \notin Dishes \union Categories \union Restaurants
      BY <3>2, RowsAssumption
    <3> QED
      BY <1>2, <1>4, <3>4, <3>5 DEF IInv, HeldByKind
  <2>6. CASE step[c] = "categories"
    <3>1. op[c].kind \in {"edit", "add"} /\ x \in Categories
      BY <1>5, <1>6, <2>6 DEF KindAt
    <3> QED
      BY <1>2, <1>4, <3>1, RowsAssumption DEF IInv, HeldByKind
  <2> QED
    BY <1>6, <2>1, <2>2, <2>3, <2>4, <2>5, <2>6
<1>16. HeldIsLive'
  BY <1>2, <1>3, <1>4 DEF IInv, HeldIsLive
<1>17. LinksRefer' /\ CategoriesAsGiven'
  BY <1>2 DEF IInv, LinksRefer, CategoriesAsGiven
<1> QED
  BY <1>8, <1>9, <1>10, <1>11, <1>12, <1>13, <1>14, <1>15, <1>16, <1>17 DEF IInv

\* What somebody waits for does not matter.
LEMMA AwaitedKeeps ==
    ASSUME IInv, UNCHANGED <<pool, op, step, held, data>>,
           awaited' \in [Calls -> Rows \union Keys \union {NoRow}]
    PROVE  IInv'
<1>1. /\ pool' = pool /\ op' = op /\ step' = step /\ held' = held
      /\ live' = live /\ name' = name /\ home' = home /\ given' = given
  BY DEF data
<1>2. TypeOK'
  BY <1>1 DEF IInv, TypeOK
<1>3. LocksAgree' /\ Requested' /\ KindsAtSteps'
  BY <1>1 DEF IInv, LocksAgree, Mode, Requested, KindsAtSteps, KindAt, Target
<1>4. EditsHold' /\ CascadesHold' /\ HeldByKind'
  BY <1>1 DEF IInv, EditsHold, EditAt, CascadesHold, CascadeAt, HeldByKind
<1>5. NamingsHold'
  BY <1>1 DEF IInv, NamingsHold, NamingAt, Target, Wanted, Key
<1>6. SerialIds' /\ HeldIsLive' /\ LinksRefer' /\ CategoriesAsGiven'
  BY <1>1 DEF IInv, SerialIds, Connected, HeldIsLive, LinksRefer, CategoriesAsGiven
<1> QED
  BY <1>2, <1>3, <1>4, <1>5, <1>6 DEF IInv

LEMMA WaitKeeps ==
    ASSUME IInv, NEW c \in Calls, Wait(c)
    PROVE  IInv'
<1>1. PICK x \in Needs(c) : awaited' = [awaited EXCEPT ![c] = x]
  BY DEF Wait
<1>2. x \in Rows \union Keys
  BY <1>1, KeysAreNoRows
<1> QED
  BY <1>1, <1>2, AwaitedKeeps DEF Wait, IInv, TypeOK

LEMMA BeginKeeps ==
    ASSUME IInv, NEW c \in Calls, Begin(c)
    PROVE  IInv'
<1>1. PICK r \in Requests :
        /\ \A d \in r.dishes : r.kind = "add" <=> home[d] = NoRow
        /\ \A a \in r.categories \union r.restaurants :
            r.kind = "addName" <=> name[a] = NoRow
        /\ \A y \in Connected : r.kind = op[y].kind =>
            /\ r.kind = "add" => r.dishes # op[y].dishes
            /\ r.kind = "addName" =>
                <<r.categories, r.restaurants>> # <<op[y].categories, op[y].restaurants>>
        /\ op' = [op EXCEPT ![c] = r]
        /\ step' = [step EXCEPT ![c] = FirstStep(r.kind)]
  BY DEF Begin
<1>2. /\ pool' = pool /\ held' = held /\ awaited' = awaited
      /\ live' = live /\ name' = name /\ home' = home /\ given' = given
  BY DEF Begin, data
<1>3. /\ op \in [Calls -> Operation] /\ step \in [Calls -> Steps] /\ r \in Operation
      /\ r.kind \in Deletions \union Naming \union {"edit", "add", "order", "job"}
  <2>1. r \in Operation
    BY RequestShape
  <2> QED
    BY <2>1 DEF IInv, TypeOK, Operation
<1>4. /\ FirstStep(r.kind) \in {"first", "naming", "nested"}
      /\ FirstStep(r.kind) = "nested" <=> r.kind = "job"
      /\ FirstStep(r.kind) = "naming" <=> r.kind = "addName"
  BY DEF FirstStep
<1>5. \A y \in Calls : /\ op'[y] = IF y = c THEN r ELSE op[y]
                       /\ step'[y] = IF y = c THEN FirstStep(r.kind) ELSE step[y]
  BY <1>1, <1>3
<1>6. held[c] = {}
  BY DEF Begin, IInv, KindsAtSteps, KindAt
<1>7. TypeOK'
  BY <1>1, <1>2, <1>3, <1>4 DEF IInv, TypeOK, Steps
<1>8. LocksAgree'
  BY <1>2, <1>5, <1>6 DEF IInv, LocksAgree, Mode
<1>9. Requested'
  BY <1>5 DEF IInv, Requested
<1>10. KindsAtSteps'
  <2>1. KindAt(c, step[c])'
    BY <1>2, <1>4, <1>5, <1>6 DEF KindAt, Naming
  <2> QED
    BY <1>2, <1>5, <2>1 DEF IInv, KindsAtSteps, KindAt, Target
<1>11. EditsHold' /\ CascadesHold'
  <2>1. EditAt(c, step[c])' /\ CascadeAt(c, step[c])'
    BY <1>2, <1>4, <1>5, <1>6 DEF EditAt, CascadeAt
  <2> QED
    BY <1>2, <1>5, <2>1 DEF IInv, EditsHold, EditAt, CascadesHold, CascadeAt
<1>12. NamingsHold'
  <2>1. NamingAt(c, step[c])'
    BY <1>2, <1>4, <1>5, <1>6 DEF NamingAt
  <2> QED
    BY <1>2, <1>5, <2>1 DEF IInv, NamingsHold, NamingAt, Target, Wanted, Key
<1>13. HeldByKind'
  BY <1>2, <1>5, <1>6 DEF IInv, HeldByKind
<1>14. SerialIds'
  <2>1. c \notin Connected /\ Connected' \subseteq Connected \union {c}
    BY <1>5 DEF Begin, Connected
  <2>2. \A y \in Connected : y \in Calls /\ y # c /\ op'[y] = op[y]
    BY <1>5, <2>1 DEF Connected
  <2>3. op'[c] = r
    BY <1>5
  <2>4. ASSUME NEW x \in Connected'
        PROVE  /\ \A d \in op'[x].dishes : op'[x].kind = "add" <=> home'[d] = NoRow
               /\ \A a \in op'[x].categories \union op'[x].restaurants :
                    op'[x].kind = "addName" <=> name'[a] = NoRow
    BY <1>1, <1>2, <2>1, <2>2, <2>3 DEF IInv, SerialIds
  <2>5. ASSUME NEW x \in Connected', NEW y \in Connected' \ {x},
               op'[x].kind = op'[y].kind
        PROVE  /\ op'[x].kind = "add" => op'[x].dishes # op'[y].dishes
               /\ op'[x].kind = "addName" =>
                    <<op'[x].categories, op'[x].restaurants>>
                        # <<op'[y].categories, op'[y].restaurants>>
    <3>1. CASE x = c
      <4>1. y \in Connected
        BY <2>1, <3>1
      <4> QED
        BY <1>1, <2>2, <2>3, <2>5, <3>1, <4>1
    <3>2. CASE y = c
      <4>1. x \in Connected
        BY <2>1, <3>2
      <4> QED
        BY <1>1, <2>2, <2>3, <2>5, <3>2, <4>1
    <3>3. CASE x # c /\ y # c
      BY <2>1, <2>2, <2>5, <3>3 DEF IInv, SerialIds
    <3> QED
      BY <3>1, <3>2, <3>3
  <2> QED
    BY <2>4, <2>5 DEF SerialIds
<1>15. HeldIsLive' /\ LinksRefer' /\ CategoriesAsGiven'
  BY <1>2 DEF IInv, HeldIsLive, LinksRefer, CategoriesAsGiven
<1> QED
  BY <1>7, <1>8, <1>9, <1>10, <1>11, <1>12, <1>13, <1>14, <1>15 DEF IInv

-----------------------------------------------------------------------------
(* The end of a transaction. *)

LEMMA AfterEnds ==
    ASSUME IInv, NEW c \in Calls, Ends(c)
    PROVE  /\ pool' = pool
           /\ \A y \in Calls \ {c} :
                op'[y] = op[y] /\ step'[y] = step[y] /\ held'[y] = held[y]
           /\ op'[c] = NoRequest /\ op'[c].kind = "job"
           /\ step'[c] = "done" /\ held'[c] = {}
           /\ Connected' = Connected \ {c}
           /\ \A y \in Connected' : y \in Calls /\ y # c /\ y \in Connected
           /\ op' \in [Calls -> Operation] /\ step' \in [Calls -> Steps]
           /\ held' \in [Calls -> SUBSET (Rows \union Keys)]
           /\ awaited' \in [Calls -> Rows \union Keys \union {NoRow}]
           /\ Requested' /\ KindsAtSteps' /\ NamingsHold' /\ HeldByKind'
           /\ name' = name => LocksAgree'
<1>1. /\ op \in [Calls -> Operation] /\ step \in [Calls -> Steps]
      /\ held \in [Calls -> SUBSET (Rows \union Keys)]
      /\ awaited \in [Calls -> Rows \union Keys \union {NoRow}]
  BY DEF IInv, TypeOK
<1>2. /\ op' \in [Calls -> Operation] /\ step' \in [Calls -> Steps]
      /\ held' \in [Calls -> SUBSET (Rows \union Keys)]
      /\ awaited' \in [Calls -> Rows \union Keys \union {NoRow}]
      /\ pool' = pool
  BY <1>1, NoRequestIsOne DEF Ends, Steps
<1>3. /\ \A y \in Calls \ {c} :
            op'[y] = op[y] /\ step'[y] = step[y] /\ held'[y] = held[y]
      /\ op'[c] = NoRequest /\ step'[c] = "done" /\ held'[c] = {}
  BY <1>1 DEF Ends
<1>4. Connected' = Connected \ {c} /\ Connected \subseteq Calls
  BY <1>3 DEF Connected
<1>5. name' = name => LocksAgree'
  BY <1>3 DEF IInv, LocksAgree, Mode
<1>6. Requested'
  BY <1>3, NoRequestIsOne DEF IInv, Requested
<1>7. KindsAtSteps'
  <2>1. KindAt(c, step[c])'
    BY <1>3 DEF KindAt
  <2> QED
    BY <1>3, <2>1 DEF IInv, KindsAtSteps, KindAt, Target
<1>8. NamingsHold'
  <2>1. NamingAt(c, step[c])'
    BY <1>3, NoRequestIsOne DEF NamingAt
  <2> QED
    BY <1>3, <2>1 DEF IInv, NamingsHold, NamingAt, Target, Wanted, Key
<1>9. HeldByKind'
  BY <1>3, NoRequestIsOne DEF IInv, HeldByKind
<1> QED
  BY <1>2, <1>3, <1>4, <1>5, <1>6, <1>7, <1>8, <1>9, NoRequestIsOne

LEMMA EndKeeps ==
    ASSUME IInv, NEW c \in Calls, Ends(c), UNCHANGED data
    PROVE  IInv'
<1>1. live' = live /\ name' = name /\ home' = home /\ given' = given
  BY DEF data
<1>2. TypeOK'
  BY <1>1, AfterEnds DEF IInv, TypeOK
<1>3. EditsHold' /\ CascadesHold' /\ HeldIsLive'
  BY <1>1, AfterEnds DEF IInv, EditsHold, EditAt, CascadesHold, CascadeAt, HeldIsLive
<1>4. SerialIds'
  BY <1>1, AfterEnds DEF IInv, SerialIds
<1>5. LinksRefer' /\ CategoriesAsGiven'
  BY <1>1 DEF IInv, LinksRefer, CategoriesAsGiven
<1> QED
  BY <1>1, <1>2, <1>3, <1>4, <1>5, AfterEnds DEF IInv

\* A dish is stored: nobody else edits or adds it, the links it had are locked,
\* and who deletes a category does not have one that the dish is given.
LEMMA StoreDishKeeps ==
    ASSUME IInv, NEW c \in Calls, step[c] = "ending", Ends(c), StoreDish(c)
    PROVE  IInv'
<1>1. /\ op[c].kind \in {"edit", "add"} /\ c \in Connected /\ op[c] \in Requests
      /\ EditAt(c, "ending") /\ name' = name
  BY DEF StoreDish, Connected, IInv, Requested, EditsHold
<1>2. PICK d \in Dishes, q \in Restaurants :
        op[c].dishes = {d} /\ op[c].restaurants = {q}
  BY <1>1, RequestShape
<1> DEFINE C == op[c].categories
           L == held[c] \intersect Links
<1>3. C \subseteq Categories
  BY RequestOf
<1>4. /\ live' = (live \ L) \union {d} \union ({d} \X C)
      /\ home' = [e \in Dishes |-> IF e = d THEN q ELSE home[e]]
      /\ given' = [e \in Dishes |-> IF e = d THEN C ELSE given[e]]
  <2>1. (CHOOSE r \in {q} : TRUE) = q
    OBVIOUS
  <2> QED
    BY <1>2, <2>1 DEF StoreDish
<1>5. C \subseteq held[c] /\ C \subseteq live
  <2>1. C \subseteq held[c]
    BY <1>1 DEF EditAt
  <2> QED
    BY <1>3, <2>1 DEF IInv, HeldIsLive, Rows, Named
<1>6. op[c].kind = "edit" => d \in held[c] /\ d \in live
  <2>1. op[c].kind = "edit" => d \in held[c]
    BY <1>1, <1>2 DEF EditAt
  <2> QED
    BY <2>1 DEF IInv, HeldIsLive, Rows
<1>7. op[c].kind = "add" => d \notin live /\ home[d] = NoRow
  BY <1>1, <1>2 DEF IInv, SerialIds, TypeOK
\* The links that go are those of the dish.
<1>8. \A l \in Links \intersect live : l \in L <=> l[1] = d
  <2> SUFFICES ASSUME NEW l \in Links \intersect live
               PROVE  l \in L <=> l[1] = d
    OBVIOUS
  <2>1. l[1] \in Dishes
    BY DEF Links
  <2>2. CASE op[c].kind = "edit"
    <3>1. l[1] = d => l \in held[c]
      BY <1>1, <1>6, <2>2 DEF EditAt
    <3>2. l \in held[c] => l[1] \in held[c] \intersect Dishes
      BY <2>1, <2>2 DEF IInv, HeldByKind
    <3>3. held[c] \intersect Dishes \subseteq {d}
      BY <1>2, <2>2 DEF IInv, HeldByKind
    <3> QED
      BY <3>1, <3>2, <3>3
  <2>3. CASE op[c].kind = "add"
    <3>1. l \notin held[c]
      BY <2>3 DEF IInv, HeldByKind
    <3>2. l[1] # d
      BY <1>7, <2>3 DEF IInv, LinksRefer
    <3> QED
      BY <3>1, <3>2
  <2> QED
    BY <1>1, <2>2, <2>3
<1>9. \A y \in Calls \ {c} : held[y] \intersect L = {}
  <2> SUFFICES ASSUME NEW y \in Calls \ {c}, NEW l \in held[y] \intersect L
               PROVE  FALSE
    OBVIOUS
  <2>1. op[c].kind = "edit"
    BY <1>1 DEF IInv, HeldByKind
  <2>2. l \notin Named
    BY RowsAssumption DEF Named
  <2>3. Mode(c, l) = "exclusive"
    BY <2>1, <2>2 DEF Mode, Deletions, Naming
  <2> QED
    BY <2>3 DEF IInv, LocksAgree, Conflict
<1>10. /\ \A z : z \in Dishes \union Named => (z \in live' <=> z \in live \/ z = d)
       /\ \A k \in Categories : <<d, k>> \in live' <=> k \in C
       /\ \A e \in Dishes \ {d}, k \in Categories :
             <<e, k>> \in live' <=> <<e, k>> \in live
       /\ \A l \in Links : l \in live' => l \in live \/ l \in {d} \X C
  <2>1. {d} \X C \subseteq Links
    BY <1>3 DEF Links
  <2>2. ASSUME NEW z \in Dishes \union Named
        PROVE  z \in live' <=> z \in live \/ z = d
    <3>1. z \notin Links
      BY RowsAssumption DEF Named
    <3> QED
      BY <1>4, <2>1, <3>1
  <2>3. ASSUME NEW k \in Categories
        PROVE  <<d, k>> \in live' <=> k \in C
    <3>1. <<d, k>> \in Links /\ <<d, k>>[1] = d /\ <<d, k>> # d
      BY RowsAssumption DEF Links
    <3> QED
      BY <1>4, <1>8, <3>1
  <2>4. ASSUME NEW e \in Dishes \ {d}, NEW k \in Categories
        PROVE  <<e, k>> \in live' <=> <<e, k>> \in live
    <3>1. <<e, k>> \in Links /\ <<e, k>>[1] = e /\ <<e, k>> # d
      BY RowsAssumption DEF Links
    <3> QED
      BY <1>4, <1>8, <3>1
  <2>5. ASSUME NEW l \in Links, l \in live'
        PROVE  l \in live \/ l \in {d} \X C
    BY <1>4, <2>5, RowsAssumption
  <2> QED
    BY <2>2, <2>3, <2>4, <2>5
<1>11. TypeOK'
  <2>1. live' \subseteq Rows
    BY <1>3, <1>4 DEF IInv, TypeOK, Rows, Links
  <2>2. /\ home' \in [Dishes -> Restaurants \union {NoRow}]
        /\ given' \in [Dishes -> SUBSET Categories]
    BY <1>3, <1>4 DEF IInv, TypeOK
  <2>3. \A e \in Dishes \intersect live' : home'[e] # NoRow
    BY <1>4, <1>10, RowsAssumption DEF IInv, TypeOK
  <2>4. \A a \in Named \intersect live' : name'[a] # NoRow
    <3>1. d \notin Named
      BY RowsAssumption DEF Named
    <3> QED
      BY <1>1, <1>10, <3>1 DEF IInv, TypeOK
  <2> QED
    BY <1>1, <2>1, <2>2, <2>3, <2>4, AfterEnds DEF IInv, TypeOK
\* Another edit of the dish is none that has got so far.
<1>12. ASSUME NEW y \in Calls \ {c}, op[y].kind = "edit", d \in op[y].dishes,
              y \in Connected
       PROVE  d \in live
  BY <1>1, <1>2, <1>6, <1>12 DEF IInv, SerialIds
<1>13. ASSUME NEW y \in Calls \ {c}, op[y].kind = "edit", d \in held[y]
       PROVE  FALSE
  <2>1. d \in live
    BY <1>13 DEF IInv, HeldIsLive, Rows
  <2>2. op[c].kind = "edit" /\ d \in held[c]
    BY <1>1, <1>6, <1>7, <2>1
  <2>3. d \notin Named /\ d \notin Links
    BY RowsAssumption DEF Named
  <2>4. Mode(c, d) = "update" /\ Mode(y, d) = "update"
    BY <1>13, <2>2, <2>3 DEF Mode, Deletions, Naming
  <2> QED
    BY <1>13, <2>2, <2>4 DEF IInv, LocksAgree, Conflict
<1>14. EditsHold'
  <2> SUFFICES ASSUME NEW y \in Calls \ {c}
               PROVE  EditAt(y, step[y])'
    BY AfterEnds DEF EditsHold, EditAt
  <2>1. EditAt(y, step[y])
    BY DEF IInv, EditsHold
  <2>2. ASSUME op[y].kind = "edit",
               step[y] \in {"restaurant", "links", "categories", "nested", "using"}
        PROVE  op[y].dishes \intersect live' \subseteq held[y]
    <3>1. y \in Connected /\ op[y].dishes \subseteq Dishes
      BY <2>2, RequestOf DEF Connected
    <3>2. op[y].dishes \intersect live \subseteq held[y]
      BY <2>1, <2>2 DEF EditAt
    <3> QED
      BY <1>10, <1>12, <2>2, <3>1, <3>2
  <2>3. ASSUME op[y].kind = "edit",
               step[y] \in {"categories", "nested", "using", "ending"},
               NEW l \in Links \intersect live', l[1] \in held[y]
        PROVE  l \in held[y]
    <3>1. l \in live
      BY <1>10, <1>13, <2>3
    <3> QED
      BY <2>1, <2>3, <3>1 DEF EditAt
  <2> QED
    BY <2>1, <2>2, <2>3, AfterEnds DEF EditAt
<1>15. SerialIds'
  <2>1. ASSUME NEW y \in Connected \ {c}, NEW e \in op[y].dishes
        PROVE  op[y].kind = "add" <=> home'[e] = NoRow
    <3>1. e \in Dishes /\ y \in Calls /\ (op[y].kind = "add" <=> home[e] = NoRow)
      BY RequestOf DEF IInv, SerialIds, Connected
    <3>2. CASE e # d
      BY <1>4, <3>1, <3>2
    <3>3. CASE e = d
      <4>1. home'[d] # NoRow
        BY <1>4, RowsAssumption
      <4>2. op[y].kind # "add"
        <5> SUFFICES ASSUME op[y].kind = "add"
                     PROVE  FALSE
          OBVIOUS
        <5>1. op[y].dishes = {d}
          BY <3>1, <3>3, RequestOf, RequestShape
        <5>2. op[c].kind = "add"
          BY <1>1, <1>2, <3>1, <3>3 DEF IInv, SerialIds
        <5> QED
          BY <1>1, <1>2, <5>1, <5>2 DEF IInv, SerialIds
      <4> QED
        BY <3>3, <4>1, <4>2
    <3> QED
      BY <3>2, <3>3
  <2> QED
    BY <1>1, <2>1, AfterEnds DEF IInv, SerialIds
<1>16. HeldIsLive'
  BY <1>4, <1>9, AfterEnds DEF IInv, HeldIsLive
<1>17. CascadesHold'
  <2> SUFFICES ASSUME NEW y \in Calls \ {c}, op[y].kind = "deleteCategory",
                      step[y] = "ending", NEW l \in Links \intersect live',
                      l[2] \in held[y]
               PROVE  l \in held[y]
    BY AfterEnds DEF CascadesHold, CascadeAt
  <2>1. CASE l \in live
    BY <2>1 DEF IInv, CascadesHold, CascadeAt
  <2>2. CASE l \notin live
    <3>1. l \in {d} \X C
      BY <1>10, <2>2
    <3>2. l[2] \in held[c] \intersect held[y]
      BY <1>5, <3>1
    <3>3. Mode(y, l[2]) = "exclusive"
      BY DEF Mode, Deletions
    <3> QED
      BY <3>2, <3>3 DEF IInv, LocksAgree, Conflict
  <2> QED
    BY <2>1, <2>2
<1>18. LinksRefer'
  <2>1. ASSUME NEW l \in Links \intersect live'
        PROVE  home'[l[1]] # NoRow
    <3>1. l[1] \in Dishes
      BY DEF Links
    <3>2. l[1] # d => l \in live
      BY <1>10
    <3> QED
      BY <1>4, <3>1, <3>2, RowsAssumption DEF IInv, LinksRefer
  <2>2. ASSUME NEW e \in Dishes, NEW k \in given'[e]
        PROVE  name'[k] # NoRow
    <3>1. k \in C => name[k] # NoRow
      BY <1>3, <1>5 DEF IInv, TypeOK, Named
    <3> QED
      BY <1>1, <1>4, <3>1 DEF IInv, LinksRefer
  <2> QED
    BY <2>1, <2>2 DEF LinksRefer
<1>19. CategoriesAsGiven'
  <2> SUFFICES ASSUME NEW e \in Dishes \intersect live'
               PROVE  {k \in Categories : <<e, k>> \in live'} = given'[e] \intersect live'
    BY DEF CategoriesAsGiven
  <2>1. CASE e = d
    <3>1. given'[e] = C
      BY <1>4, <2>1
    <3>2. C \subseteq live'
      BY <1>3, <1>5, <1>10 DEF Named
    <3> QED
      BY <1>3, <1>10, <2>1, <3>1, <3>2
  <2>2. CASE e # d
    <3>1. e \in live /\ given'[e] = given[e] /\ given[e] \subseteq Categories
      BY <1>4, <1>10, <2>2 DEF IInv, TypeOK
    <3>2. {k \in Categories : <<e, k>> \in live'} = {k \in Categories : <<e, k>> \in live}
      BY <1>10, <2>2
    <3>3. given[e] \intersect live' = given[e] \intersect live
      <4>1. \A k \in Categories : k # d
        BY RowsAssumption
      <4> QED
        BY <1>10, <3>1, <4>1 DEF Named
    <3> QED
      BY <3>1, <3>2, <3>3 DEF IInv, CategoriesAsGiven
  <2> QED
    BY <2>1, <2>2
<1> QED
  BY <1>1, <1>11, <1>14, <1>15, <1>16, <1>17, <1>18, <1>19, AfterEnds DEF IInv

\* A link of a dish that is left goes if and only if its category goes.
LEMMA RemoveRowsKeeps ==
    ASSUME IInv, NEW c \in Calls, step[c] = "ending", Ends(c), RemoveRows(c)
    PROVE  IInv'
<1>1. /\ op[c].kind \in Deletions /\ live' = live \ held[c]
      /\ name' = name /\ home' = home /\ given' = given
  BY DEF RemoveRows
<1>2. \A y \in Calls \ {c} : held[y] \intersect held[c] = {}
  BY <1>1 DEF IInv, LocksAgree, Conflict, Mode, Deletions
<1>3. TypeOK'
  BY <1>1, AfterEnds DEF IInv, TypeOK
<1>4. EditsHold' /\ CascadesHold'
  BY <1>1, AfterEnds DEF IInv, EditsHold, EditAt, CascadesHold, CascadeAt
<1>5. HeldIsLive'
  BY <1>1, <1>2, AfterEnds DEF IInv, HeldIsLive
<1>6. SerialIds' /\ LinksRefer'
  BY <1>1, AfterEnds DEF IInv, SerialIds, LinksRefer
<1>7. CategoriesAsGiven'
  <2> SUFFICES ASSUME NEW d \in Dishes \intersect live', NEW k \in Categories
               PROVE  <<d, k>> \in live' <=> k \in given[d] \intersect live'
    BY <1>1 DEF CategoriesAsGiven, IInv, TypeOK
  <2>1. <<d, k>> \in live <=> k \in given[d] \intersect live
    BY <1>1 DEF IInv, CategoriesAsGiven
  <2>2. <<d, k>> \in Links /\ <<d, k>>[1] = d /\ <<d, k>>[2] = k /\ d \notin held[c]
    BY <1>1 DEF Links
  <2>3. <<d, k>> \in held[c] => k \in held[c]
    BY <2>2 DEF IInv, HeldByKind
  <2>4. <<d, k>> \in live /\ k \in held[c] => <<d, k>> \in held[c]
    <3>1. k \in held[c] => op[c].kind = "deleteCategory"
      BY <1>1 DEF IInv, HeldByKind, Deletions
    <3> QED
      BY <2>2, <3>1 DEF IInv, CascadesHold, CascadeAt
  <2> QED
    BY <1>1, <2>1, <2>3, <2>4
<1> QED
  BY <1>1, <1>3, <1>4, <1>5, <1>6, <1>7, AfterEnds DEF IInv

\* A row gets a name: one that is there and locked, or one that nobody has seen.
LEMMA StoreNameKeeps ==
    ASSUME IInv, NEW c \in Calls, step[c] = "ending", Ends(c), StoreName(c)
    PROVE  IInv'
<1>1. /\ op[c].kind \in Naming /\ c \in Connected
      /\ home' = home /\ given' = given /\ NamingAt(c, "ending")
  BY DEF StoreName, Connected, IInv, NamingsHold
<1>2. PICK a \in Named :
        /\ op[c].categories \union op[c].restaurants = {a}
        /\ Wanted(c) = {Key(a, op[c].name)}
        /\ op[c].kind = "rename" => Target(c) = {a}
  BY <1>1, OneWanted
<1>3. op[c].name \in Names /\ op[c].name # NoRow
  BY <1>1, RequestOf, RequestShape, RowsAssumption
<1>4. CASE ~(Wanted(c) \subseteq held[c])
  <2>1. UNCHANGED data
    BY <1>4 DEF StoreName, data
  <2> QED
    BY <2>1, EndKeeps
<1>5. CASE Wanted(c) \subseteq held[c]
  <2>1. /\ live' = live \union {a}
        /\ name' = [b \in Named |-> IF b = a THEN op[c].name ELSE name[b]]
    BY <1>2, <1>5 DEF StoreName
  <2>2. op[c].kind = "rename" => a \in held[c] /\ a \in live
    <3>1. op[c].kind = "rename" => a \in held[c]
      BY <1>1, <1>2, <1>5 DEF NamingAt
    <3> QED
      BY <3>1 DEF IInv, HeldIsLive, Rows
  <2>3. op[c].kind = "addName" => a \notin live /\ name[a] = NoRow
    BY <1>1, <1>2 DEF IInv, SerialIds, TypeOK
  <2>4. a \notin Dishes /\ a \notin Links
    BY RowsAssumption DEF Named
  <2>5. \A z : z \in Dishes \union Links => (z \in live' <=> z \in live)
    BY <2>1, <2>4
  <2>6. TypeOK'
    <3>1. live' \subseteq Rows /\ name' \in [Named -> Names \union {NoRow}]
      BY <1>3, <2>1 DEF IInv, TypeOK, Rows
    <3>2. \A b \in Named \intersect live' : name'[b] # NoRow
      BY <1>3, <2>1 DEF IInv, TypeOK
    <3> QED
      BY <1>1, <2>5, <3>1, <3>2, AfterEnds DEF IInv, TypeOK
  <2>7. LocksAgree'
    <3> SUFFICES ASSUME NEW x \in Calls \ {c}, NEW y \in Calls \ {c}, x # y,
                        NEW z \in held[x] \intersect held[y]
                 PROVE  ~Conflict(Mode(x, z)', Mode(y, z)')
      BY AfterEnds DEF LocksAgree
    <3>1. ~Conflict(Mode(x, z), Mode(y, z)) /\ op'[x] = op[x] /\ op'[y] = op[y]
      BY AfterEnds DEF IInv, LocksAgree
    <3>2. CASE z # a
      <4>1. z \in Named => name'[z] = name[z]
        BY <2>1, <3>2
      <4> QED
        BY <3>1, <4>1 DEF Mode
    <3>3. CASE z = a
      <4>1. a \in live
        BY <3>3 DEF IInv, HeldIsLive, Rows
      <4>2. op[c].kind = "rename" /\ a \in held[c]
        BY <1>1, <2>2, <2>3, <4>1 DEF Naming
      <4>3. Mode(c, a) \in {"update", "exclusive"}
        BY <4>2 DEF Mode, Naming
      <4>4. ~Conflict(Mode(c, a), Mode(x, a)) /\ ~Conflict(Mode(c, a), Mode(y, a))
        BY <3>3, <4>2 DEF IInv, LocksAgree
      <4>5. op[x].kind # "rename" /\ op[y].kind # "rename"
        BY <4>3, <4>4 DEF Mode, Naming, Conflict
      <4> QED
        BY <3>1, <3>3, <4>5 DEF Mode
    <3> QED
      BY <3>2, <3>3
  <2>8. EditsHold'
    <3>1. ASSUME NEW y \in Calls \ {c}
          PROVE  EditAt(y, step[y])'
      <4>1. EditAt(y, step[y]) /\ op[y].dishes \subseteq Dishes
        BY RequestOf DEF IInv, EditsHold
      <4> QED
        BY <2>5, <4>1, AfterEnds DEF EditAt
    <3> QED
      BY <3>1, AfterEnds DEF EditsHold, EditAt
  <2>9. CascadesHold'
    BY <2>5, AfterEnds DEF IInv, CascadesHold, CascadeAt
  <2>10. SerialIds'
    <3>1. ASSUME NEW y \in Connected \ {c},
                 NEW b \in op[y].categories \union op[y].restaurants
          PROVE  op[y].kind = "addName" <=> name'[b] = NoRow
      <4>1. b \in Named /\ y \in Calls /\ (op[y].kind = "addName" <=> name[b] = NoRow)
        BY RequestOf DEF IInv, SerialIds, Connected, Named
      <4>2. CASE b # a
        BY <2>1, <4>1, <4>2
      <4>3. CASE b = a
        <5>1. name'[a] # NoRow
          BY <1>3, <2>1
        <5>2. ASSUME op[y].kind = "addName"
              PROVE  FALSE
          <6>1. op[c].kind = "addName"
            BY <1>1, <1>2, <4>1, <4>3, <5>2 DEF IInv, SerialIds
          <6>2. /\ \/ \E e \in Categories :
                        op[c].categories = {e} /\ op[c].restaurants = {}
                   \/ \E e \in Restaurants :
                        op[c].categories = {} /\ op[c].restaurants = {e}
                /\ \/ \E e \in Categories :
                        op[y].categories = {e} /\ op[y].restaurants = {}
                   \/ \E e \in Restaurants :
                        op[y].categories = {} /\ op[y].restaurants = {e}
            BY <4>1, <5>2, <6>1, RequestOf, RequestShape DEF Naming
          <6>3. op[c].categories = op[y].categories /\ op[c].restaurants = op[y].restaurants
            BY <1>2, <4>3, <6>2, RowsAssumption
          <6> QED
            BY <1>1, <5>2, <6>1, <6>3 DEF IInv, SerialIds
        <5> QED
          BY <4>3, <5>1, <5>2
      <4> QED
        BY <4>2, <4>3
    <3> QED
      BY <1>1, <3>1, AfterEnds DEF IInv, SerialIds
  <2>11. HeldIsLive'
    BY <2>1, AfterEnds DEF IInv, HeldIsLive
  <2>12. LinksRefer'
    <3>1. ASSUME NEW d \in Dishes, NEW k \in given[d]
          PROVE  name'[k] # NoRow
      <4>1. k \in Named /\ name[k] # NoRow
        BY DEF IInv, TypeOK, LinksRefer, Named
      <4> QED
        BY <1>3, <2>1, <4>1
    <3> QED
      BY <1>1, <2>5, <3>1 DEF IInv, LinksRefer
  <2>13. CategoriesAsGiven'
    <3> SUFFICES ASSUME NEW d \in Dishes \intersect live'
                 PROVE  {k \in Categories : <<d, k>> \in live'} = given[d] \intersect live'
      BY <1>1 DEF CategoriesAsGiven
    <3>1. d \in live
      BY <2>5
    <3>2. {k \in Categories : <<d, k>> \in live'} = {k \in Categories : <<d, k>> \in live}
      BY <2>5 DEF Links
    <3>3. given[d] \intersect live' = given[d] \intersect live
      <4>1. a \notin live => a \notin given[d]
        BY <1>1, <2>2, <2>3 DEF IInv, LinksRefer, Naming
      <4> QED
        BY <2>1, <4>1
    <3> QED
      BY <3>1, <3>2, <3>3 DEF IInv, CategoriesAsGiven
  <2> QED
    BY <2>6, <2>7, <2>8, <2>9, <2>10, <2>11, <2>12, <2>13, AfterEnds DEF IInv
<1> QED
  BY <1>4, <1>5

LEMMA CommitKeeps ==
    ASSUME IInv, NEW c \in Calls, Commit(c)
    PROVE  IInv'
  BY EndKeeps, StoreDishKeeps, RemoveRowsKeeps, StoreNameKeeps DEF Commit

-----------------------------------------------------------------------------
(* Theorems. *)

LEMMA IInvHolds == Spec => []IInv
<1>1. IInv /\ [Next]_vars => IInv'
  <2> SUFFICES ASSUME IInv, [Next]_vars
               PROVE  IInv'
    OBVIOUS
  <2>1. CASE UNCHANGED vars
    BY <2>1, AwaitedKeeps DEF vars, data, IInv, TypeOK
  <2>2. ASSUME NEW c \in Calls, CallStep(c)
        PROVE  IInv'
    <3>1. CASE Begin(c) \/ LockRow(c) \/ Wait(c)
      BY <3>1, BeginKeeps, LockRowKeeps, WaitKeeps
    <3>2. CASE \/ EditDish(c) \/ MoveDish(c) \/ DeleteDishCategories(c)
               \/ InsertDish(c) \/ InsertDishCategories(c)
      BY <3>2, EditDishKeeps, MoveDishKeeps, DeleteDishCategoriesKeeps,
         InsertDishKeeps, InsertDishCategoriesKeeps
    <3>3. CASE InsertOrderItems(c) \/ RenameRow(c) \/ WriteName(c) \/ KeepName(c)
      BY <3>3, InsertOrderItemsKeeps, RenameRowKeeps, NameIsWritten
    <3>4. CASE DeleteRow(c) \/ CascadeToDishes(c) \/ CascadeToLinks(c)
      BY <3>4, DeletionsKeep
    <3>5. CASE TakeSecond(c) \/ GiveSecondBack(c) \/ Commit(c)
      BY <3>5, SecondKeeps, CommitKeeps
    <3>6. CASE Fail(c) \/ EndDeadlock(c)
      BY <3>6, EndKeeps DEF Fail, EndDeadlock
    <3> QED
      BY <2>2, <3>1, <3>2, <3>3, <3>4, <3>5, <3>6 DEF CallStep
  <2> QED
    BY <2>1, <2>2 DEF Next
<1> QED
  BY <1>1, InitHolds, PTL DEF Spec

\* Every variable has values of its type, a dish that is there has a restaurant
\* and a row with a unique name has one, in all states of Spec.
THEOREM TypeCorrect == Spec => []TypeOK
<1>1. IInv => TypeOK
  BY DEF IInv
<1> QED
  BY <1>1, IInvHolds, PTL

\* A dish has the categories that it was last given, without those deleted
\* since, however edits, deletions and victims of deadlocks interleave.
THEOREM CategoriesGiven == Spec => []CategoriesAsGiven
<1>1. IInv => CategoriesAsGiven
  BY DEF IInv
<1> QED
  BY <1>1, IInvHolds, PTL

-----------------------------------------------------------------------------
(* Who waits for whom. *)

LEMMA WaiterFacts ==
    ASSUME IInv, NEW x \in Calls, NEW y \in Calls, WaitsFor(x, y)
    PROVE  /\ awaited[x] \in Needs(x) \ held[x]
           /\ awaited[x] \in held[y] \union Gives(y) /\ x # y
           /\ Conflict(Mode(x, awaited[x]), Mode(y, awaited[x]))
           /\ step[x] \in {"first", "naming", "restaurant", "dishes", "links", "categories"}
           /\ y \in Connected
<1>1. /\ awaited[x] \in Needs(x) \ held[x]
      /\ awaited[x] \in held[y] \union Gives(y) /\ x # y
      /\ Conflict(Mode(x, awaited[x]), Mode(y, awaited[x]))
  BY DEF WaitsFor, Holders
<1>2. step[x] \in {"first", "naming", "restaurant", "dishes", "links", "categories"}
  BY <1>1 DEF Needs
<1>3. held[y] # {}
  BY <1>1 DEF Gives
<1>4. y \in Connected
  BY <1>3 DEF IInv, KindsAtSteps, KindAt, Connected
<1> QED
  BY <1>1, <1>2, <1>4

\* Who waits for a row waits for a call that has locked it.
LEMMA RowWaiter ==
    ASSUME IInv, NEW x \in Calls, NEW y \in Calls, WaitsFor(x, y), step[x] # "naming"
    PROVE  /\ awaited[x] \in held[y]
           /\ awaited[x] \notin Keys
BY WaiterFacts, KeysAreNoRows

\* Only an order and the deletions that cascade from something else than a dish
\* have several rows to lock with their first statement.
LEMMA OneTarget ==
    ASSUME IInv, NEW c \in Calls,
           op[c].kind \notin {"order", "deleteCategory", "deleteRestaurant"}
    PROVE  \A a, b \in Target(c) : a = b
<1>1. op[c] \in Requests /\ op[c] \in Operation
  BY RequestOf
<1>2. op[c].kind \in {"edit", "add", "job", "deleteDish", "rename", "addName"}
  BY <1>1 DEF Operation, Deletions, Naming
<1>3. CASE op[c].kind \in {"edit", "deleteDish"}
  <2>1. Target(c) = op[c].dishes
    BY <1>3 DEF Target
  <2> QED
    BY <1>1, <1>3, <2>1, RequestShape
<1>4. CASE op[c].kind = "add"
  <2>1. Target(c) = op[c].restaurants
    BY <1>4 DEF Target
  <2> QED
    BY <1>1, <1>4, <2>1, RequestShape
<1>5. CASE op[c].kind = "rename"
  BY <1>5, OneWanted DEF Naming
<1>6. CASE op[c].kind \in {"job", "addName"}
  BY <1>6 DEF Target
<1> QED
  BY <1>2, <1>3, <1>4, <1>5, <1>6

\* So such a call holds nothing while it waits for that row.
LEMMA FirstHoldsNothing ==
    ASSUME IInv, NEW c \in Calls, NEW y \in Calls, WaitsFor(c, y), step[c] = "first",
           op[c].kind \notin {"order", "deleteCategory", "deleteRestaurant"}
    PROVE  held[c] = {}
<1>1. awaited[c] \in Needs(c) \ held[c]
  BY WaiterFacts
<1>2. awaited[c] \in Target(c) /\ held[c] \subseteq Target(c)
  BY <1>1 DEF Needs, IInv, KindsAtSteps, KindAt
<1> QED
  BY <1>1, <1>2, OneTarget

\* A call that waits for a name waits, without a cascade, for a rename that has
\* locked its row and waits for another name.
LEMMA NameWaiter ==
    ASSUME IInv, NEW x \in Calls, NEW y \in Calls, WaitsFor(x, y), step[x] = "naming",
           NEW z \in Calls, WaitsFor(y, z),
           op[y].kind \notin {"deleteCategory", "deleteRestaurant"}
    PROVE  op[y].kind = "rename" /\ step[y] = "naming" /\ Wanted(x) \subseteq Gives(y)
<1>1. op[x].kind \in Naming
  BY DEF IInv, KindsAtSteps, KindAt
<1>2. PICK k \in Keys : Wanted(x) = {k}
  BY <1>1, OneWanted
<1>3. awaited[x] = k /\ k \in held[y] \union Gives(y)
  BY <1>2, WaiterFacts DEF Needs
<1>4. awaited[y] \in Needs(y) \ held[y]
  BY WaiterFacts
<1>5. KindAt(y, step[y]) /\ NamingAt(y, step[y])
  BY DEF IInv, KindsAtSteps, NamingsHold
<1>6. k \notin held[y]
  <2> SUFFICES ASSUME k \in held[y]
               PROVE  FALSE
    OBVIOUS
  <2>1. k \in Wanted(y) /\ step[y] \in {"naming", "ending"} /\ op[y].kind \in Naming
    BY <1>5 DEF NamingAt
  <2>2. step[y] = "naming"
    BY <2>1, WaiterFacts
  <2>3. Needs(y) = {k}
    BY <2>1, <2>2, OneWanted DEF Needs
  <2> QED
    BY <1>4, <2>3
<1>7. k \in Gives(y) /\ op[y].kind = "rename" /\ held[y] # {}
  BY <1>3, <1>6 DEF Gives
<1>8. step[y] # "first"
  BY <1>7, FirstHoldsNothing
<1>9. step[y] = "naming"
  <2>1. step[y] \in {"naming", "restaurant", "dishes", "links", "categories"}
    BY <1>8, WaiterFacts
  <2> QED
    BY <1>5, <1>7, <2>1 DEF KindAt, Deletions
<1> QED
  BY <1>2, <1>7, <1>9

LEMMA CircleHasCause == IInv => CirclesHaveACause
<1> SUFFICES ASSUME IInv, NEW S \in SUBSET Calls, Circle(S),
                    \A c \in S : op[c].kind \notin {"deleteCategory", "deleteRestaurant"},
                    \A T \in SUBSET S : ~Swap(T)
             PROVE  FALSE
  BY DEF CirclesHaveACause
<1>1. ASSUME NEW x \in S
      PROVE  \E y \in S : WaitsFor(x, y)
  BY DEF Circle
<1>2. op \in [Calls -> Operation]
  BY DEF IInv, TypeOK
\* Nobody waits for a name: the renames that do would be a swap.
<1>3. ASSUME NEW c \in S, step[c] = "naming"
      PROVE  FALSE
  <2> DEFINE T == {x \in S : op[x].kind = "rename" /\ step[x] = "naming"}
  <2>1. ASSUME NEW x \in S, step[x] = "naming"
        PROVE  \E y \in T : Wanted(x) \subseteq Gives(y)
    <3>1. PICK y \in S : WaitsFor(x, y)
      BY <1>1
    <3>2. PICK z \in S : WaitsFor(y, z)
      BY <1>1
    <3> QED
      BY <2>1, <3>1, <3>2, NameWaiter
  <2>2. T # {}
    BY <1>3, <2>1
  <2>3. Swap(T)
    BY <2>1, <2>2 DEF Swap
  <2> QED
    BY <2>3
<1>4. ASSUME NEW x \in S, NEW y \in S, WaitsFor(x, y)
      PROVE  /\ awaited[x] \in Needs(x) \ held[x]
             /\ awaited[x] \in held[y] /\ x # y
             /\ Conflict(Mode(x, awaited[x]), Mode(y, awaited[x]))
             /\ step[x] \in {"first", "restaurant", "dishes", "links", "categories"}
  BY <1>3, <1>4, WaiterFacts, RowWaiter
<1>5. ASSUME NEW y \in S, op[y].kind \in Naming
      PROVE  held[y] = {}
  <2>1. PICK z \in S : WaitsFor(y, z)
    BY <1>1
  <2>2. step[y] = "first"
    <3>1. step[y] \in {"first", "restaurant", "dishes", "links", "categories"}
      BY <1>4, <2>1
    <3> QED
      BY <1>5, <3>1 DEF IInv, KindsAtSteps, KindAt, Naming, Deletions
  <2> QED
    BY <1>5, <2>1, <2>2, FirstHoldsNothing DEF Naming
<1>6. ASSUME NEW x \in S
      PROVE  step[x] = "first"
  <2>1. PICK y \in S : WaitsFor(x, y)
    BY <1>1
  <2> DEFINE a == awaited[x]
  <2>2. /\ a \in Needs(x) \ held[x] /\ a \in held[y] /\ x # y
        /\ Conflict(Mode(x, a), Mode(y, a))
        /\ step[x] \in {"first", "restaurant", "dishes", "links", "categories"}
    BY <1>4, <2>1
  <2>3. ASSUME a \in Named, op[x].kind \in {"edit", "add"}
        PROVE  FALSE
    <3>1. a \notin Links /\ a \notin Dishes
      BY <2>3, RowsAssumption DEF Named
    <3>2. Mode(x, a) = "share"
      BY <2>3, <3>1 DEF Mode, Deletions, Naming
    <3>3. op[y].kind \notin Naming
      BY <1>5, <2>2
    <3>4. Mode(y, a) = "exclusive"
      BY <2>2, <3>2 DEF Conflict
    <3>5. op[y].kind = "deleteDish"
      BY <3>1, <3>3, <3>4 DEF Mode, Deletions
    <3> QED
      BY <2>2, <2>3, <3>5 DEF IInv, HeldByKind, Named
  <2>4. KindAt(x, step[x]) /\ EditAt(x, step[x])
    BY DEF IInv, KindsAtSteps, EditsHold
  <2>5. CASE step[x] = "restaurant"
    <3>1. op[x].kind = "edit"
      BY <2>4, <2>5 DEF KindAt
    <3>2. a \in Restaurants
      BY <1>2, <2>2, <2>5 DEF Needs, Operation
    <3> QED
      BY <2>3, <3>1, <3>2 DEF Named
  <2>6. CASE step[x] = "dishes"
    BY <2>4, <2>6 DEF KindAt
  <2>7. CASE step[x] = "categories"
    <3>1. op[x].kind \in {"edit", "add"}
      BY <2>4, <2>7 DEF KindAt
    <3>2. a \in Categories
      BY <1>2, <2>2, <2>7 DEF Needs, Operation
    <3> QED
      BY <2>3, <3>1, <3>2 DEF Named
  <2>8. CASE step[x] = "links"
    <3>1. op[x].kind \in {"edit", "deleteDish"}
      BY <2>4, <2>8 DEF KindAt, Deletions
    <3>2. held[x] \intersect Categories = {}
      BY <2>4, <2>8, <3>1 DEF IInv, HeldByKind, EditAt
    <3>3. a \in Links /\ a[1] \in held[x] /\ a[1] \in Dishes
      BY <2>2, <2>8, <3>2 DEF Needs, Links
    <3>4. op[y].kind \in {"edit", "deleteDish"} /\ a[1] \in held[y]
      BY <2>2, <3>3 DEF IInv, HeldByKind
    <3>5. a[1] \notin Links /\ a[1] \notin Named
      BY <3>3, RowsAssumption DEF Named
    <3>6. /\ Mode(x, a[1]) \in {"exclusive", "update"}
          /\ Mode(y, a[1]) \in {"exclusive", "update"}
      BY <3>1, <3>3, <3>4, <3>5 DEF Mode, Deletions
    <3>7. Conflict(Mode(x, a[1]), Mode(y, a[1]))
      BY <3>6 DEF Conflict
    <3> QED
      BY <2>2, <3>3, <3>4, <3>7 DEF IInv, LocksAgree
  <2> QED
    BY <2>2, <2>5, <2>6, <2>7, <2>8
<1>7. ASSUME NEW x \in S, NEW y \in S, WaitsFor(x, y)
      PROVE  op[y].kind = "order"
  <2>1. PICK z \in S : WaitsFor(y, z)
    BY <1>1
  <2>2. held[y] # {}
    BY <1>4, <1>7
  <2> QED
    BY <1>6, <2>1, <2>2, FirstHoldsNothing
<1>8. PICK x \in S : TRUE
  BY DEF Circle
<1>9. PICK y \in S : WaitsFor(x, y)
  BY <1>1
<1>10. PICK z \in S : WaitsFor(y, z)
  BY <1>1
<1>11. op[y].kind = "order" /\ op[z].kind = "order"
  BY <1>7, <1>9, <1>10
<1>12. Mode(y, awaited[y]) = "share" /\ Mode(z, awaited[y]) = "share"
  BY <1>11 DEF Mode, Deletions, Naming
<1> QED
  BY <1>4, <1>10, <1>12 DEF Conflict

LEMMA StuckOnlyForConnections == IInv => StuckFillsPool
<1> SUFFICES ASSUME IInv, Stuck
             PROVE  /\ pool <= Cardinality(Connected)
                    /\ \E c \in Calls : step[c] = "nested"
  BY DEF StuckFillsPool
<1>1. Connected \in SUBSET Calls /\ Connected # {}
  BY DEF Connected, Stuck
<1>2. PICK c \in Connected : step[c] = "nested" /\ ~ConnectionFree
  <2> SUFFICES ASSUME \A c \in Connected : ~(step[c] = "nested" /\ ~ConnectionFree)
               PROVE  FALSE
    OBVIOUS
  <2>1. \A c \in Connected : \E y \in Calls : WaitsFor(c, y)
    BY DEF Stuck, Waiting
  <2>2. \A c \in Connected : \E y \in Connected : WaitsFor(c, y)
    BY <1>1, <2>1, WaiterFacts
  <2>3. Circle(Connected)
    BY <1>1, <2>2 DEF Circle
  <2> QED
    BY <1>1, <2>3 DEF Stuck
<1>3. Twice = {}
  <2> SUFFICES ASSUME NEW y \in Calls, step[y] = "using"
               PROVE  FALSE
    BY DEF Twice
  <2>1. Waiting(y)
    BY DEF Stuck, Connected
  <2>2. PICK z \in Calls : WaitsFor(y, z)
    BY <2>1 DEF Waiting
  <2> QED
    BY <2>2, WaiterFacts
<1>4. Cardinality(Connected) \in Nat /\ Cardinality(Twice) = 0
  BY <1>1, <1>3, CallsAssumption, FS_Subset, FS_EmptySet, FS_CardinalityType
<1>5. pool \in Int
  BY PoolAssumption DEF IInv, TypeOK
<1> QED
  BY <1>1, <1>2, <1>4, <1>5 DEF ConnectionFree

\* Edits, orders, additions and deletions of dishes never wait for each other in
\* a circle: the deletion of a category or a restaurant is in every one, or
\* renames are that swap names.
THEOREM CirclesCaused == Spec => []CirclesHaveACause
  BY CircleHasCause, IInvHolds, PTL

\* If nobody goes on and PostgreSQL has no victim, for rows and for names, the
\* connections of the pool are all taken and one of the calls that have them
\* asks for a second.
THEOREM OnlyThePoolSticks == Spec => []StuckFillsPool
  BY StuckOnlyForConnections, IInvHolds, PTL
=============================================================================

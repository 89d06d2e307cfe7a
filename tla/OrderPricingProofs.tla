------------------------- MODULE OrderPricingProofs -------------------------
(***************************************************************************)
(* For any dishes, prices and counts: the order's types, that wrapping     *)
(* cannot hide in a sum that fits, and that the invoice adds up to the     *)
(* total in whatever order the lines are added.                            *)
(***************************************************************************)
EXTENDS OrderPricing, FiniteSetTheorems, TLAPS

-----------------------------------------------------------------------------
(* Sums over a finite set. *)

Sum(f, S) == MapThenSumSet(LAMBDA d : f[d], S)

Any(s) == CHOOSE x \in s : TRUE

SumTo(f, g, s) == IF s = {} THEN 0 ELSE f[Any(s)] + g[s \ {Any(s)}]

\* g holds the sum of f over every subset of S.
SumsUpTo(f, S, g) == g = [s \in SUBSET S |-> SumTo(f, g, s)]

Sums(f, S) == CHOOSE g : SumsUpTo(f, S, g)

\* Induction over the subsets of a finite set: if some of them are bad, one is
\* bad that is not after an element is taken from it.
LEMMA SmallestSet ==
    ASSUME NEW S, IsFiniteSet(S), NEW B, B \subseteq SUBSET S, B # {}
    PROVE  \E m \in B : \A x \in m : m \ {x} \notin B
<1>1. IsWellFoundedOn(StrictSubsetOrdering(S), FiniteSubsetsOf(S))
    BY FS_StrictSubsetOrderingWellFounded
<1>2. B \subseteq FiniteSubsetsOf(S)
    BY FS_Subset DEF FiniteSubsetsOf
<1>3. PICK m \in B : \A y \in B : ~ (<<y, m>> \in StrictSubsetOrdering(S))
    BY <1>1, <1>2, WFMin
<1>4. ASSUME NEW x \in m, m \ {x} \in B PROVE FALSE
    BY <1>3, <1>4 DEF StrictSubsetOrdering
<1>5. QED
    BY <1>3, <1>4

LEMMA AnyIsElement == ASSUME NEW s, s # {} PROVE Any(s) \in s
    BY DEF Any

LEMMA SumEquation ==
    ASSUME NEW f, NEW S, NEW g, SumsUpTo(f, S, g), NEW T \in SUBSET S
    PROVE  g[T] = SumTo(f, g, T)
BY DEF SumsUpTo

\* What a subset sums up to does not depend on the set it is taken from.
LEMMA SumsAgree ==
    ASSUME NEW f, NEW S, IsFiniteSet(S), NEW T \in SUBSET S, NEW U \in SUBSET S,
           NEW g, SumsUpTo(f, T, g), NEW h, SumsUpTo(f, U, h),
           NEW s \in SUBSET (T \intersect U)
    PROVE  g[s] = h[s]
<1> DEFINE B == {r \in SUBSET (T \intersect U) : g[r] # h[r]}
<1>1. SUFFICES ASSUME B # {} PROVE FALSE
    OBVIOUS
<1>2. B \subseteq SUBSET S
    OBVIOUS
<1>3. PICK m \in B : \A x \in m : m \ {x} \notin B
  <2> HIDE DEF B
  <2>1. QED
    BY <1>1, <1>2, SmallestSet
<1>4. g[m] = SumTo(f, g, m) /\ h[m] = SumTo(f, h, m)
    BY DEF SumsUpTo
<1>5. m # {}
    BY <1>4 DEF SumTo
<1>6. g[m \ {Any(m)}] = h[m \ {Any(m)}]
    BY <1>3, <1>5, AnyIsElement
<1>7. QED
    BY <1>4, <1>5, <1>6 DEF SumTo

\* The recursion that MapThenSumSet is defined by has a solution.
LEMMA SumsExist ==
    ASSUME NEW f, NEW S, IsFiniteSet(S)
    PROVE  \E g : SumsUpTo(f, S, g)
<1> DEFINE B == {T \in SUBSET S : \A g : ~SumsUpTo(f, T, g)}
<1>1. SUFFICES ASSUME B # {} PROVE FALSE
    OBVIOUS
<1>2. B \subseteq SUBSET S
    OBVIOUS
<1>3. PICK m \in B : \A x \in m : m \ {x} \notin B
  <2> HIDE DEF B
  <2>1. QED
    BY <1>1, <1>2, SmallestSet
<1> DEFINE H(s) == Sums(f, m \ {Any(m \ s)})[s]
           g == [s \in SUBSET m |-> IF s = m THEN SumTo(f, [r \in SUBSET m |-> H(r)], m) ELSE H(s)]
<1>4. ASSUME NEW x \in m PROVE SumsUpTo(f, m \ {x}, Sums(f, m \ {x}))
    BY <1>3 DEF Sums
<1>5. ASSUME NEW s \in SUBSET m, s # m, NEW x \in m, x \notin s
      PROVE  H(s) = Sums(f, m \ {x})[s]
  <2>1. Any(m \ s) \in m \ s
    BY <1>5, AnyIsElement
  <2> DEFINE T == m \ {x}
             U == m \ {Any(m \ s)}
  <2>2. s \in SUBSET (T \intersect U) /\ T \in SUBSET S /\ U \in SUBSET S
    BY <1>5, <2>1
  <2>3. SumsUpTo(f, T, Sums(f, T)) /\ SumsUpTo(f, U, Sums(f, U))
    BY <1>4, <2>1
  <2>4. H(s) = Sums(f, U)[s]
    OBVIOUS
  <2> HIDE DEF T, U, H
  <2>5. Sums(f, U)[s] = Sums(f, T)[s]
    BY <2>2, <2>3, SumsAgree
  <2>6. QED
    BY <2>4, <2>5 DEF T
<1>6. ASSUME NEW s \in SUBSET m PROVE g[s] = SumTo(f, g, s)
  <2>1. CASE s = m
    <3>1. CASE s = {}
      BY <2>1, <3>1 DEF SumTo
    <3>2. CASE s # {}
      <4>1. s \ {Any(s)} \in SUBSET m /\ s \ {Any(s)} # m
        BY <2>1, <3>2, AnyIsElement
      <4> HIDE DEF H
      <4>2. QED
        BY <2>1, <3>2, <4>1 DEF SumTo
    <3>3. QED
      BY <3>1, <3>2
  <2>2. CASE s # m
    <3>1. PICK x \in m : x \notin s
      BY <2>2
    <3>2. g[s] = Sums(f, m \ {x})[s]
      BY <1>5, <2>2, <3>1
    <3>3. Sums(f, m \ {x})[s] = SumTo(f, Sums(f, m \ {x}), s)
      BY <1>4, <3>1, SumEquation
    <3>4. CASE s = {}
      BY <3>2, <3>3, <3>4 DEF SumTo
    <3>5. CASE s # {}
      <4>1. s \ {Any(s)} \in SUBSET m /\ s \ {Any(s)} # m /\ x \notin s \ {Any(s)}
        BY <3>1
      <4>2. g[s \ {Any(s)}] = Sums(f, m \ {x})[s \ {Any(s)}]
        BY <1>5, <4>1
      <4> HIDE DEF g
      <4>3. QED
        BY <3>2, <3>3, <3>5, <4>2 DEF SumTo
    <3>6. QED
      BY <3>4, <3>5
  <2>3. QED
    BY <2>1, <2>2
<1>7. SumsUpTo(f, m, g)
  <2>1. g = [s \in SUBSET m |-> g[s]]
    OBVIOUS
  <2> HIDE DEF g
  <2>2. QED
    BY <1>6, <2>1 DEF SumsUpTo
<1>8. QED
    BY <1>3, <1>7

\* So MapThenSumSet is what that solution holds.
LEMMA SumIs ==
    ASSUME NEW f, NEW S, IsFiniteSet(S), NEW T \in SUBSET S, NEW g, SumsUpTo(f, S, g)
    PROVE  Sum(f, T) = g[T]
<1>1. Sum(f, T) = Sums(f, T)[T]
    BY Zenon DEF Sum, MapThenSumSet, MapThenFoldSet, Sums, SumsUpTo, SumTo, Any
<1>2. IsFiniteSet(T)
    BY FS_Subset
<1>3. SumsUpTo(f, T, Sums(f, T))
    BY <1>2, SumsExist DEF Sums
<1>4. T \in SUBSET (T \intersect S) /\ S \in SUBSET S
    OBVIOUS
<1>5. QED
    BY <1>1, <1>3, <1>4, SumsAgree

\* The sum of a set is that of any of its elements and of the rest.
LEMMA SumOfRest ==
    ASSUME NEW S, IsFiniteSet(S), NEW f, \A x \in S : f[x] \in Int
    PROVE  /\ Sum(f, {}) = 0
           /\ \A T \in SUBSET S :
                 /\ Sum(f, T) \in Int
                 /\ \A x \in T : Sum(f, T) = f[x] + Sum(f, T \ {x})
<1>1. PICK g : SumsUpTo(f, S, g)
    BY SumsExist
<1>2. ASSUME NEW T \in SUBSET S PROVE Sum(f, T) = g[T] /\ g[T] = SumTo(f, g, T)
    BY <1>1, SumIs, SumEquation
<1>3. Sum(f, {}) = 0 /\ g[{}] = 0
    BY <1>2 DEF SumTo
<1>4. \A T \in SUBSET S : g[T] \in Int
  <2> DEFINE B == {T \in SUBSET S : g[T] \notin Int}
  <2>1. SUFFICES ASSUME B # {} PROVE FALSE
    OBVIOUS
  <2>2. PICK m \in B : \A x \in m : m \ {x} \notin B
    <3>1. B \subseteq SUBSET S
      OBVIOUS
    <3> HIDE DEF B
    <3>2. QED
      BY <2>1, <3>1, SmallestSet
  <2>3. m # {}
    BY <1>3, <2>2
  <2>4. Any(m) \in m /\ m \ {Any(m)} \in SUBSET S
    BY <2>3, AnyIsElement
  <2>5. g[m] = f[Any(m)] + g[m \ {Any(m)}]
    BY <1>2, <2>3 DEF SumTo
  <2>6. QED
    BY <2>2, <2>4, <2>5
<1>5. \A T \in SUBSET S : \A x \in T : g[T] = f[x] + g[T \ {x}]
  <2> DEFINE B == {T \in SUBSET S : ~ \A x \in T : g[T] = f[x] + g[T \ {x}]}
  <2>1. SUFFICES ASSUME B # {} PROVE FALSE
    OBVIOUS
  <2>2. PICK m \in B : \A x \in m : m \ {x} \notin B
    <3>1. B \subseteq SUBSET S
      OBVIOUS
    <3> HIDE DEF B
    <3>2. QED
      BY <2>1, <3>1, SmallestSet
  <2>3. PICK x \in m : g[m] # f[x] + g[m \ {x}]
    OBVIOUS
  <2>4. PICK a \in m : g[m] = f[a] + g[m \ {a}]
    BY <1>2, <2>3, AnyIsElement DEF SumTo
  <2>5. a # x
    BY <2>3, <2>4
  <2> DEFINE rest == m \ {a, x}
  <2>6. /\ rest = (m \ {a}) \ {x} /\ rest = (m \ {x}) \ {a}
        /\ rest \in SUBSET S /\ m \ {a} \in SUBSET S /\ m \ {x} \in SUBSET S
    OBVIOUS
  <2>7. g[m \ {a}] = f[x] + g[rest]
    BY <2>2, <2>5, <2>6
  <2>8. g[m \ {x}] = f[a] + g[rest]
    BY <2>2, <2>5, <2>6
  <2>9. g[rest] \in Int /\ f[a] \in Int /\ f[x] \in Int
    BY <1>4, <2>6
  <2>10. QED
    BY <2>3, <2>4, <2>7, <2>8, <2>9
<1>6. ASSUME NEW T \in SUBSET S, NEW x \in T PROVE T \ {x} \in SUBSET S
    OBVIOUS
<1>7. QED
    BY <1>2, <1>3, <1>4, <1>5, <1>6

LEMMA SumOfNothing == ASSUME NEW f PROVE Sum(f, {}) = 0
<1>1. IsFiniteSet({}) /\ \A x \in {} : f[x] \in Int
    BY FS_EmptySet
<1>2. QED
    BY <1>1, SumOfRest

\* Only what a function holds on the set matters to the sum over it.
LEMMA SumDependsOnSet ==
    ASSUME NEW S, IsFiniteSet(S), NEW f, NEW h, \A x \in S : f[x] = h[x]
    PROVE  Sum(f, S) = Sum(h, S)
<1>1. PICK g : SumsUpTo(f, S, g)
    BY SumsExist
<1>2. \A T \in SUBSET S : SumTo(f, g, T) = SumTo(h, g, T)
    BY AnyIsElement DEF SumTo
<1>3. SumsUpTo(h, S, g)
    BY <1>1, <1>2 DEF SumsUpTo
<1>4. QED
    BY <1>1, <1>3, SumIs
-----------------------------------------------------------------------------
(* Wrapping. *)

\* A wrapped number is an int32, and an int32 is not wrapped.
LEMMA WrapIsInt32 ==
    ASSUME NEW n \in Int
    PROVE  Wrap(n) \in Int32 /\ (n \in Int32 => Wrap(n) = n)
<1> DEFINE M == MaxInt + 1
<1>1. M \in Nat \ {0} /\ n + M \in Int
    BY MaxIntAssumption
<1>2. (n + M) % (2 * M) \in 0..(2 * M - 1)
    BY <1>1
<1>3. QED
    BY <1>1, <1>2, MaxIntAssumption DEF Wrap, Int32

\* Two int32 that differ by a multiple of 2 ^ 32 are equal.
LEMMA SameLowBits ==
    ASSUME NEW x \in Int32, NEW y \in Int32, NEW k \in Int, x = y + 2 * (MaxInt + 1) * k
    PROVE  x = y
<1> DEFINE M == MaxInt + 1
<1>1. M \in Nat \ {0} /\ M \in Int
    BY MaxIntAssumption
<1>2. x \in -M..(M - 1) /\ y \in -M..(M - 1)
    BY MaxIntAssumption DEF Int32
<1>3. (k >= 1 => M * k >= M) /\ (k <= -1 => M * k <= -M) /\ M * k \in Int
    BY <1>1
<1>4. x = y + 2 * (M * k)
    BY <1>1
<1>5. k = 0 => M * k = 0
    BY <1>1
<1> HIDE DEF M
<1>6. QED
    BY <1>1, <1>2, <1>3, <1>4, <1>5

\* What % cuts off is a multiple of the divisor.
LEMMA Division ==
    ASSUME NEW a \in Int, NEW d \in Nat \ {0}
    PROVE  a \div d \in Int /\ a % d \in Int /\ a = d * (a \div d) + (a % d)
<1>1. a \div d \in Int
    OBVIOUS
<1>2. a % d \in 0..(d - 1)
    OBVIOUS
<1>3. a = d * (a \div d) + (a % d)
    OBVIOUS
<1>4. QED
    BY <1>1, <1>2, <1>3

\* Wrapping moves a number by a multiple of 2 ^ 32.
LEMMA WrapShifts ==
    ASSUME NEW n \in Int
    PROVE  \E k \in Int : Wrap(n) = n + 2 * (MaxInt + 1) * k
<1> DEFINE M == MaxInt + 1
           D == 2 * M
<1>1. M \in Nat \ {0} /\ D \in Nat \ {0} /\ n + M \in Int /\ MaxInt \in Int
    BY MaxIntAssumption
<1>2. CASE n \in Int32
  <2>1. Wrap(n) = n + D * 0
    BY <1>1, <1>2 DEF Wrap
  <2>2. QED
    BY <2>1
<1>3. CASE n \notin Int32
  <2> DEFINE q == (n + M) \div D
             r == (n + M) % D
  <2>1. n + MaxInt + 1 = n + M
    BY <1>1
  <2>2. Wrap(n) = r - M
    BY <1>3, <2>1, Zenon DEF Wrap
  <2> HIDE DEF M, D
  <2>3. q \in Int /\ r \in Int /\ n + M = D * q + r
    BY <1>1, Division
  <2>4. D * q \in Int /\ D * (-q) = -(D * q) /\ -q \in Int
    BY <1>1, <2>3
  <2> HIDE DEF q, r
  <2> DEFINE p == D * q
  <2>5. Wrap(n) = n + -p
    <3>1. p \in Int /\ n + M = p + r
      BY <2>3, <2>4
    <3> HIDE DEF p
    <3>2. QED
      BY <1>1, <2>2, <2>3, <3>1
  <2>6. Wrap(n) = n + D * (-q)
    BY <2>4, <2>5
  <2>7. QED
    BY <2>4, <2>6 DEF D, M
<1>4. QED
    BY <1>2, <1>3

\* It does not matter whether a summand was wrapped before.
LEMMA WrapOfSum ==
    ASSUME NEW a \in Int, NEW b \in Int
    PROVE  Wrap(Wrap(a) + b) = Wrap(a + b)
<1> DEFINE D == 2 * (MaxInt + 1)
<1>1. D \in Nat
    BY MaxIntAssumption
<1>2. PICK i \in Int : Wrap(a) = a + D * i
    BY WrapShifts
<1>3. Wrap(a) + b \in Int /\ a + b \in Int
    BY <1>1, <1>2
<1>4. PICK j \in Int : Wrap(Wrap(a) + b) = Wrap(a) + b + D * j
    BY <1>3, WrapShifts
<1>5. PICK k \in Int : Wrap(a + b) = a + b + D * k
    BY <1>3, WrapShifts
<1> DEFINE l == i + j - k
<1>6. l \in Int /\ D * l = D * i + D * j - D * k
    BY <1>1
<1>7. D * i \in Int /\ D * j \in Int /\ D * k \in Int
    BY <1>1
<1>8. Wrap(Wrap(a) + b) = Wrap(a + b) + D * l
  <2> HIDE DEF D, l
  <2>1. QED
    BY <1>2, <1>4, <1>5, <1>6, <1>7
<1>9. Wrap(Wrap(a) + b) \in Int32 /\ Wrap(a + b) \in Int32
    BY <1>3, WrapIsInt32
<1>10. QED
    BY <1>6, <1>8, <1>9, SameLowBits
-----------------------------------------------------------------------------
(* The inductive invariant. *)

\* What was added so far is in the line of its item and in the sum.
AddedUp ==
    /\ \A d \in Items \ left : step \in {"adding", "stored"} =>
        /\ line[d] = Wrap(count[d] * read[d])
        /\ count[d] * read[d] <= exact
    /\ exact <= MaxInt => total = exact
    /\ step = "stored" => left = {}
    /\ step = "new" => exact = 0 /\ total = 0

\* The lines so far make the total, up to what wrapping loses, and the true sum
\* if that is an int32.
LinesMakeTotal ==
    step \in {"adding", "stored"} =>
        /\ Wrap(Sum(line, Items \ left)) = total
        /\ exact <= MaxInt => Sum(line, Items \ left) = exact

IInv == TypeOK /\ AddedUp /\ LinesMakeTotal

\* The price of the portions of an item is a natural number.
LEMMA ProductIsNat ==
    ASSUME TypeOK, NEW d \in Dishes
    PROVE  count[d] * read[d] \in Nat /\ read[d] * count[d] = count[d] * read[d]
<1>1. count[d] \in 0..MaxCount /\ read[d] \in Prices \union {0}
    BY DEF TypeOK
<1>2. count[d] \in Nat
    BY <1>1
<1>3. read[d] \in Nat
  <2>1. \A p \in Prices : p \in Nat
    BY PricesAssumption, MaxIntAssumption
  <2>2. QED
    BY <1>1, <2>1
<1>4. \A a, b \in Nat : a * b \in Nat /\ a * b = b * a
    OBVIOUS
<1>5. QED
    BY <1>2, <1>3, <1>4

LEMMA InitIsGood == ASSUME Init PROVE IInv
<1>1. 0 \in Int32 /\ 0 \in Nat /\ (0 <= MaxInt)
    BY MaxIntAssumption DEF Int32
<1>2. TypeOK
    BY <1>1 DEF Init, TypeOK
<1>3. AddedUp
    BY DEF Init, AddedUp
<1>4. LinesMakeTotal
    BY DEF Init, LinesMakeTotal
<1>5. QED
    BY <1>2, <1>3, <1>4 DEF IInv

\* What the invoice sums up to grows by the line of the item that is added.
LEMMA LineIsAdded ==
    ASSUME TypeOK, NEW d \in left, NEW n \in Int,
           line' = [line EXCEPT ![d] = n], left' = left \ {d}, UNCHANGED count
    PROVE  /\ Sum(line, Items \ left) \in Int
           /\ Sum(line', Items' \ left') = n + Sum(line, Items \ left)
<1> DEFINE S == Items \ left
           T == Items' \ left'
<1>1. /\ d \in Items /\ Items \subseteq Dishes /\ Items' = Items
      /\ T = S \union {d} /\ S = T \ {d} /\ T \subseteq Dishes
    BY DEF TypeOK, Items
<1>2. IsFiniteSet(S) /\ IsFiniteSet(T)
    BY <1>1, DishesAssumption, FS_Subset
<1>3. \A e \in Dishes : line[e] \in Int /\ line'[e] \in Int
    BY MaxIntAssumption DEF TypeOK, Int32
<1>4. line'[d] = n /\ \A e \in S : line'[e] = line[e]
    BY <1>1 DEF TypeOK
<1> HIDE DEF S, T
<1>5. Sum(line, S) \in Int
    BY <1>1, <1>2, <1>3, SumOfRest
<1>6. Sum(line', T) = line'[d] + Sum(line', T \ {d})
  <2>1. T \in SUBSET T /\ d \in T /\ \A e \in T : line'[e] \in Int
    BY <1>1, <1>3
  <2>2. ASSUME NEW f, \A e \in T : f[e] \in Int
        PROVE  Sum(f, T) = f[d] + Sum(f, T \ {d})
    BY <1>2, <2>1, <2>2, SumOfRest
  <2>3. QED
    BY <2>1, <2>2
<1>7. Sum(line', S) = Sum(line, S)
    BY <1>2, <1>4, SumDependsOnSet
<1>8. QED
    BY <1>1, <1>4, <1>5, <1>6, <1>7 DEF S, T

\* The loop: everything so far is in the sum, and so is one more item.
LEMMA AddItemStep == ASSUME IInv, NEW d \in Dishes, AddItem(d) PROVE IInv'
<1> DEFINE product == count[d] * read[d]
<1>1. TypeOK /\ AddedUp /\ LinesMakeTotal
    BY DEF IInv
<1>2. product \in Nat /\ read[d] * count[d] = product
    BY <1>1, ProductIsNat
<1>3. product \in Int
    BY <1>2
<1>4. Wrap(product) \in Int32 /\ (product \in Int32 => Wrap(product) = product)
    BY <1>3, WrapIsInt32
<1>5. total \in Int /\ exact \in Nat /\ Wrap(product) \in Int
    BY <1>1, <1>4, MaxIntAssumption DEF TypeOK, Int32
<1>6. LET sum == total + Wrap(product)
      IN  Wrap(sum) \in Int32 /\ (sum \in Int32 => Wrap(sum) = sum)
    BY <1>5, WrapIsInt32
<1>7. /\ line' = [line EXCEPT ![d] = Wrap(product)]
      /\ total' = Wrap(total + Wrap(product))
      /\ exact' = exact + product
      /\ left' = left \ {d}
      /\ d \in left /\ step = "adding"
      /\ UNCHANGED <<price, count, read, step>>
    BY <1>2 DEF AddItem
<1>8. Items' = Items
    BY <1>7 DEF Items
<1>9. TypeOK'
    BY <1>1, <1>2, <1>4, <1>5, <1>6, <1>7, <1>8 DEF TypeOK
<1>10. exact' <= MaxInt => total' = exact'
  <2>1. SUFFICES ASSUME exact + product <= MaxInt
                 PROVE  Wrap(total + Wrap(product)) = exact + product
    BY <1>7
  <2>2. exact <= MaxInt /\ product \in Int32 /\ exact + product \in Int32
    BY <1>2, <1>5, <2>1, MaxIntAssumption DEF Int32
  <2>3. total = exact /\ Wrap(product) = product
    BY <1>1, <1>4, <2>2 DEF AddedUp
  <2>4. QED
    BY <1>6, <2>2, <2>3
<1>11. \A e \in Items' \ left' :
          line'[e] = Wrap(count'[e] * read'[e]) /\ count'[e] * read'[e] <= exact'
  <2>1. TAKE e \in Items' \ left'
  <2>2. e \in Dishes /\ (e = d \/ e \in Items \ left)
    BY <1>7, <1>8 DEF Items
  <2>3. CASE e = d
    BY <1>1, <1>2, <1>5, <1>7, <2>3 DEF TypeOK
  <2>4. CASE e # d
    <3>1. line[e] = Wrap(count[e] * read[e]) /\ count[e] * read[e] <= exact
      BY <1>1, <1>7, <2>2, <2>4 DEF AddedUp
    <3>2. count[e] * read[e] \in Nat
      BY <1>1, <2>2, ProductIsNat
    <3>3. count[e] * read[e] <= exact + product
      BY <1>2, <1>5, <3>1, <3>2
    <3>4. QED
      BY <1>1, <1>7, <2>2, <2>4, <3>1, <3>3 DEF TypeOK
  <2>5. QED
    BY <2>3, <2>4
<1>12. AddedUp'
    BY <1>7, <1>10, <1>11 DEF AddedUp
<1> DEFINE sum == Sum(line, Items \ left)
<1>13. sum \in Int /\ Sum(line', Items' \ left') = Wrap(product) + sum
    BY <1>1, <1>5, <1>7, LineIsAdded
<1>14. Wrap(Wrap(product) + sum) = total'
  <2>1. Wrap(sum) = total
    BY <1>1, <1>7 DEF LinesMakeTotal
  <2>2. Wrap(Wrap(sum) + Wrap(product)) = Wrap(sum + Wrap(product))
    BY <1>5, <1>13, WrapOfSum
  <2>3. sum + Wrap(product) = Wrap(product) + sum
    BY <1>5, <1>13
  <2>4. QED
    BY <1>7, <2>1, <2>2, <2>3
<1>15. exact' <= MaxInt => Wrap(product) + sum = exact'
  <2>1. SUFFICES ASSUME exact + product <= MaxInt
                 PROVE  Wrap(product) + sum = exact + product
    BY <1>7
  <2>2. exact <= MaxInt /\ product \in Int32
    BY <1>2, <1>5, <2>1, MaxIntAssumption DEF Int32
  <2>3. sum = exact /\ Wrap(product) = product
    BY <1>1, <1>4, <1>7, <2>2 DEF LinesMakeTotal
  <2>4. QED
    BY <1>2, <1>5, <2>3
<1>16. LinesMakeTotal'
  <2> HIDE DEF product, sum
  <2>1. QED
    BY <1>13, <1>14, <1>15 DEF LinesMakeTotal
<1>17. QED
    BY <1>9, <1>12, <1>16 DEF IInv

LEMMA OtherStep ==
    ASSUME IInv, [Next]_vars, \A d \in Dishes : ~AddItem(d)
    PROVE  IInv'
<1>1. TypeOK /\ AddedUp /\ LinesMakeTotal
    BY DEF IInv
<1>2. CASE GetDishesByIds
  <2>1. Items' = Items
    BY <1>2 DEF GetDishesByIds, Items
  <2>2. TypeOK'
    BY <1>1, <1>2, <2>1 DEF GetDishesByIds, TypeOK
  <2>3. AddedUp'
    BY <1>1, <1>2, <2>1 DEF GetDishesByIds, AddedUp
  <2>4. LinesMakeTotal'
    <3>1. total' = 0 /\ exact' = 0 /\ line' = line /\ Items' \ left' = {}
      BY <1>1, <1>2, <2>1 DEF GetDishesByIds, AddedUp
    <3>2. Sum(line', {}) = 0
      BY SumOfNothing
    <3>3. Wrap(0) = 0
      BY WrapIsInt32, MaxIntAssumption DEF Int32
    <3>4. QED
      BY <3>1, <3>2, <3>3 DEF LinesMakeTotal
  <2>5. QED
    BY <2>2, <2>3, <2>4 DEF IInv
<1>3. CASE DishNotFound \/ InsertOrder \/ RefuseOrder
  <2>1. UNCHANGED <<price, count, read, left, line, total, exact>>
    BY <1>3 DEF DishNotFound, InsertOrder, RefuseOrder, Refuse
  <2>2. /\ step' \in {"stored", "refused"}
        /\ step' = "stored" => step = "adding" /\ left = {}
    BY <1>3 DEF DishNotFound, InsertOrder, RefuseOrder, Refuse
  <2>3. Items' = Items
    BY <2>1 DEF Items
  <2>4. TypeOK' /\ AddedUp'
    BY <1>1, <2>1, <2>2, <2>3 DEF TypeOK, AddedUp
  <2>5. LinesMakeTotal'
    BY <1>1, <2>1, <2>2, <2>3 DEF LinesMakeTotal
  <2>6. QED
    BY <2>4, <2>5 DEF IInv
<1>4. ASSUME NEW d \in Dishes, NEW p \in Prices \union {0}, ChangePrice(d, p)
      PROVE  IInv'
  <2>1. Items' = Items
    BY <1>4 DEF ChangePrice, order, Items
  <2>2. TypeOK' /\ AddedUp'
    BY <1>1, <1>4, <2>1 DEF ChangePrice, order, TypeOK, AddedUp
  <2>3. LinesMakeTotal'
    BY <1>1, <1>4, <2>1 DEF ChangePrice, order, LinesMakeTotal
  <2>4. QED
    BY <2>2, <2>3 DEF IInv
<1>5. CASE UNCHANGED vars
  <2>1. TypeOK' /\ AddedUp'
    BY <1>1, <1>5 DEF vars, TypeOK, AddedUp, Items
  <2>2. LinesMakeTotal'
    BY <1>1, <1>5 DEF vars, LinesMakeTotal, Items
  <2>3. QED
    BY <2>1, <2>2 DEF IInv
<1>6. QED
    BY <1>2, <1>3, <1>4, <1>5 DEF Next

LEMMA Inductive == Spec => []IInv
<1>1. Init => IInv
    BY InitIsGood
<1>2. IInv /\ [Next]_vars => IInv'
    BY AddItemStep, OtherStep
<1>3. QED
    BY <1>1, <1>2, PTL DEF Spec

-----------------------------------------------------------------------------
\* Lines and totals are int32, and only items of the request are ever left to
\* add (service/order.go:187-197).
THEOREM TypeCorrect == Spec => []TypeOK
<1>1. IInv => TypeOK
    BY DEF IInv
<1>2. QED
    BY <1>1, Inductive, PTL

\* A stored order whose true sum is an int32 has that sum, and the true price in
\* every line, although each product and each addition may wrap
\* (service/order.go:187-197).
THEOREM TotalsAreExact == Spec => []ExactWhenItFits
<1>1. ASSUME IInv PROVE ExactWhenItFits
  <2>1. SUFFICES ASSUME step = "stored", exact <= MaxInt
                 PROVE  /\ total = exact
                        /\ \A d \in Items : line[d] = count[d] * read[d]
    BY DEF ExactWhenItFits
  <2>2. total = exact
    BY <1>1, <2>1 DEF IInv, AddedUp
  <2>3. ASSUME NEW d \in Items PROVE line[d] = count[d] * read[d]
    <3>1. line[d] = Wrap(count[d] * read[d]) /\ count[d] * read[d] <= exact
      BY <1>1, <2>1 DEF IInv, AddedUp
    <3>2. count[d] * read[d] \in Nat /\ exact \in Nat
      BY <1>1, ProductIsNat DEF IInv, TypeOK, Items
    <3>3. count[d] * read[d] \in Int32
      BY <2>1, <3>1, <3>2, MaxIntAssumption DEF Int32
    <3>4. QED
      BY <3>1, <3>3, WrapIsInt32 DEF Int32
  <2>4. QED
    BY <2>2, <2>3
<1>2. QED
    BY <1>1, Inductive, PTL

\* In whatever order the bot and the service add the lines, what a stored
\* order's invoice asks for has the order's total for its low bits, and is the
\* true sum whenever that is an int32 (service/order.go:190-197,
\* bot/payment_bot.go:58-65).
THEOREM InvoiceAsksForTotal == Spec => []InvoiceIsTotal
<1>1. ASSUME IInv PROVE InvoiceIsTotal
  <2>1. SUFFICES ASSUME step = "stored"
                 PROVE  /\ Wrap(InvoiceAmount) = total
                        /\ exact <= MaxInt => InvoiceAmount = exact
    BY DEF InvoiceIsTotal
  <2>2. Items \ left = Items
    BY <1>1, <2>1 DEF IInv, AddedUp
  <2>3. InvoiceAmount = Sum(line, Items)
    BY DEF InvoiceAmount, Sum
  <2>4. QED
    BY <1>1, <2>1, <2>2, <2>3 DEF IInv, LinesMakeTotal
<1>2. QED
    BY <1>1, Inductive, PTL
=============================================================================

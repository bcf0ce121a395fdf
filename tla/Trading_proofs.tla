--------------------------- MODULE Trading_proofs ---------------------------
(***************************************************************************)
(* Theorems about Trading, for any number of accounts, orders, operations, *)
(* commands and reads, any amounts, and any bound on the events: what      *)
(* types its state has, that a trade of the command line covers what was   *)
(* asked for, and that a trade of a price level pays what was asked for.   *)
(*                                                                         *)
(* The model folds over the orders of a trade and sums over those of a     *)
(* level.  Both are recursive functions over the subsets of a finite set.  *)
(* That they exist, and what they give, is shown without induction: of the *)
(* sets, or numbers, for which a claim fails, a smallest one is taken.     *)
(***************************************************************************)
EXTENDS Trading, FiniteSetTheorems, TLAPS

\* Every non-empty set of finite sets has a member none of whose proper subsets
\* is a member: what takes the place of induction over the size of a set.
LEMMA SmallestSet ==
  ASSUME NEW T, T # {}, \A D \in T : IsFiniteSet(D)
  PROVE  \E D \in T : \A E \in T : E \subseteq D => E = D
<1> DEFINE S == UNION T
<1>1. T \subseteq FiniteSubsetsOf(S)
  BY DEF FiniteSubsetsOf
<1>2. PICK D \in T : \A E \in T : ~ (<<E, D>> \in StrictSubsetOrdering(S))
  BY <1>1, FS_StrictSubsetOrderingWellFounded, WFMin
<1>3. ASSUME NEW E \in T, E \subseteq D, E # D
      PROVE  FALSE
  <2>1. <<E, D>> \in StrictSubsetOrdering(S)
    BY <1>3 DEF StrictSubsetOrdering
  <2> QED
    BY <2>1, <1>2
<1> QED
  BY <1>3

\* Every non-empty set of natural numbers has a least element.
LEMMA SmallestNumber ==
  ASSUME NEW T, T \subseteq Nat, T # {}
  PROVE  \E n \in T : \A m \in T : n <= m
<1> DEFINE Below(n) == 1 .. n
           U == {Below(n) : n \in T}
<1>1. U # {}
  OBVIOUS
<1>2. \A D \in U : IsFiniteSet(D)
  BY FS_Interval
<1>3. PICK D \in U : \A E \in U : E \subseteq D => E = D
  <2> HIDE DEF U
  <2> QED
    BY <1>1, <1>2, SmallestSet
<1>4. PICK n \in T : D = Below(n)
  BY <1>3
<1>5. ASSUME NEW m \in T, m < n
      PROVE  FALSE
  <2>1. Below(m) \in U /\ Below(m) \subseteq Below(n)
    BY <1>5
  <2>2. Below(m) = Below(n)
    BY <2>1, <1>3, <1>4
  <2>3. n \in Below(n) /\ n \notin Below(m)
    BY <1>5
  <2> QED
    BY <2>2, <2>3
<1> QED
  BY <1>5

\* Among the numbers up to m, the first that fails comes after one that holds.
LEMMA FirstFailure ==
  ASSUME NEW m \in Nat, NEW Bad \in SUBSET (0 .. m), 0 \notin Bad,
         \A i \in 1 .. m : i - 1 \notin Bad => i \notin Bad
  PROVE  Bad = {}
<1> SUFFICES ASSUME Bad # {} PROVE FALSE
  OBVIOUS
<1>1. PICK i \in Bad : \A j \in Bad : i <= j
  <2>1. Bad \subseteq Nat
    OBVIOUS
  <2> QED
    BY <2>1, SmallestNumber
<1>2. i \in 1 .. m /\ i - 1 \in Nat /\ ~ (i <= i - 1)
  BY <1>1
<1> QED
  BY <1>1, <1>2

-----------------------------------------------------------------------------
(***************************************************************************)
(* Sums over finite sets.                                                  *)
(***************************************************************************)

\* h is the recursive function of SumFunctionOnSet(f, D).
Sums(h, f, D) ==
    h = [s \in SUBSET D |-> IF s = {} THEN 0
                            ELSE LET x == CHOOSE x \in s : TRUE IN f[x] + h[s \ {x}]]

\* The sum is taken from that function.
LEMMA SumByDefinition ==
  ASSUME NEW f, NEW D
  PROVE  SumFunctionOnSet(f, D) = (CHOOSE h : Sums(h, f, D))[D]
BY DEF SumFunctionOnSet, FoldFunctionOnSet, MapThenFoldSet, Sums

\* The recursive functions of a set and of a subset of it agree.
LEMMA SumsUnique ==
  ASSUME NEW f, NEW D, IsFiniteSet(D), NEW E \in SUBSET D,
         NEW g, Sums(g, f, D), NEW h, Sums(h, f, E)
  PROVE  \A s \in SUBSET E : g[s] = h[s]
<1> DEFINE T == {s \in SUBSET E : g[s] # h[s]}
<1>1. SUFFICES ASSUME T # {} PROVE FALSE
  OBVIOUS
<1>2. \A s \in T : IsFiniteSet(s)
  <2>1. \A s \in SUBSET D : IsFiniteSet(s)
    BY FS_Subset
  <2> QED
    BY <2>1
<1>3. PICK s \in T : \A r \in T : r \subseteq s => r = s
  <2> HIDE DEF T
  <2> QED
    BY <1>1, <1>2, SmallestSet
<1> DEFINE x == CHOOSE x \in s : TRUE
<1>4. s # {}
  <2>1. CASE s = {}
    <3>1. g[{}] = 0 /\ h[{}] = 0
      BY DEF Sums
    <3> QED
      BY <3>1, <2>1, <1>3
  <2> QED
    BY <2>1
<1>5. x \in s
  BY <1>4
<1>6. g[s] = f[x] + g[s \ {x}] /\ h[s] = f[x] + h[s \ {x}]
  BY <1>4 DEF Sums
<1>7. g[s \ {x}] = h[s \ {x}]
  BY <1>3, <1>5
<1> QED
  BY <1>3, <1>6, <1>7

\* The recursive function exists.
LEMMA SumsExist ==
  ASSUME NEW f, NEW D, IsFiniteSet(D)
  PROVE  \E h : Sums(h, f, D)
<1> DEFINE T == {s \in SUBSET D : ~ \E h : Sums(h, f, s)}
<1>1. SUFFICES ASSUME T # {} PROVE FALSE
  OBVIOUS
<1>2. \A s \in T : IsFiniteSet(s)
  <2>1. \A s \in SUBSET D : IsFiniteSet(s)
    BY FS_Subset
  <2> QED
    BY <2>1
<1>3. PICK s \in T : \A r \in T : r \subseteq s => r = s
  <2> HIDE DEF T
  <2> QED
    BY <1>1, <1>2, SmallestSet
<1> DEFINE Of(r) == CHOOSE h : Sums(h, f, r)
           First(r) == CHOOSE x \in r : TRUE
           g == [r \in SUBSET s |-> IF r = {} THEN 0
                                    ELSE f[First(r)] + Of(r \ {First(r)})[r \ {First(r)}]]
<1>4. ASSUME NEW r \in SUBSET s, r # s
      PROVE  Sums(Of(r), f, r)
  BY <1>3, <1>4
<1>5. ASSUME NEW r \in SUBSET s, r # {}
      PROVE  g[r \ {First(r)}] = Of(r \ {First(r)})[r \ {First(r)}]
  <2> DEFINE q == r \ {First(r)}
             p == q \ {First(q)}
  <2>1. q \in SUBSET s /\ q # s
    BY <1>5
  <2>2. Sums(Of(q), f, q)
    BY <2>1, <1>4
  <2>3. CASE q = {}
    <3>1. Of(q)[q] = 0 /\ g[q] = 0
      BY <2>2, <2>3 DEF Sums
    <3> QED
      BY <3>1
  <2>4. CASE q # {}
    <3>1. p \in SUBSET q /\ p \in SUBSET s /\ p # s
      BY <2>1
    <3>2. Sums(Of(p), f, p)
      BY <3>1, <1>4
    <3>3. IsFiniteSet(q)
      BY <2>1, <1>2, FS_Subset
    <3>4. Of(q)[p] = Of(p)[p]
      <4> HIDE DEF Of, p, q
      <4> QED
        BY <2>2, <3>1, <3>2, <3>3, SumsUnique
    <3>5. Of(q)[q] = f[First(q)] + Of(q)[p]
      <4> HIDE DEF Of
      <4> QED
        BY <2>2, <2>4 DEF Sums
    <3>6. g[q] = f[First(q)] + Of(p)[p]
      BY <2>1, <2>4
    <3> QED
      BY <3>4, <3>5, <3>6
  <2> QED
    BY <2>3, <2>4
<1>6. Sums(g, f, s)
  <2>1. \A r \in SUBSET s : g[r] = IF r = {} THEN 0 ELSE f[First(r)] + g[r \ {First(r)}]
    <3>1. ASSUME NEW r \in SUBSET s
          PROVE  g[r] = IF r = {} THEN 0
                        ELSE f[First(r)] + Of(r \ {First(r)})[r \ {First(r)}]
      BY <3>1
    <3> HIDE DEF g, Of, First
    <3> QED
      BY <1>5, <3>1
  <2>2. g = [r \in SUBSET s |-> g[r]]
    OBVIOUS
  <2> HIDE DEF g
  <2> QED
    BY <2>1, <2>2 DEF Sums
<1> QED
  BY <1>6, <1>3

\* The sum over a part is the value of the function of the whole.
LEMMA SumIsSums ==
  ASSUME NEW f, NEW D, IsFiniteSet(D), NEW E \in SUBSET D, NEW h, Sums(h, f, D)
  PROVE  SumFunctionOnSet(f, E) = h[E]
<1>1. IsFiniteSet(E)
  BY FS_Subset
<1> DEFINE g == CHOOSE g : Sums(g, f, E)
<1>2. Sums(g, f, E)
  BY <1>1, SumsExist
<1>3. h[E] = g[E]
  <2> HIDE DEF g
  <2> QED
    BY <1>2, SumsUnique
<1> QED
  BY <1>3, SumByDefinition

\* The sum over no element, and over one more than a rest.
LEMMA SumEquation ==
  ASSUME NEW f, NEW D, IsFiniteSet(D)
  PROVE  SumFunctionOnSet(f, D) =
           IF D = {} THEN 0
           ELSE LET x == CHOOSE x \in D : TRUE
                IN  f[x] + SumFunctionOnSet(f, D \ {x})
<1>1. PICK h : Sums(h, f, D)
  BY SumsExist
<1> DEFINE x == CHOOSE x \in D : TRUE
<1>2. h[D] = IF D = {} THEN 0 ELSE f[x] + h[D \ {x}]
  BY <1>1 DEF Sums
<1>3. SumFunctionOnSet(f, D) = h[D]
  BY <1>1, SumIsSums
<1>4. SumFunctionOnSet(f, D \ {x}) = h[D \ {x}]
  <2> HIDE DEF x
  <2> QED
    BY <1>1, SumIsSums
<1> QED
  BY <1>2, <1>3, <1>4

\* Sums of natural numbers are natural numbers.
LEMMA SumType ==
  ASSUME NEW f, NEW D, IsFiniteSet(D), \A x \in D : f[x] \in Nat
  PROVE  SumFunctionOnSet(f, D) \in Nat
<1> DEFINE T == {s \in SUBSET D : SumFunctionOnSet(f, s) \notin Nat}
<1>1. SUFFICES ASSUME T # {} PROVE FALSE
  OBVIOUS
<1>2. \A s \in SUBSET D : IsFiniteSet(s)
  BY FS_Subset
<1>3. PICK s \in T : \A r \in T : r \subseteq s => r = s
  <2>1. \A s \in T : IsFiniteSet(s)
    BY <1>2
  <2> HIDE DEF T
  <2> QED
    BY <1>1, <2>1, SmallestSet
<1> DEFINE x == CHOOSE x \in s : TRUE
<1>4. SumFunctionOnSet(f, s) =
        IF s = {} THEN 0 ELSE f[x] + SumFunctionOnSet(f, s \ {x})
  BY <1>2, SumEquation
<1>5. s # {}
  BY <1>4
<1>6. x \in s
  BY <1>5
<1>7. f[x] \in Nat /\ SumFunctionOnSet(f, s \ {x}) \in Nat
  BY <1>3, <1>6
<1> QED
  BY <1>4, <1>5, <1>7

\* Any element can be taken out first.
LEMMA SumTakesOut ==
  ASSUME NEW f, NEW D, IsFiniteSet(D), \A x \in D : f[x] \in Nat, NEW x \in D
  PROVE  SumFunctionOnSet(f, D) = f[x] + SumFunctionOnSet(f, D \ {x})
<1> DEFINE S(d) == SumFunctionOnSet(f, d)
           T == {s \in SUBSET D : \E y \in s : S(s) # f[y] + S(s \ {y})}
<1>1. SUFFICES ASSUME T # {} PROVE FALSE
  OBVIOUS
<1>2. \A s \in SUBSET D : IsFiniteSet(s)
  BY FS_Subset
<1>3. PICK s \in T : \A r \in T : r \subseteq s => r = s
  <2>1. \A s \in T : IsFiniteSet(s)
    BY <1>2
  <2> HIDE DEF T
  <2> QED
    BY <1>1, <2>1, SmallestSet
<1>4. PICK y \in s : S(s) # f[y] + S(s \ {y})
  OBVIOUS
<1> DEFINE c == CHOOSE c \in s : TRUE
<1>5. c \in s
  OBVIOUS
<1>6. \A r \in SUBSET D : r # {} => S(r) = f[CHOOSE z \in r : TRUE] + S(r \ {CHOOSE z \in r : TRUE})
  BY <1>2, SumEquation
<1>7. S(s) = f[c] + S(s \ {c})
  BY <1>6
<1>8. c # y
  BY <1>4, <1>7
<1>9. \A r \in SUBSET D : r \subseteq s /\ r # s => \A z \in r : S(r) = f[z] + S(r \ {z})
  BY <1>3
<1>10. S(s \ {c}) = f[y] + S((s \ {c}) \ {y})
  <2>1. s \ {c} \in SUBSET D /\ s \ {c} # s /\ y \in s \ {c}
    BY <1>5, <1>8
  <2> HIDE DEF S, c
  <2> QED
    BY <1>9, <2>1
<1>11. S(s \ {y}) = f[c] + S((s \ {y}) \ {c})
  <2>1. s \ {y} \in SUBSET D /\ s \ {y} # s /\ c \in s \ {y}
    BY <1>5, <1>8
  <2> HIDE DEF S, c
  <2> QED
    BY <1>9, <2>1
<1>12. (s \ {c}) \ {y} = (s \ {y}) \ {c}
  OBVIOUS
<1>13. f[c] \in Nat /\ f[y] \in Nat /\ S((s \ {y}) \ {c}) \in Nat
  <2>1. f[c] \in Nat /\ f[y] \in Nat
    BY <1>5
  <2>2. IsFiniteSet((s \ {y}) \ {c})
    BY <1>2
  <2>3. \A z \in (s \ {y}) \ {c} : f[z] \in Nat
    OBVIOUS
  <2> QED
    BY <2>1, <2>2, <2>3, SumType
<1> DEFINE rest == (s \ {y}) \ {c}
<1>14. S(s) = f[c] + (f[y] + S(rest)) /\ f[y] + S(s \ {y}) = f[y] + (f[c] + S(rest))
  <2> HIDE DEF S, c
  <2> QED
    BY <1>7, <1>10, <1>11, <1>12
<1>15. f[c] + (f[y] + S(rest)) = f[y] + (f[c] + S(rest))
  <2> HIDE DEF S, c, rest
  <2>1. \A i, j, k \in Nat : i + (j + k) = j + (i + k)
    OBVIOUS
  <2> QED
    BY <2>1, <1>13 DEF rest
<1> QED
  BY <1>4, <1>14, <1>15

-----------------------------------------------------------------------------
(***************************************************************************)
(* The folds of the model over the orders of a trade, one order after the  *)
(* other: fillOrdersUpTo, and the search for the orders in the book.       *)
(***************************************************************************)

\* What is left to pay, and the ledger, after one more order.
FillNext(acc, o, taker) ==
    [ledger |-> FillOrder(acc.ledger, o, taker, acc.left),
     left |-> acc.left - Fillable(acc.ledger, o, taker, acc.left)]

\* One step of a fold; p says of which.
FoldNext(p, acc, o) ==
    IF p.fold = "fill" THEN FillNext(acc, o, p.taker)
    ELSE IF o \in p.listed THEN Append(acc, o) ELSE acc

FillFold(taker) == [fold |-> "fill", taker |-> taker]
FoundFold(book) == [fold |-> "found", listed |-> book]

\* h is the recursive function of a fold, over subsets of the first k indices.
Folding(h, p, base, orders, k) ==
    h = [s \in SUBSET (1 .. k) |->
           IF s = {} THEN base ELSE FoldNext(p, h[s \ {Max(s)}], orders[Max(s)])]

LEMMA MaxIsLast ==
  ASSUME NEW k \in Nat, NEW s \in SUBSET (1 .. k), k \in s
  PROVE  Max(s) = k
<1>1. \A y \in s : k >= y
  OBVIOUS
<1>2. Max(s) \in s /\ \A y \in s : Max(s) >= y
  BY <1>1 DEF Max
<1> DEFINE m == Max(s)
<1>3. m \in s /\ m >= k
  BY <1>2
<1> HIDE DEF m
<1>4. m \in Nat /\ k >= m
  BY <1>1, <1>3
<1> QED
  BY <1>3, <1>4 DEF m

\* The recursive function of a fold exists.
LEMMA FoldsExist ==
  ASSUME NEW p, NEW base, NEW orders, NEW m \in Nat
  PROVE  \E h : Folding(h, p, base, orders, m)
<1> DEFINE T == {k \in Nat : ~ \E h : Folding(h, p, base, orders, k)}
<1>1. SUFFICES ASSUME T # {} PROVE FALSE
  OBVIOUS
<1>2. PICK k \in T : \A j \in T : k <= j
  <2>1. T \subseteq Nat
    OBVIOUS
  <2> HIDE DEF T
  <2> QED
    BY <1>1, <2>1, SmallestNumber
<1>3. k # 0
  <2> DEFINE z == [s \in SUBSET (1 .. 0) |-> base]
  <2>1. 1 .. 0 = {}
    OBVIOUS
  <2>2. \A s \in SUBSET (1 .. 0) : s = {}
    BY <2>1
  <2>3. Folding(z, p, base, orders, 0)
    BY <2>2 DEF Folding
  <2> QED
    BY <2>3
<1>4. PICK h : Folding(h, p, base, orders, k - 1)
  <2>1. k - 1 \in Nat /\ ~ (k <= k - 1)
    BY <1>3
  <2> QED
    BY <2>1, <1>2
<1> DEFINE g == [s \in SUBSET (1 .. k) |->
                   IF k \in s THEN FoldNext(p, h[s \ {k}], orders[k]) ELSE h[s]]
           Following(f, s) == IF s = {} THEN base
                          ELSE FoldNext(p, f[s \ {Max(s)}], orders[Max(s)])
<1>5. ASSUME NEW s \in SUBSET (1 .. k)
      PROVE  g[s] = Following(g, s)
  <2>1. CASE k \in s
    <3>1. Max(s) = k
      BY <2>1, MaxIsLast
    <3>2. g[s \ {k}] = h[s \ {k}]
      OBVIOUS
    <3>3. g[s] = FoldNext(p, h[s \ {k}], orders[k])
      BY <2>1
    <3> HIDE DEF g
    <3> QED
      BY <2>1, <3>1, <3>2, <3>3
  <2>2. CASE k \notin s
    <3>1. s \in SUBSET (1 .. (k - 1))
      BY <2>2
    <3>2. h[s] = Following(h, s)
      BY <3>1, <1>4 DEF Folding
    <3>3. g[s] = h[s]
      BY <2>2
    <3>4. g[s \ {Max(s)}] = h[s \ {Max(s)}]
      BY <2>2
    <3> HIDE DEF g
    <3> QED
      BY <3>2, <3>3, <3>4
  <2> QED
    BY <2>1, <2>2
<1>6. Folding(g, p, base, orders, k)
  <2>1. g = [s \in SUBSET (1 .. k) |-> g[s]]
    OBVIOUS
  <2> HIDE DEF g
  <2> QED
    BY <2>1, <1>5 DEF Folding
<1> QED
  BY <1>6

\* The values of a fold after each of the orders.
Chain(c, p, base, orders) ==
    /\ c[0] = base
    /\ \A i \in 1 .. Len(orders) : c[i] = FoldNext(p, c[i - 1], orders[i])

\* A fold ends with the last value of a chain.
LEMMA FoldChain ==
  ASSUME NEW S, NEW orders \in Seq(S), NEW p, NEW base,
         NEW h, Folding(h, p, base, orders, Len(orders))
  PROVE  \E c : Chain(c, p, base, orders) /\ h[1 .. Len(orders)] = c[Len(orders)]
<1> DEFINE c == [i \in 0 .. Len(orders) |-> h[1 .. i]]
<1>1. Len(orders) \in Nat
  OBVIOUS
<1>3. \A s \in SUBSET (1 .. Len(orders)) :
        h[s] = IF s = {} THEN base ELSE FoldNext(p, h[s \ {Max(s)}], orders[Max(s)])
  BY DEF Folding
<1>4. c[0] = base
  <2>1. 1 .. 0 = {} /\ c[0] = h[1 .. 0]
    BY <1>1
  <2> HIDE DEF c
  <2> QED
    BY <2>1, <1>3
<1>5. ASSUME NEW i \in 1 .. Len(orders)
      PROVE  c[i] = FoldNext(p, c[i - 1], orders[i])
  <2>1. Max(1 .. i) = i
    BY <1>1, MaxIsLast
  <2>2. (1 .. i) \ {i} = 1 .. (i - 1)
    BY <1>1
  <2>3. 1 .. i # {} /\ 1 .. i \in SUBSET (1 .. Len(orders))
    <3> DEFINE len == Len(orders)
    <3>1. len \in Nat /\ i \in 1 .. len
      BY <1>1
    <3> HIDE DEF len
    <3>2. i \in 1 .. i /\ \A j \in 1 .. i : j \in 1 .. len
      BY <3>1
    <3> QED
      BY <3>2 DEF len
  <2>4. c[i] = h[1 .. i] /\ c[i - 1] = h[1 .. (i - 1)]
    <3>1. i \in 0 .. Len(orders) /\ i - 1 \in 0 .. Len(orders)
      BY <1>1
    <3> QED
      BY <3>1
  <2> HIDE DEF c
  <2> QED
    BY <2>1, <2>2, <2>3, <2>4, <1>3
<1>6. c[Len(orders)] = h[1 .. Len(orders)]
  BY <1>1
<1> HIDE DEF c
<1> QED
  BY <1>4, <1>5, <1>6 DEF Chain

\* fillOrdersUpTo ends with the last ledger of the chain.
FillChain(c, l, orders, taker, n) ==
    Chain(c, FillFold(taker), [ledger |-> l, left |-> n], orders)

LEMMA FillsByChain ==
  ASSUME NEW S, NEW orders \in Seq(S), NEW l, NEW taker, NEW n
  PROVE  \E c : /\ FillChain(c, l, orders, taker, n)
                /\ FillOrdersUpTo(l, orders, taker, n) = c[Len(orders)].ledger
<1> DEFINE p == FillFold(taker)
           base == [ledger |-> l, left |-> n]
           Fills(h) == h = [s \in SUBSET DOMAIN orders |->
                              IF s = {} THEN [ledger |-> l, left |-> n]
                              ELSE FillNext(h[s \ {Max(s)}], orders[Max(s)], taker)]
           h == CHOOSE h : Fills(h)
<1>1. DOMAIN orders = 1 .. Len(orders) /\ Len(orders) \in Nat
  OBVIOUS
<1>2. FillOrdersUpTo(l, orders, taker, n) = h[DOMAIN orders].ledger
  BY DEF FillOrdersUpTo, FoldLeft, MapThenFoldSet, FillNext
<1>3. \A g : Fills(g) <=> Folding(g, p, base, orders, Len(orders))
  <2>1. \A acc, o : FoldNext(p, acc, o) = FillNext(acc, o, taker)
    BY DEF FoldNext, FillFold
  <2> HIDE DEF p
  <2> QED
    BY <1>1, <2>1 DEF Folding
<1>4. \E g : Folding(g, p, base, orders, Len(orders))
  <2> HIDE DEF p, base
  <2> QED
    BY <1>1, FoldsExist
<1> HIDE DEF Fills, p, base
<1>5. Folding(h, p, base, orders, Len(orders))
  BY <1>3, <1>4
<1> HIDE DEF h
<1>6. PICK c : Chain(c, p, base, orders) /\ h[1 .. Len(orders)] = c[Len(orders)]
  BY <1>5, FoldChain
<1> QED
  BY <1>1, <1>2, <1>6 DEF FillChain, p, base

\* Each link of the chain.
LEMMA FillLink ==
  ASSUME NEW orders, NEW l, NEW taker, NEW n, NEW c, FillChain(c, l, orders, taker, n)
  PROVE  /\ c[0].ledger = l /\ c[0].left = n
         /\ \A i \in 1 .. Len(orders) :
              /\ c[i].ledger = FillOrder(c[i - 1].ledger, orders[i], taker, c[i - 1].left)
              /\ c[i].left = c[i - 1].left
                               - Fillable(c[i - 1].ledger, orders[i], taker, c[i - 1].left)
<1>1. \A acc, o : FoldNext(FillFold(taker), acc, o) = FillNext(acc, o, taker)
  BY DEF FoldNext, FillFold
<1>2. \A i \in 1 .. Len(orders) : c[i] = FillNext(c[i - 1], orders[i], taker)
  BY <1>1 DEF FillChain, Chain
<1>3. c[0] = [ledger |-> l, left |-> n]
  BY DEF FillChain, Chain
<1>4. \A acc, o : /\ FillNext(acc, o, taker).ledger = FillOrder(acc.ledger, o, taker, acc.left)
                   /\ FillNext(acc, o, taker).left =
                        acc.left - Fillable(acc.ledger, o, taker, acc.left)
  BY DEF FillNext
<1> QED
  BY <1>2, <1>3, <1>4

\* The orders that are found are some of those that were asked for, and all of
\* them if all are in the book.
LEMMA FoundType ==
  ASSUME NEW S, NEW orders \in Seq(S)
  PROVE  /\ Found(orders) \in Seq(S)
         /\ (\A i \in 1 .. Len(orders) : orders[i] \in listed) => Found(orders) = orders
<1> DEFINE p == FoundFold(listed)
<1>1. PICK c : Chain(c, p, <<>>, orders) /\ Found(orders) = c[Len(orders)]
  <2> DEFINE Finds(h) == h = [s \in SUBSET DOMAIN orders |->
                                IF s = {} THEN <<>>
                                ELSE IF orders[Max(s)] \in listed
                                       THEN Append(h[s \ {Max(s)}], orders[Max(s)])
                                       ELSE h[s \ {Max(s)}]]
             h == CHOOSE h : Finds(h)
  <2>1. DOMAIN orders = 1 .. Len(orders) /\ Len(orders) \in Nat
    OBVIOUS
  <2>2. Found(orders) = h[DOMAIN orders]
    BY DEF Found, FoldLeft, MapThenFoldSet
  <2>3. \A g : Finds(g) <=> Folding(g, p, <<>>, orders, Len(orders))
    <3>1. \A acc, o : FoldNext(p, acc, o) = IF o \in listed THEN Append(acc, o) ELSE acc
      BY DEF FoldNext, FoundFold
    <3> HIDE DEF p
    <3> QED
      BY <2>1, <3>1 DEF Folding
  <2>4. \E g : Folding(g, p, <<>>, orders, Len(orders))
    <3> HIDE DEF p
    <3> QED
      BY <2>1, FoldsExist
  <2> HIDE DEF Finds, p
  <2>5. Folding(h, p, <<>>, orders, Len(orders))
    BY <2>3, <2>4
  <2> HIDE DEF h
  <2>6. PICK c : Chain(c, p, <<>>, orders) /\ h[1 .. Len(orders)] = c[Len(orders)]
    BY <2>5, FoldChain
  <2> QED
    BY <2>1, <2>2, <2>6
<1>2. Found(orders) = c[Len(orders)]
  BY <1>1
<1>3. \A i \in 1 .. Len(orders) :
        c[i] = IF orders[i] \in listed THEN Append(c[i - 1], orders[i]) ELSE c[i - 1]
  <2>1. \A acc, o : FoldNext(p, acc, o) = IF o \in listed THEN Append(acc, o) ELSE acc
    BY DEF FoldNext, FoundFold
  <2> HIDE DEF p
  <2> QED
    BY <1>1, <2>1 DEF Chain
<1>4. c[0] = <<>>
  BY <1>1 DEF Chain
<1>5. Len(orders) \in Nat
  OBVIOUS
<1> DEFINE Whole(i) == (\A j \in 1 .. Len(orders) : orders[j] \in listed)
                          => c[i] = SubSeq(orders, 1, i)
           m == Len(orders)
           Bad == {i \in 0 .. m : ~ (c[i] \in Seq(S) /\ Whole(i))}
<1>6. 0 \notin Bad
  <2>1. SubSeq(orders, 1, 0) = <<>> /\ <<>> \in Seq(S)
    OBVIOUS
  <2> QED
    BY <2>1, <1>4
<1>7. ASSUME NEW i \in 1 .. m, i - 1 \notin Bad
      PROVE  i \notin Bad
  <2>1. i - 1 \in 0 .. m
    BY <1>5
  <2>2. c[i - 1] \in Seq(S) /\ Whole(i - 1)
    BY <2>1, <1>7
  <2>3. orders[i] \in S
    OBVIOUS
  <2>4. c[i] = IF orders[i] \in listed THEN Append(c[i - 1], orders[i]) ELSE c[i - 1]
    BY <1>3
  <2>5. c[i] \in Seq(S)
    BY <2>2, <2>3, <2>4
  <2>6. SubSeq(orders, 1, i) = Append(SubSeq(orders, 1, i - 1), orders[i])
    BY <1>5
  <2>7. Whole(i)
    BY <2>2, <2>4, <2>6
  <2> QED
    BY <2>5, <2>7
<1>8. Bad = {}
  <2>1. Bad \in SUBSET (0 .. m)
    OBVIOUS
  <2> HIDE DEF Bad, m
  <2> QED
    BY <2>1, <1>5, <1>6, <1>7, FirstFailure DEF m
<1>9. c[m] \in Seq(S) /\ Whole(m)
  <2>1. m \in 0 .. m
    BY <1>5
  <2> QED
    BY <2>1, <1>8
<1>10. SubSeq(orders, 1, m) = orders
  OBVIOUS
<1> QED
  BY <1>2, <1>9, <1>10

-----------------------------------------------------------------------------
(***************************************************************************)
(* One fill.                                                               *)
(***************************************************************************)

LEMMA LeastOfTwo ==
  ASSUME NEW a \in Nat, NEW b \in Nat
  PROVE  Least({a, b}) = IF a <= b THEN a ELSE b
<1> DEFINE n == IF a <= b THEN a ELSE b
<1>1. n \in {a, b} /\ \A m \in {a, b} : n <= m
  OBVIOUS
<1>2. \A k \in {a, b} : (\A m \in {a, b} : k <= m) => k = n
  OBVIOUS
<1> HIDE DEF n
<1>3. Least({a, b}) = n
  BY <1>1, <1>2 DEF Least
<1> QED
  BY <1>3 DEF n

LEMMA LeastOfThree ==
  ASSUME NEW a \in Nat, NEW b \in Nat, NEW c \in Nat
  PROVE  Least({a, b, c}) = IF a <= b THEN IF a <= c THEN a ELSE c
                                      ELSE IF b <= c THEN b ELSE c
<1> DEFINE n == IF a <= b THEN IF a <= c THEN a ELSE c ELSE IF b <= c THEN b ELSE c
<1>1. n \in {a, b, c} /\ \A m \in {a, b, c} : n <= m
  OBVIOUS
<1>2. \A k \in {a, b, c} : (\A m \in {a, b, c} : k <= m) => k = n
  OBVIOUS
<1> HIDE DEF n
<1>3. Least({a, b, c}) = n
  BY <1>1, <1>2 DEF Least
<1> QED
  BY <1>3 DEF n

\* Division rounds down.
LEMMA DivisionRoundsDown ==
  ASSUME NEW a \in Nat, NEW b \in Nat \ {0}
  PROVE  /\ a \div b \in Nat
         /\ b * (a \div b) <= a
         /\ a < b * (a \div b) + b
OBVIOUS

\* What is divided by b is at most k if it is at most k times b.
LEMMA DivisionBound ==
  ASSUME NEW a \in Nat, NEW b \in Nat \ {0}, NEW k \in Nat
  PROVE  /\ a <= k * b => a \div b <= k
         /\ k * b <= a => k <= a \div b
<1> DEFINE q == a \div b
<1>1. q \in Nat /\ b * q <= a /\ a < b * q + b
  BY DivisionRoundsDown
<1> HIDE DEF q
<1>2. ASSUME a <= k * b, q >= k + 1 PROVE FALSE
  <2>1. b * q >= b * (k + 1)
    BY <1>1, <1>2
  <2>2. b * (k + 1) = k * b + b
    OBVIOUS
  <2> QED
    BY <1>1, <1>2, <2>1, <2>2
<1>3. ASSUME k * b <= a, k >= q + 1 PROVE FALSE
  <2>1. b * k >= b * (q + 1)
    BY <1>1, <1>3
  <2>2. b * (q + 1) = b * q + b /\ b * k = k * b
    BY <1>1
  <2> QED
    BY <1>1, <1>3, <2>1, <2>2
<1> QED
  BY <1>1, <1>2, <1>3 DEF q

\* The ledgers that the contracts keep.
Sound(l) == l \in Ledgers /\ \A o \in Orders : l.filled[o] <= TakerAmount(o)

\* Amounts, makers and tokens of an order.
LEMMA AmountTypes ==
  ASSUME NEW o \in Orders
  PROVE  /\ MakerAmount(o) \in Nat \ {0} /\ TakerAmount(o) \in Nat \ {0}
         /\ Maker[o] \in Accounts
         /\ MakerToken(o) \in {"base", "quote"} /\ TakerToken(o) \in {"base", "quote"}
         /\ MakerToken(o) # TakerToken(o)
BY ExchangeAssumption DEF MakerAmount, TakerAmount, MakerToken, TakerToken

\* An account spends no more than it has.
LEMMA SpendableType ==
  ASSUME NEW l \in Ledgers, NEW a \in Accounts, NEW t \in Tokens
  PROVE  Spendable(l, a, t) \in Nat /\ Spendable(l, a, t) <= l.bal[a][t] /\ l.bal[a][t] \in Nat
<1>1. l.bal[a][t] \in Nat
  BY DEF Ledgers
<1> QED
  BY <1>1 DEF Spendable

\* An order offers no more than is left of it, and no more than its maker can pay.
LEMMA VolumeBound ==
  ASSUME NEW l, Sound(l), NEW o \in Orders
  PROVE  /\ Volume(l, o) \in Nat
         /\ Volume(l, o) <= TakerAmount(o) - l.filled[o]
         /\ \A n \in Nat : n <= Volume(l, o) =>
              /\ InMakerToken(o, n) \in Nat
              /\ InMakerToken(o, n) <= Spendable(l, Maker[o], MakerToken(o))
<1> DEFINE A == MakerAmount(o)
           B == TakerAmount(o)
           S == Spendable(l, Maker[o], MakerToken(o))
           a == B - l.filled[o]
           b == (S * B) \div A
<1>1. A \in Nat \ {0} /\ B \in Nat \ {0} /\ S \in Nat
  BY AmountTypes, SpendableType DEF Sound, Tokens
<1>2. a \in Nat
  <2>1. l.filled[o] \in Nat /\ l.filled[o] <= B
    BY DEF Sound, Ledgers
  <2> QED
    BY <1>1, <2>1
<1>3. S * B \in Nat
  BY <1>1
<1>4. b \in Nat /\ A * b <= S * B
  <2> HIDE DEF A, B, S
  <2> QED
    BY <1>1, <1>3, DivisionRoundsDown
<1>5. Volume(l, o) = Least({a, b})
  BY DEF Volume
<1>6. Volume(l, o) \in Nat /\ Volume(l, o) <= a /\ Volume(l, o) <= b
  <2> HIDE DEF a, b
  <2> QED
    BY <1>2, <1>4, <1>5, LeastOfTwo
<1>7. ASSUME NEW n \in Nat, n <= Volume(l, o)
      PROVE  InMakerToken(o, n) \in Nat /\ InMakerToken(o, n) <= S
  <2> HIDE DEF A, B, S, a, b
  <2>1. n <= b
    BY <1>4, <1>6, <1>7
  <2>2. n * A <= A * b /\ n * A \in Nat
    BY <2>1, <1>1, <1>4
  <2>3. n * A <= S * B
    BY <2>2, <1>1, <1>3, <1>4
  <2>4. (n * A) \div B \in Nat /\ (n * A) \div B <= S
    BY <2>2, <2>3, <1>1, DivisionRoundsDown, DivisionBound
  <2> QED
    BY <2>4 DEF InMakerToken, A, B
<1> QED
  BY <1>6, <1>7

\* A taker pays no more than asked for, than is offered, and than can be paid.
LEMMA FillableBound ==
  ASSUME NEW l, Sound(l), NEW o \in Orders, NEW taker \in Accounts, NEW n \in Nat
  PROVE  /\ Fillable(l, o, taker, n) \in Nat
         /\ Fillable(l, o, taker, n) <= n
         /\ Fillable(l, o, taker, n) <= Volume(l, o)
         /\ Fillable(l, o, taker, n) <= Spendable(l, taker, TakerToken(o))
<1> DEFINE v == Volume(l, o)
           s == Spendable(l, taker, TakerToken(o))
<1>1. v \in Nat /\ s \in Nat
  BY VolumeBound, SpendableType, AmountTypes DEF Sound, Tokens
<1>2. Fillable(l, o, taker, n) = Least({n, v, s})
  BY DEF Fillable
<1> HIDE DEF v, s
<1>3. Least({n, v, s}) \in Nat /\ Least({n, v, s}) <= n /\ Least({n, v, s}) <= v
      /\ Least({n, v, s}) <= s
  BY <1>1, LeastOfThree
<1> QED
  BY <1>2, <1>3 DEF v, s

\* Balances while a fill is computed: they may be below zero in between.
IntBalances == [Accounts -> [Tokens -> Int]]

\* What moving an amount does to each balance.
LEMMA MovedAt ==
  ASSUME NEW bal \in IntBalances, NEW a \in Accounts, NEW t \in Tokens, NEW n \in Int
  PROVE  /\ Moved(bal, a, t, n) \in IntBalances
         /\ \A b \in Accounts, u \in Tokens :
              Moved(bal, a, t, n)[b][u] =
                IF b = a /\ u = t THEN bal[b][u] + n ELSE bal[b][u]
BY DEF Moved, IntBalances

\* What a fill does to each balance.
LEMMA FillBalances ==
  ASSUME NEW l, Sound(l), NEW o \in Orders, NEW taker \in Accounts, NEW n \in Nat,
         NEW b \in Accounts, NEW u \in Tokens
  PROVE  LET p == Fillable(l, o, taker, n)
             g == InMakerToken(o, p)
         IN  /\ FillOrder(l, o, taker, n).bal \in IntBalances
             /\ FillOrder(l, o, taker, n).bal[b][u] =
                  CASE u = TakerToken(o) /\ b = taker /\ b # Maker[o] -> l.bal[b][u] - p
                    [] u = TakerToken(o) /\ b # taker /\ b = Maker[o] -> l.bal[b][u] + p
                    [] u = MakerToken(o) /\ b = taker /\ b # Maker[o] -> l.bal[b][u] + g
                    [] u = MakerToken(o) /\ b # taker /\ b = Maker[o] -> l.bal[b][u] - g
                    [] OTHER -> l.bal[b][u]
<1> DEFINE p == Fillable(l, o, taker, n)
           g == InMakerToken(o, p)
           m == Maker[o]
           T == TakerToken(o)
           M == MakerToken(o)
           debited == Moved(l.bal, taker, T, -p)
           credited == Moved(debited, m, T, p)
           given == Moved(credited, m, M, -g)
           last == Moved(given, taker, M, g)
<1>1. p \in Nat /\ g \in Nat
  BY FillableBound, VolumeBound
<1>2. m \in Accounts /\ T \in Tokens /\ M \in Tokens /\ T # M
  BY AmountTypes DEF Tokens
<1>3. l.bal \in IntBalances /\ l.bal[b][u] \in Int
  BY DEF Sound, Ledgers, IntBalances
<1>4. FillOrder(l, o, taker, n).bal = last
  BY DEF FillOrder, Sound, Ledgers
<1>5. /\ debited \in IntBalances
      /\ debited[b][u] = IF b = taker /\ u = T THEN l.bal[b][u] + (-p) ELSE l.bal[b][u]
  <2> HIDE DEF p, g, m, T, M
  <2> QED
    BY <1>1, <1>2, <1>3, MovedAt
<1>6. /\ credited \in IntBalances
      /\ credited[b][u] = IF b = m /\ u = T THEN debited[b][u] + p ELSE debited[b][u]
  <2> HIDE DEF p, g, m, T, M, debited
  <2> QED
    BY <1>1, <1>2, <1>5, MovedAt
<1>7. /\ given \in IntBalances
      /\ given[b][u] = IF b = m /\ u = M THEN credited[b][u] + (-g) ELSE credited[b][u]
  <2> HIDE DEF p, g, m, T, M, debited, credited
  <2> QED
    BY <1>1, <1>2, <1>6, MovedAt
<1>8. /\ last \in IntBalances
      /\ last[b][u] = IF b = taker /\ u = M THEN given[b][u] + g ELSE given[b][u]
  <2> HIDE DEF p, g, m, T, M, debited, credited, given
  <2> QED
    BY <1>1, <1>2, <1>7, MovedAt
<1> HIDE DEF p, g, m, T, M, debited, credited, given, last
<1>9. last[b][u] =
        CASE u = T /\ b = taker /\ b # m -> l.bal[b][u] - p
          [] u = T /\ b # taker /\ b = m -> l.bal[b][u] + p
          [] u = M /\ b = taker /\ b # m -> l.bal[b][u] + g
          [] u = M /\ b # taker /\ b = m -> l.bal[b][u] - g
          [] OTHER -> l.bal[b][u]
  BY <1>1, <1>2, <1>3, <1>5, <1>6, <1>7, <1>8
<1> QED
  BY <1>4, <1>8, <1>9 DEF p, g, m, T, M

\* The taker of another's order pays in the one token and gets the other.
LEMMA TakerBalances ==
  ASSUME NEW l, Sound(l), NEW o \in Orders, NEW taker \in Accounts, NEW n \in Nat,
         taker # Maker[o]
  PROVE  LET p == Fillable(l, o, taker, n)
             f == FillOrder(l, o, taker, n)
         IN  /\ f.bal[taker][TakerToken(o)] = l.bal[taker][TakerToken(o)] - p
             /\ f.bal[taker][MakerToken(o)] = l.bal[taker][MakerToken(o)] + InMakerToken(o, p)
<1> DEFINE p == Fillable(l, o, taker, n)
           f == FillOrder(l, o, taker, n)
           T == TakerToken(o)
           M == MakerToken(o)
<1>1. T \in Tokens /\ M \in Tokens /\ T # M
  BY AmountTypes DEF Tokens
<1>2. f.bal[taker][T] = l.bal[taker][T] - p
  BY <1>1, FillBalances
<1>3. f.bal[taker][M] = l.bal[taker][M] + InMakerToken(o, p)
  BY <1>1, FillBalances
<1> QED
  BY <1>2, <1>3

\* Nobody but the taker and the maker is concerned.
LEMMA OtherBalances ==
  ASSUME NEW l, Sound(l), NEW o \in Orders, NEW taker \in Accounts, NEW n \in Nat,
         NEW b \in Accounts, b # taker, b # Maker[o], NEW u \in Tokens
  PROVE  FillOrder(l, o, taker, n).bal[b][u] = l.bal[b][u]
BY FillBalances

\* Allowances and fills after a fill.
LEMMA FillRest ==
  ASSUME NEW l, Sound(l), NEW o \in Orders, NEW taker, NEW n
  PROVE  /\ FillOrder(l, o, taker, n).allowed = l.allowed
         /\ FillOrder(l, o, taker, n).filled =
              [l.filled EXCEPT ![o] = @ + Fillable(l, o, taker, n)]
BY DEF FillOrder, Sound, Ledgers

\* A fill leaves no balance below zero, and fills no order beyond its amount.
LEMMA FillIsSound ==
  ASSUME NEW l, Sound(l), NEW o \in Orders, NEW taker \in Accounts, NEW n \in Nat
  PROVE  Sound(FillOrder(l, o, taker, n))
<1> DEFINE p == Fillable(l, o, taker, n)
           g == InMakerToken(o, p)
           f == FillOrder(l, o, taker, n)
<1>1. /\ p \in Nat /\ p <= Volume(l, o) /\ p <= Spendable(l, taker, TakerToken(o))
      /\ g \in Nat /\ g <= Spendable(l, Maker[o], MakerToken(o))
  BY FillableBound, VolumeBound
<1>2. MakerToken(o) \in Tokens /\ TakerToken(o) \in Tokens /\ MakerToken(o) # TakerToken(o)
      /\ Maker[o] \in Accounts
  BY AmountTypes DEF Tokens
<1>3. l \in Ledgers /\ \A b \in Accounts, u \in Tokens : l.bal[b][u] \in Nat
  BY DEF Sound, Ledgers
<1>4. p <= l.bal[taker][TakerToken(o)] /\ g <= l.bal[Maker[o]][MakerToken(o)]
  <2>1. /\ Spendable(l, taker, TakerToken(o)) \in Nat
        /\ Spendable(l, taker, TakerToken(o)) <= l.bal[taker][TakerToken(o)]
        /\ Spendable(l, Maker[o], MakerToken(o)) \in Nat
        /\ Spendable(l, Maker[o], MakerToken(o)) <= l.bal[Maker[o]][MakerToken(o)]
    BY <1>2, <1>3, SpendableType
  <2>2. l.bal[taker][TakerToken(o)] \in Nat /\ l.bal[Maker[o]][MakerToken(o)] \in Nat
    BY <1>2, <1>3
  <2> HIDE DEF p, g
  <2> QED
    BY <1>1, <2>1, <2>2
<1>5. ASSUME NEW b \in Accounts, NEW u \in Tokens
      PROVE  f.bal[b][u] \in Nat
  <2>1. f.bal[b][u] =
          CASE u = TakerToken(o) /\ b = taker /\ b # Maker[o] -> l.bal[b][u] - p
            [] u = TakerToken(o) /\ b # taker /\ b = Maker[o] -> l.bal[b][u] + p
            [] u = MakerToken(o) /\ b = taker /\ b # Maker[o] -> l.bal[b][u] + g
            [] u = MakerToken(o) /\ b # taker /\ b = Maker[o] -> l.bal[b][u] - g
            [] OTHER -> l.bal[b][u]
    BY FillBalances
  <2> HIDE DEF p, g, f
  <2> QED
    BY <2>1, <1>1, <1>2, <1>3, <1>4
<1>6. f.bal \in [Accounts -> [Tokens -> Nat]]
  <2>1. \A b \in Accounts : f.bal \in IntBalances
    <3>1. "base" \in Tokens
      BY DEF Tokens
    <3> QED
      BY <3>1, FillBalances
  <2>2. f.bal \in IntBalances
    BY <2>1
  <2> HIDE DEF f
  <2> QED
    BY <1>5, <2>2 DEF IntBalances
<1>7. f.filled \in [Orders -> Nat] /\ \A q \in Orders : f.filled[q] <= TakerAmount(q)
  <2>1. l.filled \in [Orders -> Nat] /\ \A q \in Orders : l.filled[q] <= TakerAmount(q)
    BY DEF Sound, Ledgers
  <2>2. f.filled = [l.filled EXCEPT ![o] = @ + p]
    BY FillRest
  <2>3. l.filled[o] + p <= TakerAmount(o)
    <3>1. Volume(l, o) \in Nat /\ Volume(l, o) <= TakerAmount(o) - l.filled[o]
          /\ l.filled[o] \in Nat /\ TakerAmount(o) \in Nat
      BY VolumeBound, AmountTypes, <2>1
    <3> HIDE DEF p
    <3> QED
      BY <1>1, <3>1
  <2> HIDE DEF p, f
  <2> QED
    BY <1>1, <2>1, <2>2, <2>3
<1>8. PICK B : f = [l EXCEPT !.bal = B, !.filled[o] = @ + p]
  BY DEF FillOrder
<1>9. f \in Ledgers
  <2> HIDE DEF f, p
  <2>1. f.bal = B /\ f.filled = [l.filled EXCEPT ![o] = @ + p]
    BY <1>3, <1>8 DEF Ledgers
  <2>2. B \in [Accounts -> [Tokens -> Nat]]
        /\ [l.filled EXCEPT ![o] = @ + p] \in [Orders -> Nat]
    BY <2>1, <1>6, <1>7
  <2>3. [l EXCEPT !.bal = B, !.filled = [l.filled EXCEPT ![o] = @ + p]] \in Ledgers
    <3> DEFINE F == [l.filled EXCEPT ![o] = @ + p]
    <3> HIDE DEF F
    <3> QED
      BY <1>3, <2>2 DEF Ledgers, F
  <2> QED
    BY <1>8, <2>3
<1>10. Sound(f)
  <2> HIDE DEF f
  <2> QED
    BY <1>7, <1>9 DEF Sound
<1> QED
  BY <1>10

\* What every order of the chain finds.
LEMMA ChainTypes ==
  ASSUME NEW l, Sound(l), NEW orders \in Seq(Orders), NEW taker \in Accounts, NEW n \in Nat,
         NEW c, FillChain(c, l, orders, taker, n)
  PROVE  \A i \in 0 .. Len(orders) : Sound(c[i].ledger) /\ c[i].left \in Nat
<1> DEFINE m == Len(orders)
           Bad == {i \in 0 .. m : ~ (Sound(c[i].ledger) /\ c[i].left \in Nat)}
<1>1. m \in Nat
  OBVIOUS
<1>2. 0 \notin Bad
  BY FillLink
<1>3. ASSUME NEW i \in 1 .. m, i - 1 \notin Bad
      PROVE  i \notin Bad
  <2>1. i - 1 \in 0 .. m /\ orders[i] \in Orders
    BY <1>1
  <2>2. Sound(c[i - 1].ledger) /\ c[i - 1].left \in Nat
    BY <1>3, <2>1
  <2>3. /\ c[i].ledger = FillOrder(c[i - 1].ledger, orders[i], taker, c[i - 1].left)
        /\ c[i].left = c[i - 1].left
                         - Fillable(c[i - 1].ledger, orders[i], taker, c[i - 1].left)
    BY FillLink
  <2>4. /\ Sound(FillOrder(c[i - 1].ledger, orders[i], taker, c[i - 1].left))
        /\ Fillable(c[i - 1].ledger, orders[i], taker, c[i - 1].left) \in Nat
        /\ Fillable(c[i - 1].ledger, orders[i], taker, c[i - 1].left) <= c[i - 1].left
    BY <2>1, <2>2, FillIsSound, FillableBound
  <2>5. Sound(c[i].ledger) /\ c[i].left \in Nat
    BY <2>2, <2>3, <2>4
  <2> QED
    BY <2>5
<1>4. Bad = {}
  <2>1. Bad \in SUBSET (0 .. m)
    OBVIOUS
  <2> HIDE DEF Bad, m
  <2> QED
    BY <2>1, <1>1, <1>2, <1>3, FirstFailure
<1> QED
  BY <1>4

\* A trade of several orders leaves a sound ledger.
LEMMA FillsAreSound ==
  ASSUME NEW l, Sound(l), NEW orders \in Seq(Orders), NEW taker \in Accounts, NEW n \in Nat
  PROVE  Sound(FillOrdersUpTo(l, orders, taker, n))
<1>1. PICK c : /\ FillChain(c, l, orders, taker, n)
               /\ FillOrdersUpTo(l, orders, taker, n) = c[Len(orders)].ledger
  BY FillsByChain
<1>2. Len(orders) \in 0 .. Len(orders)
  OBVIOUS
<1> QED
  BY <1>1, <1>2, ChainTypes

\* The other transactions.
LEMMA CancelIsSound ==
  ASSUME NEW l, Sound(l), NEW o \in Orders
  PROVE  Sound(CancelOrder(l, o, TakerAmount(o)))
<1> DEFINE n == Least({TakerAmount(o), TakerAmount(o) - l.filled[o]})
           F == [l.filled EXCEPT ![o] = @ + n]
<1>1. /\ TakerAmount(o) \in Nat /\ l.filled[o] \in Nat /\ l.filled[o] <= TakerAmount(o)
      /\ l.filled \in [Orders -> Nat] /\ l \in Ledgers
      /\ \A q \in Orders : l.filled[q] <= TakerAmount(q)
  BY AmountTypes DEF Sound, Ledgers
<1>2. n \in Nat /\ n <= TakerAmount(o) - l.filled[o]
  BY <1>1, LeastOfTwo
<1>3. CancelOrder(l, o, TakerAmount(o)) = [l EXCEPT !.filled = F]
  BY DEF CancelOrder
<1>4. F \in [Orders -> Nat] /\ \A q \in Orders : F[q] <= TakerAmount(q)
  <2> HIDE DEF n
  <2> QED
    BY <1>1, <1>2
<1>5. Sound([l EXCEPT !.filled = F])
  <2> HIDE DEF F
  <2> QED
    BY <1>1, <1>4 DEF Sound, Ledgers
<1> QED
  BY <1>3, <1>5

LEMMA ConvertIsSound ==
  ASSUME NEW l, Sound(l), NEW a \in Accounts, NEW from \in Tokens, NEW to \in Tokens,
         from # to, NEW n \in Nat, n <= l.bal[a][from]
  PROVE  Sound(Convert(l, a, from, to, n))
<1> DEFINE B == Moved(Moved(l.bal, a, from, -n), a, to, n)
<1>1. l \in Ledgers /\ l.bal \in [Accounts -> [Tokens -> Nat]]
  BY DEF Sound, Ledgers
<1>2. B \in [Accounts -> [Tokens -> Nat]]
  BY <1>1 DEF Moved
<1>3. Convert(l, a, from, to, n) = [l EXCEPT !.bal = B]
  BY DEF Convert
<1>4. Sound([l EXCEPT !.bal = B])
  <2> HIDE DEF B
  <2> QED
    BY <1>1, <1>2 DEF Sound, Ledgers
<1> QED
  BY <1>3, <1>4

LEMMA AllowanceIsSound ==
  ASSUME NEW l, Sound(l), NEW a \in Accounts, NEW t \in {"base", "quote"}
  PROVE  Sound(ApproveGateway(l, a, t)) /\ Sound(RevokeGatewayApproval(l, a, t))
<1>1. l \in Ledgers /\ l.allowed \in [Accounts -> SUBSET {"base", "quote"}]
  BY DEF Sound, Ledgers
<1>2. ASSUME NEW A \in [Accounts -> SUBSET {"base", "quote"}]
      PROVE  Sound([l EXCEPT !.allowed = A])
  BY <1>1 DEF Sound, Ledgers
<1>3. [l.allowed EXCEPT ![a] = @ \cup {t}] \in [Accounts -> SUBSET {"base", "quote"}]
      /\ [l.allowed EXCEPT ![a] = @ \ {t}] \in [Accounts -> SUBSET {"base", "quote"}]
  BY <1>1
<1> QED
  BY <1>2, <1>3 DEF ApproveGateway, RevokeGatewayApproval

-----------------------------------------------------------------------------
(***************************************************************************)
(* Types.                                                                  *)
(***************************************************************************)

LedgerTypes == Sound(ledger) /\ events \in 0 .. MaxEvents

ShownTypes ==
    [bal : ShownBalances, allowed : SUBSET {"base", "quote"},
     known : SUBSET {"base", "quote"}]

ReadTypes == [acct : PluginAccounts \cup {None}, old : ShownBalances, then : ShownTypes]

\* A read that is in flight is of an account of the plugin.
SessionTypes ==
    /\ plugin \in [acct : PluginAccounts \cup {None}, net : Networks,
                   enabled : BOOLEAN, asks : BOOLEAN]
    /\ plugin.acct # None => plugin.enabled
    /\ app \in [access : {"LOCKED", "FULL"}, addr : PluginAccounts \cup {None},
                wrong : BOOLEAN, enabled : BOOLEAN]
    /\ app.access = "LOCKED" => app.addr = None
    /\ shown \in ShownTypes
    /\ shown.allowed \subseteq shown.known
    /\ read \in [Reads -> ReadTypes]
    /\ \A q \in Reads : read[q] # NoRead => read[q].acct # None
    /\ dead \in BOOLEAN

\* A command that waits for the passphrase has the amount computed for it.
CommandTypes ==
    /\ wallet \in Imports \cup {Cli}
    /\ \/ cli = Idle
       \/ /\ cli \in [cmd : Commands, fill : Nat]
          /\ cli.cmd.verb = "trade" => cli.fill = FillAmount(cli.cmd)
    /\ listed \subseteq stored
    /\ stored \subseteq Orders

Levels == UNION {[D -> Nat] : D \in SUBSET LevelOrders}

OpTypes ==
    [kind : Kinds, st : Steps, what : Orders \cup {"base", "quote", None}, level : Levels,
     chosen : Seq(LevelOrders), amount : Nat, signer : PluginAccounts \cup {None}]

\* What an operation is about, by its kind; and who has signed.
OpIsKind(t) ==
    /\ t.kind = "submit" => t.what \in OwnOrders
    /\ t.kind = "cancel" => t.what \in Orders
    /\ t.kind \in {"approve", "revoke"} => t.what \in {"base", "quote"}
    /\ t.st \in {"placing", "publishing"} => t.kind = "submit"
    /\ t.st \in {"placing", "publishing", "sent"} => t.signer \in PluginAccounts

TradeTypes ==
    /\ panel \in Levels
    /\ op \in [Ops -> OpTypes]
    /\ \A x \in Ops : OpIsKind(op[x])
    /\ mine \in [OwnOrders -> {None, "OPEN", "CLOSED"}]

TypeInv == LedgerTypes /\ SessionTypes /\ CommandTypes /\ TradeTypes

\* The invariant is at least what the model states.
LEMMA TypeInvImplies == TypeInv => TypeOK
<1> SUFFICES ASSUME TypeInv PROVE TypeOK
  OBVIOUS
<1>1. ExchangeTypeOK
  BY DEF TypeInv, LedgerTypes, Sound, ExchangeTypeOK, TakerAmount
<1>2. SessionTypeOK
  BY <1>1 DEF TypeInv, SessionTypes, SessionTypeOK, ShownTypes, ReadTypes
<1>3. CommandTypeOK
  BY DEF TypeInv, CommandTypes, CommandTypeOK, Idle
<1>4. TradeTypes
  BY DEF TypeInv
<1>5. DOMAIN panel \subseteq LevelOrders
  BY <1>4 DEF TradeTypes, Levels
<1>6. ASSUME NEW x \in Ops
      PROVE  /\ op[x].kind \in Kinds /\ op[x].st \in Steps
             /\ op[x].what \in Orders \cup {"base", "quote", None}
             /\ DOMAIN op[x].level \subseteq LevelOrders
             /\ op[x].chosen \in Seq(LevelOrders)
             /\ op[x].amount \in Nat
             /\ op[x].signer \in PluginAccounts \cup {None}
  <2>1. op[x] \in OpTypes
    BY <1>4 DEF TradeTypes
  <2>2. op[x].level \in Levels
    BY <2>1 DEF OpTypes
  <2>3. DOMAIN op[x].level \subseteq LevelOrders
    BY <2>2 DEF Levels
  <2> QED
    BY <2>1, <2>3 DEF OpTypes
<1>7. mine \in [OwnOrders -> {None, "OPEN", "CLOSED"}]
  BY <1>4 DEF TradeTypes
<1> QED
  BY <1>2, <1>3, <1>5, <1>6, <1>7 DEF TypeOK

LEMMA EmptyLevel == <<>> \in Levels
<1>1. <<>> \in [{} -> Nat]
  OBVIOUS
<1> QED
  BY <1>1 DEF Levels

LEMMA NoOpType == NoOp \in OpTypes /\ OpIsKind(NoOp)
<1>1. <<>> \in Seq(LevelOrders)
  OBVIOUS
<1>2. NoOp \in OpTypes
  BY <1>1, EmptyLevel DEF NoOp, OpTypes, Kinds, Steps
<1> QED
  BY <1>2 DEF NoOp, OpIsKind

LEMMA HoldingsType ==
  ASSUME LedgerTypes, NEW a \in Accounts
  PROVE  Holdings(a) \in ShownTypes /\ Holdings(a).known = {"base", "quote"}
<1>1. ledger.bal[a] \in [Tokens -> Nat] /\ ledger.allowed[a] \in SUBSET {"base", "quote"}
  BY DEF LedgerTypes, Sound, Ledgers
<1>2. ledger.bal[a] \in ShownBalances
  BY <1>1 DEF ShownBalances
<1> QED
  BY <1>1, <1>2 DEF Holdings, ShownTypes

LEMMA NothingType == Nothing \in ShownTypes /\ NoRead \in ReadTypes
<1>1. [t \in Tokens |-> None] \in ShownBalances
  BY DEF ShownBalances
<1>2. Nothing \in ShownTypes
  BY <1>1 DEF Nothing, ShownTypes
<1> QED
  BY <1>1, <1>2 DEF NoRead, ReadTypes, Nothing

\* The first state has these types.
LEMMA InitTypes == Init => TypeInv
<1> SUFFICES ASSUME Init PROVE TypeInv
  OBVIOUS
<1>1. LedgerTypes
  <2>1. ledger \in Ledgers
    BY ExchangeAssumption DEF Init, SessionInit, ExchangeInit, Ledgers
  <2>2. \A o \in Orders : ledger.filled[o] <= TakerAmount(o)
    BY AmountTypes DEF Init, SessionInit, ExchangeInit
  <2> QED
    BY <2>1, <2>2, ExchangeAssumption
       DEF Init, SessionInit, ExchangeInit, LedgerTypes, Sound
<1>2. SessionTypes
  <2>1. PICK a \in PluginAccounts \cup {None} :
          /\ plugin = [acct |-> a, net |-> AppNetwork, enabled |-> a # None,
                       asks |-> a = None]
          /\ app = [access |-> IF a = None THEN "LOCKED" ELSE "FULL", addr |-> a,
                    wrong |-> FALSE, enabled |-> a # None]
          /\ shown = IF a = None THEN Nothing ELSE Holdings(a)
    BY DEF Init, SessionInit
  <2>2. read = [q \in Reads |-> NoRead] /\ dead = FALSE
    BY DEF Init, SessionInit
  <2>3. shown \in ShownTypes /\ shown.allowed \subseteq shown.known
    <3>1. CASE a = None
      BY <2>1, <3>1, NothingType DEF Nothing
    <3>2. CASE a # None
      <4>1. a \in Accounts
        BY <3>2, SessionAssumption
      <4>2. Holdings(a) \in ShownTypes /\ Holdings(a).known = {"base", "quote"}
        BY <4>1, <1>1, HoldingsType
      <4> QED
        BY <2>1, <3>2, <4>2 DEF ShownTypes
    <3> QED
      BY <3>1, <3>2
  <2>4. read \in [Reads -> ReadTypes] /\ \A q \in Reads : read[q] = NoRead
    BY <2>2, NothingType
  <2> QED
    BY <2>1, <2>2, <2>3, <2>4, SessionAssumption DEF SessionTypes
<1>3. CommandTypes
  BY CommandAssumption DEF Init, CommandInit, CommandTypes
<1>4. TradeTypes
  BY EmptyLevel, NoOpType DEF Init, TradeTypes
<1> QED
  BY <1>1, <1>2, <1>3, <1>4 DEF TypeInv

LEMMA EventType ==
  ASSUME LedgerTypes, Event
  PROVE  events' \in 0 .. MaxEvents
BY ExchangeAssumption DEF LedgerTypes, Event

LEMMA LedgerFrame ==
  ASSUME LedgerTypes, UNCHANGED ledger, events' \in 0 .. MaxEvents
  PROVE  LedgerTypes'
BY DEF LedgerTypes, Sound, Ledgers

LEMMA StartReadType ==
  ASSUME LedgerTypes, SessionTypes, NEW a \in PluginAccounts, StartRead(a)
  PROVE  read' \in [Reads -> ReadTypes] /\ \A q \in Reads : read'[q] # NoRead => read'[q].acct # None
<1>1. a \in Accounts /\ a # None
  BY SessionAssumption
<1>2. Holdings(a) \in ShownTypes /\ shown.bal \in ShownBalances
  BY <1>1, HoldingsType DEF SessionTypes, ShownTypes
<1> DEFINE new == [acct |-> a, old |-> shown.bal, then |-> Holdings(a)]
<1>3. new \in ReadTypes /\ new.acct # None
  BY <1>1, <1>2 DEF ReadTypes
<1>4. PICK q \in Reads : read' = [read EXCEPT ![q] = new]
  BY DEF StartRead
<1> HIDE DEF new
<1> QED
  BY <1>3, <1>4 DEF SessionTypes

\* What a read is answered has the type of what is shown.
LEMMA AnswersType ==
  ASSUME LedgerTypes, SessionTypes, NEW q \in Reads, read[q] # NoRead
  PROVE  \A answer \in Answers(q) : answer.bal \in ShownBalances
                                    /\ answer.allowed \in SUBSET {"base", "quote"}
<1> DEFINE now == Holdings(read[q].acct)
           then == read[q].then
<1>1. read[q] \in ReadTypes /\ read[q].acct # None
  BY DEF SessionTypes
<1>2. now \in ShownTypes /\ then \in ShownTypes
  <2>1. read[q].acct \in Accounts
    BY <1>1, SessionAssumption DEF ReadTypes
  <2> QED
    BY <1>1, <2>1, HoldingsType DEF ReadTypes
<1>3. now.bal \in ShownBalances /\ then.bal \in ShownBalances
      /\ now.allowed \in SUBSET {"base", "quote"} /\ then.allowed \in SUBSET {"base", "quote"}
  BY <1>2 DEF ShownTypes
<1> HIDE DEF now, then
<1>4. ASSUME NEW answer \in Answers(q)
      PROVE  answer.bal \in ShownBalances /\ answer.allowed \in SUBSET {"base", "quote"}
  <2> DEFINE calls == <<"base", "quote", "eth">>
             mixed(i) == [t \in Tokens |-> IF \E j \in 1 .. i : calls[j] = t
                                             THEN then.bal[t] ELSE now.bal[t]]
  <2>1. PICK i \in 0 .. 3, a \in {then.allowed, now.allowed} :
          answer = [bal |-> mixed(i), allowed |-> a]
    <3>1. Answers(q) = {[bal |-> mixed(i), allowed |-> a] :
                          i \in 0 .. 3, a \in {then.allowed, now.allowed}}
      BY DEF Answers, now, then
    <3> HIDE DEF mixed
    <3> QED
      BY <1>4, <3>1
  <2>2. mixed(i) \in ShownBalances
    <3> HIDE DEF calls
    <3> QED
      BY <1>3 DEF ShownBalances
  <2> HIDE DEF mixed
  <2> QED
    BY <2>1, <2>2, <1>3
<1> QED
  BY <1>4

LEMMA EndReadType ==
  ASSUME LedgerTypes, SessionTypes, NEW q \in Reads, NEW bad, NEW kept,
         EndRead(q, bad, kept)
  PROVE  SessionTypes'
<1>1. PICK answer \in Answers(q) :
        shown' = [bal |-> Merged(read[q].old, answer.bal, bad),
                  allowed |-> (answer.allowed \ kept) \cup (shown.allowed \cap kept),
                  known |-> ({"base", "quote"} \ kept) \cup shown.known]
  BY DEF EndRead
<1>2. answer.bal \in ShownBalances /\ answer.allowed \in SUBSET {"base", "quote"}
  BY AnswersType DEF EndRead
<1>3. shown \in ShownTypes /\ shown.allowed \subseteq shown.known
  BY DEF SessionTypes
<1>4. shown' \in ShownTypes /\ shown'.allowed \subseteq shown'.known
  <2>1. Merged(read[q].old, answer.bal, bad) \in ShownBalances
    BY <1>2, <1>3 DEF Merged, ShownTypes, ShownBalances
  <2>2. ({"base", "quote"} \ kept) \cup shown.known \in SUBSET {"base", "quote"}
        /\ (answer.allowed \ kept) \cup (shown.allowed \cap kept) \in SUBSET {"base", "quote"}
        /\ (answer.allowed \ kept) \cup (shown.allowed \cap kept)
             \subseteq ({"base", "quote"} \ kept) \cup shown.known
    BY <1>2, <1>3 DEF ShownTypes
  <2> QED
    BY <1>1, <2>1, <2>2 DEF ShownTypes
<1>5. read' \in [Reads -> ReadTypes] /\ \A p \in Reads : read'[p] # NoRead => read'[p].acct # None
  <2>1. read' = [read EXCEPT ![q] = NoRead]
    BY DEF EndRead
  <2> QED
    BY <2>1, NothingType DEF SessionTypes
<1>6. UNCHANGED <<plugin, app, dead>>
  BY DEF EndRead
<1> QED
  BY <1>4, <1>5, <1>6 DEF SessionTypes

\* The actions of the plugin and of the page's view of it.
LEMMA WalletTypes ==
  ASSUME LedgerTypes, SessionTypes, Wallet
  PROVE  LedgerTypes' /\ SessionTypes'
<1>1. ASSUME NEW a \in PluginAccounts \cup {None}, SwitchAccount(a)
      PROVE  SessionTypes'
  BY <1>1 DEF SwitchAccount, SessionTypes
<1>2. ASSUME NEW n \in Networks, SwitchNetwork(n)
      PROVE  SessionTypes'
  BY <1>2 DEF SwitchNetwork, SessionTypes
<1>3. ASSUME NEW a \in PluginAccounts, Enable(a)
      PROVE  SessionTypes'
  BY <1>3 DEF Enable, SessionTypes
<1>4. ASSUME Disable
      PROVE  SessionTypes'
  BY <1>4 DEF Disable, SessionTypes
<1>5. ASSUME CheckEnabled
      PROVE  SessionTypes'
  BY <1>5 DEF CheckEnabled, ProviderEnabled, SessionTypes
<1>6. ASSUME CheckNetwork
      PROVE  SessionTypes'
  <2>1. (plugin.net # AppNetwork) \in BOOLEAN
    OBVIOUS
  <2> QED
    BY <1>6, <2>1 DEF CheckNetwork, NetworkDetected, SessionTypes
<1>7. ASSUME EpicsEnd
      PROVE  SessionTypes'
  BY <1>7 DEF EpicsEnd, SessionTypes
<1>8. ASSUME CheckStatus
      PROVE  SessionTypes'
  <2>1. plugin.acct \in PluginAccounts \cup {None}
    BY DEF SessionTypes
  <2>2. /\ app' \in [access : {"LOCKED", "FULL"}, addr : PluginAccounts \cup {None},
                     wrong : BOOLEAN, enabled : BOOLEAN]
        /\ app'.access = "LOCKED" => app'.addr = None
    BY <1>8, <2>1 DEF CheckStatus, Accessed, SessionTypes
  <2>3. read' \in [Reads -> ReadTypes]
        /\ \A q \in Reads : read'[q] # NoRead => read'[q].acct # None
    <3>1. CASE UNCHANGED read
      BY <3>1 DEF SessionTypes
    <3>2. CASE plugin.acct # None /\ StartRead(plugin.acct)
      BY <2>1, <3>2, StartReadType
    <3> QED
      BY <1>8, <3>1, <3>2 DEF CheckStatus
  <2>4. UNCHANGED <<plugin, shown, dead>>
    BY <1>8 DEF CheckStatus
  <2> QED
    BY <2>2, <2>3, <2>4 DEF SessionTypes
<1>9. ASSUME NewBlock
      PROVE  SessionTypes'
  <2>1. app.addr \in PluginAccounts /\ StartRead(app.addr)
    BY <1>9 DEF NewBlock, SessionTypes
  <2>2. read' \in [Reads -> ReadTypes]
        /\ \A q \in Reads : read'[q] # NoRead => read'[q].acct # None
    BY <2>1, StartReadType
  <2>3. UNCHANGED <<plugin, app, shown, dead>>
    BY <1>9 DEF NewBlock
  <2> QED
    BY <2>2, <2>3 DEF SessionTypes
<1>10. ASSUME NEW q \in Reads, FinishRead(q)
       PROVE  SessionTypes'
  BY <1>10, EndReadType DEF FinishRead
<1>11. ASSUME NEW q \in Reads, NEW t \in Tokens, ReadFails(q, t)
       PROVE  SessionTypes'
  BY <1>11, EndReadType DEF ReadFails
<1>12. UNCHANGED ledger /\ (Event \/ UNCHANGED events)
  BY DEF Wallet, SwitchAccount, SwitchNetwork, Enable, Disable, CheckEnabled, CheckNetwork,
         EpicsEnd, CheckStatus, NewBlock, FinishRead, ReadFails, EndRead
<1>13. events' \in 0 .. MaxEvents
  BY <1>12, EventType DEF LedgerTypes
<1> QED
  BY <1>1, <1>2, <1>3, <1>4, <1>5, <1>6, <1>7, <1>8, <1>9, <1>10, <1>11, <1>12, <1>13,
     LedgerFrame DEF Wallet

LEMMA FillAmountType ==
  ASSUME NEW c \in Commands, c.verb = "trade"
  PROVE  FillAmount(c) \in Nat
<1>1. c.order \in Orders /\ c.amount \in Nat
  BY CommandAssumption
<1>2. MakerAmount(c.order) \in Nat \ {0} /\ TakerAmount(c.order) \in Nat \ {0}
  BY <1>1, AmountTypes
<1>3. c.amount * TakerAmount(c.order) \in Nat
  BY <1>1, <1>2
<1>4. (c.amount * TakerAmount(c.order)) \div MakerAmount(c.order) \in Nat
  BY <1>2, <1>3, DivisionRoundsDown
<1> QED
  BY <1>1, <1>4 DEF FillAmount

LEMMA WrapIsSound ==
  ASSUME NEW l, Sound(l), NEW a \in Accounts, NEW n \in Nat
  PROVE  /\ l.bal[a]["eth"] >= n => Sound(WrapEth(l, a, n))
         /\ l.bal[a]["quote"] >= n => Sound(UnwrapEth(l, a, n))
<1>1. "eth" \in Tokens /\ "quote" \in Tokens
  BY DEF Tokens
<1>2. l.bal[a]["eth"] \in Nat /\ l.bal[a]["quote"] \in Nat
  BY <1>1 DEF Sound, Ledgers
<1>3. ASSUME l.bal[a]["eth"] >= n PROVE Sound(Convert(l, a, "eth", "quote", n))
  <2>1. n <= l.bal[a]["eth"]
    BY <1>2, <1>3
  <2> QED
    BY <1>1, <2>1, ConvertIsSound
<1>4. ASSUME l.bal[a]["quote"] >= n PROVE Sound(Convert(l, a, "quote", "eth", n))
  <2>1. n <= l.bal[a]["quote"]
    BY <1>2, <1>4
  <2> QED
    BY <1>1, <2>1, ConvertIsSound
<1> QED
  BY <1>3, <1>4 DEF WrapEth, UnwrapEth

\* Whatever command is executed leaves a sound ledger.
LEMMA ExecutedIsSound ==
  ASSUME LedgerTypes, CommandTypes, NEW c \in Commands, cli.cmd = c, cli.fill \in Nat
  PROVE  Sound(Executed(c))
<1>1. wallet \in Accounts /\ Sound(ledger)
  BY CommandAssumption DEF CommandTypes, LedgerTypes
<1>2. CASE c.verb = "trade"
  <2>1. c.order \in Orders
    BY <1>2, CommandAssumption
  <2>2. Executed(c) = FillOrder(ledger, c.order, wallet, cli.fill)
    BY <1>2 DEF Executed, TradeTx
  <2> QED
    BY <2>1, <2>2, <1>1, FillIsSound
<1>3. CASE c.verb = "cancel"
  <2>1. c.order \in Orders
    BY <1>3, CommandAssumption
  <2>2. Executed(c) \in {CancelTx(c), ledger}
    BY <1>3 DEF Executed
  <2> QED
    BY <2>1, <2>2, <1>1, CancelIsSound DEF CancelTx
<1>4. CASE c.verb \in {"approve", "revoke"}
  <2>1. c.token \in {"base", "quote"}
    BY <1>4, CommandAssumption
  <2>2. Executed(c) \in {ApproveTx(c), RevokeTx(c)}
    BY <1>4 DEF Executed
  <2> QED
    BY <2>1, <2>2, <1>1, AllowanceIsSound DEF ApproveTx, RevokeTx
<1>5. CASE c.verb \in {"eth2weth", "weth2eth"}
  <2>1. c.amount \in Nat
    BY <1>5, CommandAssumption
  <2>2. \/ Executed(c) = ledger
        \/ CanWrap(c) /\ Executed(c) = WrapTx(c)
        \/ CanUnwrap(c) /\ Executed(c) = UnwrapTx(c)
    BY <1>5 DEF Executed
  <2> QED
    BY <2>1, <2>2, <1>1, WrapIsSound DEF CanWrap, CanUnwrap, WrapTx, UnwrapTx
<1>6. CASE c.verb \in {"buy", "sell"}
  BY <1>1, <1>6 DEF Executed
<1> QED
  BY <1>2, <1>3, <1>4, <1>5, <1>6, CommandAssumption DEF Verbs

LEMMA PlaceType ==
  ASSUME listed \subseteq stored, stored \subseteq Orders, NEW o \in Orders, NEW a,
         PlaceOrder(o, a)
  PROVE  listed' \subseteq stored' /\ stored' \subseteq Orders
BY DEF PlaceOrder, Onboard

\* The actions of the command line and of the service.
LEMMA CommandStepTypes ==
  ASSUME LedgerTypes, CommandTypes, Command
  PROVE  LedgerTypes' /\ CommandTypes'
<1>1. ASSUME NEW o \in Orders, Delist(o)
      PROVE  LedgerTypes' /\ CommandTypes'
  <2>1. CommandTypes'
    BY <1>1 DEF Delist, CommandTypes, FillAmount, TakerAmount, MakerAmount, Idle
  <2>2. UNCHANGED ledger /\ events' \in 0 .. MaxEvents
    BY <1>1 DEF Delist, LedgerTypes
  <2> QED
    BY <2>1, <2>2, LedgerFrame
<1>2. ASSUME NEW a \in Imports, ImportWallet(a)
      PROVE  LedgerTypes' /\ CommandTypes'
  <2>1. CommandTypes'
    BY <1>2 DEF ImportWallet, CommandTypes, FillAmount, TakerAmount, MakerAmount, Idle
  <2>2. UNCHANGED ledger /\ events' \in 0 .. MaxEvents
    BY <1>2, EventType DEF ImportWallet
  <2> QED
    BY <2>1, <2>2, LedgerFrame
<1>3. ASSUME NEW c \in Commands, Prepare(c)
      PROVE  LedgerTypes' /\ CommandTypes'
  <2>1. cli' = [cmd |-> c, fill |-> IF c.verb = "trade" THEN FillAmount(c) ELSE 0]
    BY <1>3 DEF Prepare
  <2>2. (IF c.verb = "trade" THEN FillAmount(c) ELSE 0) \in Nat
    BY FillAmountType
  <2>3. UNCHANGED <<wallet, listed, stored>>
    BY <1>3 DEF Prepare
  <2>4. /\ cli' \in [cmd : Commands, fill : Nat]
        /\ cli'.cmd.verb = "trade" => cli'.fill = FillAmount(cli'.cmd)
    BY <2>1, <2>2
  <2>5. CommandTypes'
    BY <2>3, <2>4 DEF CommandTypes, FillAmount, TakerAmount, MakerAmount
  <2>6. UNCHANGED ledger /\ events' \in 0 .. MaxEvents
    BY <1>3, EventType DEF Prepare
  <2> QED
    BY <2>5, <2>6, LedgerFrame
<1>4. ASSUME Abandon
      PROVE  LedgerTypes' /\ CommandTypes'
  <2>1. CommandTypes'
    BY <1>4 DEF Abandon, CommandTypes, Idle
  <2>2. UNCHANGED ledger /\ events' \in 0 .. MaxEvents
    BY <1>4 DEF Abandon, LedgerTypes
  <2> QED
    BY <2>1, <2>2, LedgerFrame
<1>5. ASSUME Execute
      PROVE  LedgerTypes' /\ CommandTypes'
  <2>1. cli.cmd \in Commands /\ cli.fill \in Nat
    BY <1>5 DEF Execute, CommandTypes
  <2>2. Sound(ledger')
    BY <1>5, <2>1, ExecutedIsSound DEF Execute
  <2>3. listed' \subseteq stored' /\ stored' \subseteq Orders
    <3>1. CASE cli.cmd.verb \in {"buy", "sell"}
      <4>1. cli.cmd.order \in Orders /\ PlaceOrder(cli.cmd.order, wallet)
        BY <1>5, <2>1, <3>1, CommandAssumption DEF Execute, BuyOrSell
      <4> QED
        BY <4>1, PlaceType DEF CommandTypes
    <3>2. CASE ~ (cli.cmd.verb \in {"buy", "sell"})
      BY <1>5, <3>2 DEF Execute, CommandTypes
    <3> QED
      BY <3>1, <3>2
  <2>4. UNCHANGED <<events, wallet>> /\ cli' = Idle
    BY <1>5 DEF Execute
  <2> QED
    BY <2>2, <2>3, <2>4 DEF LedgerTypes, CommandTypes, Sound, Idle
<1> QED
  BY <1>1, <1>2, <1>3, <1>4, <1>5 DEF Command

LEMMA LevelDomain ==
  ASSUME NEW level \in Levels
  PROVE  /\ DOMAIN level \subseteq LevelOrders /\ IsFiniteSet(DOMAIN level)
         /\ \A o \in DOMAIN level : level[o] \in Nat /\ o \in Orders
<1>1. PICK D \in SUBSET LevelOrders : level \in [D -> Nat]
  BY DEF Levels
<1>2. IsFiniteSet(D)
  BY TradingAssumption, FS_Subset
<1> QED
  BY <1>1, <1>2, TradingAssumption

\* What the form shows of a level, and what the user may be asked to pay.
LEMMA ShownBaseType ==
  ASSUME NEW level \in Levels
  PROVE  SumFunction(ShownBase(level)) \in Nat
<1>1. ASSUME NEW o \in DOMAIN level
      PROVE  ShownBase(level)[o] \in Nat
  <2>1. level[o] \in Nat /\ MakerAmount(o) \in Nat \ {0} /\ TakerAmount(o) \in Nat \ {0}
    BY LevelDomain, AmountTypes
  <2>2. level[o] * MakerAmount(o) \in Nat
    BY <2>1
  <2>3. (level[o] * MakerAmount(o)) \div TakerAmount(o) \in Nat
    BY <2>1, <2>2, DivisionRoundsDown
  <2> QED
    BY <2>1, <2>3 DEF ShownBase, BaseOf, InMakerToken
<1>2. DOMAIN ShownBase(level) = DOMAIN level
  BY DEF ShownBase
<1> QED
  BY <1>1, <1>2, LevelDomain, SumType DEF SumFunction

LEMMA PayAmountType ==
  ASSUME NEW level \in Levels, NEW n \in FormAmounts(level)
  PROVE  PayAmount(level, n) \in Nat
<1>1. n \in Nat
  BY ShownBaseType DEF FormAmounts, Typed
<1> QED
  BY <1>1, TradingAssumption DEF PayAmount

\* A smallest-first order has each order of the level once.
LEMMA SmallestFirstType ==
  ASSUME NEW level \in Levels, NEW s \in SmallestFirst(level)
  PROVE  /\ s \in Seq(LevelOrders) /\ s \in Seq(DOMAIN level)
         /\ Len(s) = Cardinality(DOMAIN level) /\ Len(s) \in Nat
         /\ \A i, j \in 1 .. Len(s) : s[i] = s[j] => i = j
<1> DEFINE D == DOMAIN level
           k == Cardinality(D)
<1>1. D \subseteq LevelOrders /\ k \in Nat
  BY LevelDomain, FS_CardinalityType
<1>2. s \in [1 .. k -> D] /\ \A i, j \in 1 .. k : i # j => s[i] # s[j]
  BY DEF SmallestFirst, SetToSeqs
<1> HIDE DEF D, k
<1>3. s \in Seq(D) /\ Len(s) = k
  BY <1>1, <1>2
<1>4. s \in Seq(LevelOrders)
  BY <1>1, <1>3
<1> QED
  BY <1>1, <1>2, <1>3, <1>4 DEF D, k

LEMMA ChosenType ==
  ASSUME NEW level \in Levels, NEW s \in SmallestFirst(level), NEW n
  PROVE  Chosen(level, s, n) \in Seq(LevelOrders)
<1> DEFINE I == {i \in DOMAIN s : Paid(level, s, i - 1) < n}
           k == Cardinality(I)
<1>1. s \in Seq(LevelOrders) /\ Len(s) \in Nat /\ DOMAIN s = 1 .. Len(s)
  BY SmallestFirstType
<1>2. IsFiniteSet(1 .. Len(s)) /\ Cardinality(1 .. Len(s)) = Len(s)
  BY <1>1, FS_Interval
<1>3. I \in SUBSET (1 .. Len(s))
  BY <1>1
<1> HIDE DEF I
<1>4. k \in Nat /\ k <= Len(s)
  BY <1>2, <1>3, FS_Subset, FS_CardinalityType
<1> HIDE DEF k
<1>5. SubSeq(s, 1, k) \in Seq(LevelOrders)
  BY <1>1, <1>4
<1> QED
  BY <1>5 DEF Chosen, I, k

LEMMA NewOpType ==
  ASSUME NEW kind \in Kinds, NEW st \in Steps, NEW what \in Orders \cup {"base", "quote", None}
  PROVE  NewOp(kind, st, what) \in OpTypes /\ NewOp(kind, st, what).kind = kind
         /\ NewOp(kind, st, what).st = st /\ NewOp(kind, st, what).what = what
BY NoOpType DEF NewOp, OpTypes

LEMMA AskType ==
  ASSUME NEW level \in Levels, NEW n \in FormAmounts(level), NEW s \in SmallestFirst(level)
  PROVE  /\ AskForOrders(level, s, PayAmount(level, n)) \in OpTypes
         /\ OpIsKind(AskForOrders(level, s, PayAmount(level, n)))
<1> DEFINE new == NewOp("trade", "query", None)
           pay == PayAmount(level, n)
           chosen == Chosen(level, s, pay)
           ask == AskForOrders(level, s, pay)
<1>1. new \in OpTypes /\ new.kind = "trade" /\ new.st = "query"
  BY NewOpType DEF Kinds, Steps
<1>2. pay \in Nat
  BY PayAmountType
<1>3. chosen \in Seq(LevelOrders)
  BY ChosenType
<1>4. ask = [new EXCEPT !.level = level, !.amount = pay, !.chosen = chosen]
  BY DEF AskForOrders
<1> HIDE DEF new, pay, chosen, ask
<1>5. ask \in OpTypes /\ ask.kind = "trade" /\ ask.st = "query"
  BY <1>1, <1>2, <1>3, <1>4 DEF OpTypes
<1>6. OpIsKind(ask)
  BY <1>5 DEF OpIsKind
<1> QED
  BY <1>5, <1>6 DEF ask, pay

\* A variable of a session, of the commands, that an action leaves.
LEMMA SessionFrame ==
  ASSUME SessionTypes, UNCHANGED walletVars
  PROVE  SessionTypes'
BY DEF SessionTypes, walletVars, NoRead, Nothing

LEMMA CommandFrame ==
  ASSUME CommandTypes, UNCHANGED commandVars
  PROVE  CommandTypes'
BY DEF CommandTypes, commandVars, FillAmount, TakerAmount, MakerAmount, Idle

\* One operation changes, or is replaced.
LEMMA OpStep ==
  ASSUME TradeTypes, NEW x \in Ops, NEW new \in OpTypes, OpIsKind(new),
         op' = [op EXCEPT ![x] = new], UNCHANGED <<panel, mine>>
  PROVE  TradeTypes'
<1>1. op' \in [Ops -> OpTypes] /\ \A y \in Ops : op'[y] = IF y = x THEN new ELSE op[y]
  BY DEF TradeTypes
<1>2. \A y \in Ops : OpIsKind(op'[y])
  BY <1>1 DEF TradeTypes
<1> QED
  BY <1>1, <1>2 DEF TradeTypes

LEMMA BeginTypes ==
  ASSUME TypeInv, NEW x \in Ops, NEW new \in OpTypes, OpIsKind(new), Begin(x, new)
  PROVE  TypeInv'
<1>1. TradeTypes'
  BY OpStep DEF TypeInv, Begin
<1>2. LedgerTypes'
  BY EventType, LedgerFrame DEF TypeInv, Begin
<1> QED
  BY <1>1, <1>2, SessionFrame, CommandFrame DEF TypeInv, Begin

LEMMA SelectTypes ==
  ASSUME TypeInv, SelectOrder \/ DeselectOrder
  PROVE  TypeInv'
<1>1. panel' \in Levels
  <2>1. CASE SelectOrder
    <3>1. \A o \in Offered : Volume(ledger, o) \in Nat
      BY VolumeBound, TradingAssumption DEF Offered, TypeInv, LedgerTypes
    <3>2. Offered \in SUBSET LevelOrders
      BY DEF Offered
    <3>3. panel' = [o \in Offered |-> Volume(ledger, o)]
      BY <2>1 DEF SelectOrder
    <3>4. panel' \in [Offered -> Nat]
      BY <3>1, <3>3
    <3> QED
      BY <3>2, <3>4 DEF Levels
  <2>2. CASE DeselectOrder
    BY <2>2, EmptyLevel DEF DeselectOrder
  <2> QED
    BY <2>1, <2>2
<1>2. UNCHANGED <<ledger, walletVars, commandVars, op, mine>> /\ (Event \/ UNCHANGED events)
  BY DEF SelectOrder, DeselectOrder
<1>3. TradeTypes'
  BY <1>1, <1>2 DEF TypeInv, TradeTypes
<1>4. LedgerTypes'
  BY <1>2, EventType, LedgerFrame DEF TypeInv, LedgerTypes
<1> QED
  BY <1>2, <1>3, <1>4, SessionFrame, CommandFrame DEF TypeInv

LEMMA TradeActionTypes ==
  ASSUME TypeInv, NEW x \in Ops, Trade(x)
  PROVE  TypeInv'
<1>1. PICK n \in FormAmounts(panel), s \in SmallestFirst(panel) :
        op' = [y \in Ops |->
                CASE y = x -> AskForOrders(panel, s, PayAmount(panel, n))
                  [] y # x /\ op[y].st = "query" -> NoOp
                  [] OTHER -> op[y]]
  BY DEF Trade
<1> DEFINE ask == AskForOrders(panel, s, PayAmount(panel, n))
<1>2. ask \in OpTypes /\ OpIsKind(ask)
  BY AskType DEF TypeInv, TradeTypes
<1>3. \A y \in Ops : op'[y] \in {ask, NoOp, op[y]}
  <2> HIDE DEF ask
  <2> QED
    BY <1>1 DEF ask
<1>4. \A y \in Ops : op'[y] \in OpTypes /\ OpIsKind(op'[y])
  <2> HIDE DEF ask
  <2>1. \A y \in Ops : op[y] \in OpTypes /\ OpIsKind(op[y])
    BY DEF TypeInv, TradeTypes
  <2> QED
    BY <1>2, <1>3, <2>1, NoOpType
<1>5. op' \in [Ops -> OpTypes]
  <2>1. op' = [y \in Ops |-> op'[y]]
    BY <1>1
  <2> QED
    BY <1>4, <2>1
<1>6. Event /\ UNCHANGED <<ledger, walletVars, commandVars, panel, mine>>
  BY DEF Trade
<1>7. TradeTypes'
  BY <1>4, <1>5, <1>6 DEF TypeInv, TradeTypes
<1>8. LedgerTypes'
  BY <1>6, EventType, LedgerFrame DEF TypeInv
<1> QED
  BY <1>6, <1>7, <1>8, SessionFrame, CommandFrame DEF TypeInv

LEMMA QueryTypes ==
  ASSUME TypeInv, NEW x \in Ops, QueryOrderBatch(x)
  PROVE  TypeInv'
<1>1. op[x] \in OpTypes /\ OpIsKind(op[x]) /\ op[x].st = "query"
  BY DEF TypeInv, TradeTypes, QueryOrderBatch
<1> DEFINE found == Found(op[x].chosen)
           new == [op[x] EXCEPT !.st = "signing", !.chosen = found]
<1>2. found \in Seq(LevelOrders)
  BY <1>1, FoundType DEF OpTypes
<1>3. op' = [op EXCEPT ![x] = new]
  BY <1>1 DEF QueryOrderBatch, TypeInv, TradeTypes
<1>4. new \in OpTypes /\ OpIsKind(new)
  <2> HIDE DEF found
  <2> QED
    BY <1>1, <1>2 DEF OpTypes, OpIsKind, Steps
<1>5. UNCHANGED <<ledger, events, walletVars, commandVars, panel, mine>>
  BY DEF QueryOrderBatch
<1>6. TradeTypes'
  <2> HIDE DEF new
  <2> QED
    BY <1>3, <1>4, <1>5, OpStep DEF TypeInv
<1>7. LedgerTypes'
  BY <1>5, LedgerFrame DEF TypeInv, LedgerTypes
<1> QED
  BY <1>5, <1>6, <1>7, SessionFrame, CommandFrame DEF TypeInv

LEMMA SubmitTypes ==
  ASSUME TypeInv, NEW x \in Ops, NEW o \in OwnOrders, SubmitOrder(x, o)
  PROVE  TypeInv'
<1> DEFINE new == NewOp("submit", "signing", o)
<1>1. new \in OpTypes /\ OpIsKind(new)
  BY NewOpType, TradingAssumption DEF Kinds, Steps, OpIsKind
<1> HIDE DEF new
<1>2. Begin(x, new)
  BY DEF SubmitOrder, new
<1> QED
  BY <1>1, <1>2, BeginTypes

LEMMA WalletActionTypes ==
  ASSUME TypeInv, NEW x \in Ops, WalletAction(x)
  PROVE  TypeInv'
<1>1. ASSUME NEW o \in MyOrders, Cancel(x, o)
      PROVE  TypeInv'
  <2> DEFINE new == NewOp("cancel", "signing", o)
  <2>1. o \in Orders
    BY TradingAssumption DEF MyOrders
  <2>2. new \in OpTypes /\ OpIsKind(new)
    BY <2>1, NewOpType DEF Kinds, Steps, OpIsKind
  <2> HIDE DEF new
  <2>3. Begin(x, new)
    BY <1>1 DEF Cancel, new
  <2> QED
    BY <2>2, <2>3, BeginTypes
<1>2. ASSUME NEW kind \in {"wrap", "unwrap"}, Begin(x, NewOp(kind, "signing", None))
      PROVE  TypeInv'
  <2> DEFINE new == NewOp(kind, "signing", None)
  <2>1. new \in OpTypes /\ OpIsKind(new)
    BY NewOpType DEF Kinds, Steps, OpIsKind
  <2> HIDE DEF new
  <2>2. Begin(x, new)
    BY <1>2 DEF new
  <2> QED
    BY <2>1, <2>2, BeginTypes
<1>3. ASSUME NEW kind \in {"approve", "revoke"}, NEW t \in {"base", "quote"},
             Begin(x, NewOp(kind, "signing", t))
      PROVE  TypeInv'
  <2> DEFINE new == NewOp(kind, "signing", t)
  <2>1. new \in OpTypes /\ OpIsKind(new)
    BY NewOpType DEF Kinds, Steps, OpIsKind
  <2> HIDE DEF new
  <2>2. Begin(x, new)
    BY <1>3 DEF new
  <2> QED
    BY <2>1, <2>2, BeginTypes
<1> QED
  BY <1>1, <1>2, <1>3 DEF WalletAction, CancelMine, Wrap, Unwrap, Approve, Revoke

\* An operation goes on to its next step.
LEMMA NextStepType ==
  ASSUME NEW t \in OpTypes, OpIsKind(t), NEW st \in Steps,
         NEW a \in PluginAccounts \cup {None},
         st \in {"placing", "publishing"} => t.kind = "submit",
         st \in {"placing", "publishing", "sent"} => a \in PluginAccounts
  PROVE  [t EXCEPT !.signer = a, !.st = st] \in OpTypes
         /\ OpIsKind([t EXCEPT !.signer = a, !.st = st])
BY DEF OpTypes, OpIsKind

LEMMA PlaceTypes ==
  ASSUME TypeInv, NEW x \in Ops, Place(x)
  PROVE  TypeInv'
<1> DEFINE t == op[x]
           new == [t EXCEPT !.st = "publishing"]
<1>1. t \in OpTypes /\ OpIsKind(t) /\ t.st = "placing"
  BY DEF Place, TypeInv, TradeTypes
<1>2. t.kind = "submit" /\ t.signer \in PluginAccounts /\ t.what \in OwnOrders
  BY <1>1 DEF OpIsKind
<1>3. new \in OpTypes /\ OpIsKind(new)
  <2> HIDE DEF t
  <2> QED
    BY <1>1, <1>2 DEF OpTypes, OpIsKind, Steps
<1>4. op' = [op EXCEPT ![x] = new]
  BY DEF Place, Placed
<1>5. UNCHANGED <<ledger, events, walletVars, wallet, cli, panel, mine>>
  BY DEF Place
<1>6. TradeTypes'
  <2> HIDE DEF new
  <2> QED
    BY <1>3, <1>4, <1>5, OpStep DEF TypeInv
<1>7. listed' \subseteq stored' /\ stored' \subseteq Orders
  <2>1. t.what \in Orders /\ PlaceOrder(t.what, t.signer)
    BY <1>2, TradingAssumption DEF Place
  <2> HIDE DEF t
  <2> QED
    BY <2>1, PlaceType DEF TypeInv, CommandTypes
<1>8. CommandTypes'
  BY <1>5, <1>7 DEF TypeInv, CommandTypes, FillAmount, TakerAmount, MakerAmount, Idle
<1>9. LedgerTypes'
  BY <1>5, LedgerFrame DEF TypeInv, LedgerTypes
<1> QED
  BY <1>5, <1>6, <1>8, <1>9, SessionFrame DEF TypeInv

LEMMA PublishTypes ==
  ASSUME TypeInv, NEW x \in Ops, Publish(x)
  PROVE  TypeInv'
<1>1. op[x] \in OpTypes /\ OpIsKind(op[x]) /\ op[x].st = "publishing"
  BY DEF Publish, TypeInv, TradeTypes
<1>2. op[x].what \in OwnOrders
  BY <1>1 DEF OpIsKind
<1>3. mine' \in [OwnOrders -> {None, "OPEN", "CLOSED"}]
  <2>1. PICK st \in StatesOf(op[x].what, op[x].signer) : mine' = [mine EXCEPT ![op[x].what] = st]
    BY DEF Publish, Inserted
  <2>2. st \in {"OPEN", "CLOSED"}
    BY DEF StatesOf
  <2> QED
    BY <1>2, <2>1, <2>2 DEF TypeInv, TradeTypes
<1>4. UNCHANGED <<ledger, events, walletVars, commandVars, panel>>
  BY DEF Publish
<1>5. op' \in [Ops -> OpTypes] /\ \A y \in Ops : OpIsKind(op'[y])
  <2>1. op' = [op EXCEPT ![x] = NoOp]
    BY DEF Publish
  <2> QED
    BY <2>1, NoOpType DEF TypeInv, TradeTypes
<1>6. LedgerTypes'
  BY <1>4, LedgerFrame DEF TypeInv, LedgerTypes
<1>7. TradeTypes'
  BY <1>3, <1>4, <1>5 DEF TypeInv, TradeTypes
<1> QED
  BY <1>4, <1>6, <1>7, SessionFrame, CommandFrame DEF TypeInv

LEMMA ConfirmTypes ==
  ASSUME TypeInv, NEW x \in Ops, SignOrder(x) \/ SendTransaction(x)
  PROVE  TypeInv'
<1>1. PICK next \in {"placing", "sent"} :
        Confirm(x, next) /\ (next = "placing" => op[x].kind = "submit")
  BY DEF SignOrder, SendTransaction
<1>2. op[x] \in OpTypes /\ OpIsKind(op[x])
  BY DEF TypeInv, TradeTypes
<1>3. plugin.acct \in PluginAccounts
  BY <1>1 DEF Confirm, TypeInv, SessionTypes
<1> DEFINE new == [op[x] EXCEPT !.signer = plugin.acct, !.st = next]
<1>4. new \in OpTypes /\ OpIsKind(new)
  BY <1>1, <1>2, <1>3, NextStepType DEF Steps
<1>5. op' = [op EXCEPT ![x] = new]
  BY <1>1 DEF Confirm, TypeInv, TradeTypes
<1>6. UNCHANGED <<ledger, events, walletVars, commandVars, panel, mine>>
  BY <1>1 DEF Confirm
<1>7. TradeTypes'
  <2> HIDE DEF new
  <2> QED
    BY <1>4, <1>5, <1>6, OpStep DEF TypeInv
<1>8. LedgerTypes'
  BY <1>6, LedgerFrame DEF TypeInv, LedgerTypes
<1> QED
  BY <1>6, <1>7, <1>8, SessionFrame, CommandFrame DEF TypeInv

LEMMA RefuseTypes ==
  ASSUME TypeInv, NEW x \in Ops, RefuseOrder(x) \/ RefuseTransaction(x)
  PROVE  TypeInv'
<1>1. Withdraw(x) /\ (dead' = TRUE \/ UNCHANGED dead)
  BY DEF RefuseOrder, RefuseTransaction
<1>2. op' = [op EXCEPT ![x] = NoOp]
      /\ UNCHANGED <<ledger, events, plugin, app, shown, read, commandVars, panel, mine>>
  BY <1>1 DEF Withdraw
<1>3. TradeTypes'
  BY <1>2, NoOpType, OpStep DEF TypeInv
<1>4. LedgerTypes'
  BY <1>2, LedgerFrame DEF TypeInv, LedgerTypes
<1>5. SessionTypes'
  BY <1>1, <1>2 DEF TypeInv, SessionTypes, NoRead, Nothing
<1> QED
  BY <1>2, <1>3, <1>4, <1>5, CommandFrame DEF TypeInv

\* Whatever transaction is mined, it leaves a sound ledger.
LEMMA AppliedIsSound ==
  ASSUME Sound(ledger), NEW t \in OpTypes, OpIsKind(t), t.st = "sent"
  PROVE  Sound(Applied(t))
<1>1. t.signer \in Accounts
  BY SessionAssumption DEF OpIsKind
<1>2. CASE t.kind = "trade"
  <2>1. t.chosen \in Seq(Orders) /\ t.amount \in Nat
    <3>1. t.chosen \in Seq(LevelOrders) /\ t.amount \in Nat
      BY DEF OpTypes
    <3> QED
      BY <3>1, TradingAssumption
  <2> QED
    BY <1>1, <1>2, <2>1, FillsAreSound DEF Applied
<1>3. CASE t.kind = "cancel"
  <2>1. t.what \in Orders
    BY <1>3 DEF OpIsKind
  <2>2. Applied(t) \in {CancelOrder(ledger, t.what, TakerAmount(t.what)), ledger}
    BY <1>3 DEF Applied
  <2> QED
    BY <2>1, <2>2, CancelIsSound
<1>4. CASE t.kind \in {"approve", "revoke"}
  <2>1. t.what \in {"base", "quote"}
    BY <1>4 DEF OpIsKind
  <2>2. Applied(t) \in {ApproveGateway(ledger, t.signer, t.what),
                        RevokeGatewayApproval(ledger, t.signer, t.what)}
    BY <1>4 DEF Applied
  <2> QED
    BY <1>1, <2>1, <2>2, AllowanceIsSound
<1>5. CASE t.kind \in {"wrap", "unwrap"}
  <2>1. \/ Applied(t) = ledger
        \/ /\ ledger.bal[t.signer]["eth"] >= WrapAmount
           /\ Applied(t) = WrapEth(ledger, t.signer, WrapAmount)
        \/ /\ ledger.bal[t.signer]["quote"] >= WrapAmount
           /\ Applied(t) = UnwrapEth(ledger, t.signer, WrapAmount)
    BY <1>5 DEF Applied
  <2> QED
    BY <1>1, <2>1, WrapIsSound, TradingAssumption
<1>6. CASE t.kind \in {"none", "submit"}
  BY <1>6 DEF Applied
<1> QED
  BY <1>2, <1>3, <1>4, <1>5, <1>6 DEF OpTypes, Kinds

LEMMA MineTypes ==
  ASSUME TypeInv, NEW x \in Ops, Mine(x)
  PROVE  TypeInv'
<1>1. Sound(ledger')
  BY AppliedIsSound DEF Mine, TypeInv, TradeTypes, LedgerTypes
<1>2. op' = [op EXCEPT ![x] = NoOp]
      /\ UNCHANGED <<events, walletVars, commandVars, panel, mine>>
  BY DEF Mine, Received
<1>3. TradeTypes'
  BY <1>2, NoOpType, OpStep DEF TypeInv
<1>4. LedgerTypes'
  BY <1>1, <1>2 DEF TypeInv, LedgerTypes, Sound
<1> QED
  BY <1>2, <1>3, <1>4, SessionFrame, CommandFrame DEF TypeInv

LEMMA FailTypes ==
  ASSUME TypeInv, NEW x \in Ops, TransactionFails(x)
  PROVE  TypeInv'
<1> DEFINE t == op[x]
           new == IF t.kind \in {"approve", "revoke"} THEN [t EXCEPT !.st = "failed"] ELSE NoOp
<1>1. t \in OpTypes /\ OpIsKind(t)
  BY DEF TypeInv, TradeTypes
<1>2. new \in OpTypes /\ OpIsKind(new)
  <2> HIDE DEF t
  <2> QED
    BY <1>1, NoOpType DEF OpTypes, OpIsKind, Steps
<1>3. op' = [op EXCEPT ![x] = new]
  BY DEF TransactionFails, TypeInv, TradeTypes
<1>4. Event /\ UNCHANGED <<ledger, walletVars, commandVars, panel, mine>>
  BY DEF TransactionFails
<1>5. TradeTypes'
  <2> HIDE DEF new
  <2> QED
    BY <1>2, <1>3, <1>4, OpStep DEF TypeInv
<1>6. LedgerTypes'
  BY <1>4, EventType, LedgerFrame DEF TypeInv
<1> QED
  BY <1>4, <1>5, <1>6, SessionFrame, CommandFrame DEF TypeInv

LEMMA PollTypes ==
  ASSUME TypeInv, NEW o \in OwnOrders, PollOrder(o)
  PROVE  TypeInv'
<1>1. mine' = [mine EXCEPT ![o] = "CLOSED"]
      /\ UNCHANGED <<ledger, events, walletVars, commandVars, panel, op>>
  BY DEF PollOrder, Updated
<1>2. TradeTypes'
  BY <1>1 DEF TypeInv, TradeTypes
<1>3. LedgerTypes'
  BY <1>1, LedgerFrame DEF TypeInv, LedgerTypes
<1> QED
  BY <1>1, <1>2, <1>3, SessionFrame, CommandFrame DEF TypeInv

LEMMA TradeFrame ==
  ASSUME TradeTypes, UNCHANGED tradeVars
  PROVE  TradeTypes'
BY DEF TradeTypes, tradeVars

\* Every step keeps them.
LEMMA StepTypes ==
  ASSUME TypeInv, [Next]_vars
  PROVE  TypeInv'
<1>1. CASE Wallet /\ UNCHANGED <<commandVars, tradeVars>>
  BY <1>1, WalletTypes, CommandFrame, TradeFrame DEF TypeInv
<1>2. CASE Command /\ UNCHANGED <<walletVars, tradeVars>>
  BY <1>2, CommandStepTypes, SessionFrame, TradeFrame DEF TypeInv
<1>3. CASE UNCHANGED vars
  <2>1. UNCHANGED <<ledger, events, walletVars, commandVars, tradeVars>>
    BY <1>3 DEF vars
  <2>2. LedgerTypes'
    BY <2>1, LedgerFrame DEF TypeInv, LedgerTypes
  <2> QED
    BY <2>1, <2>2, SessionFrame, CommandFrame, TradeFrame DEF TypeInv
<1> QED
  BY <1>1, <1>2, <1>3, SelectTypes, TradeActionTypes, QueryTypes, SubmitTypes, PlaceTypes,
     PublishTypes, WalletActionTypes, ConfirmTypes, RefuseTypes, MineTypes, FailTypes,
     PollTypes DEF Next

\* No balance falls below zero and no order is filled beyond its amount, whatever
\* trades, commands and wrong accounts the users come up with; and all else keeps
\* its type, over any interleaving of wallet, page, command line and service.
THEOREM TradingTypeCorrect == Spec => []TypeOK
<1>1. TypeInv /\ [Next]_vars => TypeInv'
  BY StepTypes
<1> QED
  BY <1>1, InitTypes, TypeInvImplies, PTL DEF Spec

\* The fill amount is enough: what it buys of an order that offers it is no less
\* of the base token than was asked for, however the contract rounds.
LEMMA FillAmountSuffices ==
  ASSUME NEW c \in Commands, c.verb = "trade", NEW p \in Nat,
         IF c.order \in Asks THEN p >= FillAmount(c) \/ InMakerToken(c.order, p) >= c.amount
                             ELSE p >= c.amount
  PROVE  BaseOf(c.order, p) >= c.amount
<1> DEFINE o == c.order
           n == c.amount
           A == MakerAmount(o)
           B == TakerAmount(o)
<1>1. o \in Orders /\ n \in Nat
  BY CommandAssumption
<1>2. A \in Nat \ {0} /\ B \in Nat \ {0}
  BY <1>1, AmountTypes
<1>3. CASE o \notin Asks
  BY <1>3 DEF BaseOf
<1>4. CASE o \in Asks /\ InMakerToken(o, p) >= n
  BY <1>4 DEF BaseOf
<1>5. CASE o \in Asks /\ p >= FillAmount(c)
  <2> DEFINE d == (n * B) \div A
  <2>1. FillAmount(c) = d + 1
    BY <1>5 DEF FillAmount
  <2>2. BaseOf(o, p) = (p * A) \div B
    BY <1>5 DEF BaseOf, InMakerToken
  <2>3. n * B \in Nat /\ p * A \in Nat
    BY <1>1, <1>2
  <2>4. d \in Nat /\ n * B < A * d + A
    <3> HIDE DEF A, B, n
    <3> QED
      BY <1>2, <2>3, DivisionRoundsDown
  <2> HIDE DEF d, A, B, n, o
  <2>5. p >= d + 1
    BY <1>5, <2>1 DEF o
  <2>6. p * A >= (d + 1) * A /\ (d + 1) * A = A * d + A
    BY <2>4, <2>5, <1>2
  <2>7. n * B <= p * A
    BY <2>3, <2>4, <2>6, <1>2
  <2>8. n <= (p * A) \div B
    BY <2>3, <2>7, <1>1, <1>2, DivisionBound
  <2>9. (p * A) \div B \in Nat
    BY <2>3, <1>2, DivisionRoundsDown
  <2> QED
    BY <2>2, <2>8, <2>9, <1>1 DEF o, n
<1> QED
  BY <1>3, <1>4, <1>5

\* What RequestCovered says of a step.
LEMMA TradeCovers ==
  ASSUME TypeInv, Execute, cli.cmd.verb = "trade",
         wallet # Maker[cli.cmd.order],
         BaseOf(cli.cmd.order, Volume(ledger, cli.cmd.order)) >= cli.cmd.amount,
         Spendable(ledger, wallet, TakerToken(cli.cmd.order)) >= cli.fill
  PROVE  LET change == ledger'.bal[wallet]["base"] - ledger.bal[wallet]["base"]
         IN  (IF cli.cmd.order \in Asks THEN change ELSE -change) >= cli.cmd.amount
<1> DEFINE c == cli.cmd
           o == c.order
           n == c.amount
           v == Volume(ledger, o)
           s == Spendable(ledger, wallet, TakerToken(o))
           p == Fillable(ledger, o, wallet, cli.fill)
           before == ledger.bal[wallet]["base"]
           after == ledger'.bal[wallet]["base"]
<1>1. /\ c \in Commands /\ cli.fill \in Nat /\ cli.fill = FillAmount(c)
      /\ wallet \in Accounts /\ Sound(ledger)
  BY CommandAssumption DEF Execute, TypeInv, CommandTypes, LedgerTypes
<1>2. o \in Orders /\ n \in Nat
  BY <1>1, CommandAssumption
<1>3. v \in Nat /\ s \in Nat
  BY <1>1, <1>2, VolumeBound, SpendableType, AmountTypes DEF Tokens, Sound
<1>4. ledger' = FillOrder(ledger, o, wallet, cli.fill)
  BY DEF Execute, Executed, TradeTx
<1>5. p \in {cli.fill, v} /\ p \in Nat
  <2>1. p = Least({cli.fill, v, s})
    BY DEF Fillable
  <2> HIDE DEF v, s, p, o
  <2>2. s >= cli.fill
    BY DEF s, o
  <2> QED
    BY <1>1, <1>3, <2>1, <2>2, LeastOfThree
<1>6. BaseOf(o, p) >= n
  <2>1. CASE o \in Asks
    <3>1. p >= FillAmount(c) \/ InMakerToken(o, p) >= n
      <4>1. CASE p = cli.fill
        <5> HIDE DEF p
        <5> QED
          BY <4>1, <1>1
      <4>2. CASE p = v
        <5>1. BaseOf(o, v) = InMakerToken(o, v) /\ BaseOf(o, v) >= n
          BY <2>1 DEF BaseOf
        <5> HIDE DEF p, v
        <5> QED
          BY <4>2, <5>1
      <4> QED
        BY <4>1, <4>2, <1>5
    <3> HIDE DEF p
    <3> QED
      BY <1>1, <1>5, <2>1, <3>1, FillAmountSuffices
  <2>2. CASE o \notin Asks
    <3>1. FillAmount(c) = n /\ BaseOf(o, v) = v /\ v >= n /\ BaseOf(o, p) = p
      BY <2>2 DEF FillAmount, BaseOf
    <3> HIDE DEF p, v
    <3> QED
      BY <3>1, <1>1, <1>2, <1>5
  <2> QED
    BY <2>1, <2>2
<1>7. before \in Nat
  BY <1>1 DEF Sound, Ledgers, Tokens
<1>8. after = IF o \in Asks THEN before + BaseOf(o, p) ELSE before - BaseOf(o, p)
  <2>1. "base" \in Tokens
    BY DEF Tokens
  <2>2. /\ "base" = TakerToken(o) => after = before - p
        /\ "base" = MakerToken(o) => after = before + InMakerToken(o, p)
    BY <1>1, <1>2, <1>4, TakerBalances
  <2>3. (o \in Asks => MakerToken(o) = "base" /\ TakerToken(o) = "quote"
                        /\ BaseOf(o, p) = InMakerToken(o, p))
        /\ (o \notin Asks => TakerToken(o) = "base" /\ BaseOf(o, p) = p)
    BY DEF MakerToken, TakerToken, BaseOf
  <2> HIDE DEF p, before, after, o
  <2>5. CASE o \in Asks
    BY <2>2, <2>3, <2>5
  <2>6. CASE o \notin Asks
    <3>1. BaseOf(o, p) = p /\ TakerToken(o) = "base"
      BY <2>3, <2>6
    <3>2. after = before - p
      BY <2>2, <3>1
    <3> QED
      BY <3>1, <3>2, <2>6
  <2> QED
    BY <2>5, <2>6
<1>9. BaseOf(o, p) \in Nat
  <2>1. p <= v /\ InMakerToken(o, p) \in Nat
    BY <1>1, <1>2, <1>5, FillableBound, VolumeBound
  <2> HIDE DEF p
  <2> QED
    BY <2>1, <1>5 DEF BaseOf
<1> HIDE DEF p, before, after
<1>10. (IF o \in Asks THEN after - before ELSE -(after - before)) = BaseOf(o, p)
  BY <1>7, <1>8, <1>9
<1> QED
  BY <1>6, <1>10 DEF before, after

\* Whoever trades through the command line gets, or gives, no less of the base
\* token than was asked for: the amount computed before the prompt, from an
\* amount of the base token rounded down and one added, is enough for every
\* price, whatever account signs in the end and whatever was filled meanwhile.
THEOREM RequestsCovered == Spec => RequestCovered
<1>1. TypeInv /\ [Next]_vars => TypeInv'
  BY StepTypes
<1> DEFINE Covered ==
      Execute /\ cli.cmd.verb = "trade" =>
         LET o == cli.cmd.order
             change == ledger'.bal[wallet]["base"] - ledger.bal[wallet]["base"]
         IN  /\ wallet # Maker[o]
             /\ BaseOf(o, Volume(ledger, o)) >= cli.cmd.amount
             /\ Spendable(ledger, wallet, TakerToken(o)) >= cli.fill
             => (IF o \in Asks THEN change ELSE -change) >= cli.cmd.amount
<1>2. TypeInv /\ [Next]_vars => [Covered]_<<cli, ledger, wallet>>
  BY TradeCovers
<1>3. Spec => [][Covered]_<<cli, ledger, wallet>>
  <2> HIDE DEF Covered
  <2> QED
    BY <1>1, <1>2, InitTypes, PTL DEF Spec
<1> QED
  BY <1>3 DEF RequestCovered

-----------------------------------------------------------------------------
(***************************************************************************)
(* What the orders that are chosen of a level offer.                       *)
(***************************************************************************)

\* One more order offers its part.
LEMMA PaidNext ==
  ASSUME NEW level \in Levels, NEW s \in SmallestFirst(level)
  PROVE  /\ Paid(level, s, 0) = 0
         /\ \A i \in 0 .. Len(s) : Paid(level, s, i) \in Nat
         /\ \A i \in 1 .. Len(s) : /\ level[s[i]] \in Nat
                                   /\ Paid(level, s, i) = Paid(level, s, i - 1) + level[s[i]]
<1> DEFINE f == [j \in DOMAIN s |-> level[s[j]]]
           k == Len(s)
<1>1. k \in Nat /\ DOMAIN s = 1 .. k /\ \A j \in 1 .. k : s[j] \in DOMAIN level
  BY SmallestFirstType
<1>2. \A j \in 1 .. k : f[j] = level[s[j]] /\ f[j] \in Nat
  BY <1>1, LevelDomain
<1>3. \A i : Paid(level, s, i) = SumFunctionOnSet(f, 1 .. i)
  BY DEF Paid
<1> HIDE DEF f, k
<1>4. Paid(level, s, 0) = 0
  <2>1. 1 .. 0 = {}
    OBVIOUS
  <2> QED
    BY <2>1, <1>3, FS_EmptySet, SumEquation
<1>5. ASSUME NEW i \in 0 .. k
      PROVE  IsFiniteSet(1 .. i) /\ \A j \in 1 .. i : f[j] \in Nat
  <2>1. i \in Int /\ 1 \in Int
    BY <1>1
  <2>2. \A j \in 1 .. i : j \in 1 .. k
    BY <1>1
  <2> QED
    BY <2>1, <2>2, <1>2, FS_Interval
<1>6. \A i \in 0 .. k : Paid(level, s, i) \in Nat
  BY <1>3, <1>5, SumType
<1>7. ASSUME NEW i \in 1 .. k
      PROVE  Paid(level, s, i) = Paid(level, s, i - 1) + level[s[i]]
  <2>1. i \in 0 .. k /\ i - 1 \in 0 .. k /\ i \in 1 .. i /\ (1 .. i) \ {i} = 1 .. (i - 1)
    BY <1>1
  <2>2. SumFunctionOnSet(f, 1 .. i) = f[i] + SumFunctionOnSet(f, (1 .. i) \ {i})
    BY <2>1, <1>5, SumTakesOut
  <2>3. Paid(level, s, i) = level[s[i]] + Paid(level, s, i - 1)
    BY <2>1, <2>2, <1>2, <1>3
  <2>4. level[s[i]] \in Nat /\ Paid(level, s, i - 1) \in Nat
    BY <2>1, <1>2, <1>6
  <2> QED
    BY <2>3, <2>4
<1> QED
  BY <1>2, <1>4, <1>6, <1>7 DEF k

\* More orders offer no less.
LEMMA PaidGrows ==
  ASSUME NEW level \in Levels, NEW s \in SmallestFirst(level),
         NEW i \in 0 .. Len(s), NEW j \in 0 .. Len(s), i <= j
  PROVE  Paid(level, s, i) <= Paid(level, s, j)
<1> DEFINE k == Len(s)
           P(n) == Paid(level, s, n)
           Bad == {n \in 0 .. k : i <= n /\ ~ (P(i) <= P(n))}
<1>1. /\ k \in Nat
      /\ \A n \in 0 .. k : P(n) \in Nat
      /\ \A n \in 1 .. k : level[s[n]] \in Nat /\ P(n) = P(n - 1) + level[s[n]]
  BY SmallestFirstType, PaidNext
<1> HIDE DEF k, P
<1>2. 0 \notin Bad
  <2>1. i <= 0 => i = 0
    BY DEF k
  <2>2. P(0) <= P(0)
    BY <1>1
  <2> QED
    BY <2>1, <2>2
<1>3. ASSUME NEW n \in 1 .. k, n - 1 \notin Bad
      PROVE  n \notin Bad
  <2>1. n \in 0 .. k /\ n - 1 \in 0 .. k /\ i \in 0 .. k
    BY <1>1 DEF k
  <2>2. P(n) \in Nat /\ P(n - 1) \in Nat /\ P(i) \in Nat /\ level[s[n]] \in Nat
        /\ P(n) = P(n - 1) + level[s[n]]
    BY <2>1, <1>1
  <2>3. CASE i <= n - 1
    <3>1. P(i) <= P(n - 1)
      BY <2>1, <2>3, <1>3
    <3>2. P(i) <= P(n)
      BY <3>1, <2>2
    <3> QED
      BY <3>2
  <2>4. CASE i = n
    BY <2>2, <2>4
  <2>5. CASE i > n
    BY <2>1, <2>5
  <2> QED
    BY <2>1, <2>3, <2>4, <2>5
<1>4. Bad = {}
  <2> HIDE DEF Bad
  <2>1. Bad \in SUBSET (0 .. k)
    BY DEF Bad
  <2> QED
    BY <2>1, <1>1, <1>2, <1>3, FirstFailure
<1>5. j \in 0 .. k
  BY DEF k
<1> QED
  BY <1>4, <1>5 DEF P

\* All the orders of a level offer what the level does.
LEMMA PaidAll ==
  ASSUME NEW level \in Levels, NEW s \in SmallestFirst(level)
  PROVE  Paid(level, s, Len(s)) = SumFunction(level)
<1> DEFINE D == DOMAIN level
           k == Len(s)
           P(n) == Paid(level, s, n)
           First(n) == {s[j] : j \in 1 .. n}
           Bad == {n \in 0 .. k : SumFunctionOnSet(level, First(n)) # P(n)}
<1>1. /\ k \in Nat /\ k = Cardinality(D)
      /\ s \in [1 .. k -> D]
      /\ \A i, j \in 1 .. k : s[i] = s[j] => i = j
      /\ IsFiniteSet(D) /\ \A o \in D : level[o] \in Nat
  BY SmallestFirstType, LevelDomain
<1>2. /\ P(0) = 0
      /\ \A n \in 0 .. k : P(n) \in Nat
      /\ \A n \in 1 .. k : P(n) = P(n - 1) + level[s[n]]
  BY PaidNext
<1> HIDE DEF D, k, P
<1>3. First(k) = D
  <2>1. s \in Injection(1 .. k, D)
    BY <1>1 DEF Injection, IsInjective
  <2>2. Cardinality(1 .. k) = k
    BY <1>1, FS_Interval
  <2>3. s \in Surjection(1 .. k, D)
    BY <2>1, <2>2, <1>1, FS_Injection
  <2> QED
    BY <2>3, <1>1 DEF Surjection
<1>4. 0 \notin Bad
  <2>1. First(0) = {}
    OBVIOUS
  <2>2. SumFunctionOnSet(level, {}) = 0
    BY FS_EmptySet, SumEquation
  <2> HIDE DEF First
  <2> QED
    BY <2>1, <2>2, <1>2
<1>5. ASSUME NEW n \in 1 .. k, n - 1 \notin Bad
      PROVE  n \notin Bad
  <2>1. n - 1 \in 0 .. k /\ n \in 1 .. n /\ \A j \in 1 .. n : j \in 1 .. k
    BY <1>1
  <2>2. First(n) \in SUBSET D /\ s[n] \in First(n)
    BY <2>1, <1>1
  <2>3. First(n) \ {s[n]} = First(n - 1)
    <3>1. \A j \in 1 .. n : s[j] = s[n] <=> j = n
      BY <2>1, <1>1
    <3>2. \A j : j \in 1 .. (n - 1) <=> j \in 1 .. n /\ j # n
      BY <1>1
    <3> QED
      BY <3>1, <3>2
  <2>4. IsFiniteSet(First(n)) /\ \A o \in First(n) : level[o] \in Nat
    <3> HIDE DEF First
    <3> QED
      BY <2>2, <1>1, FS_Subset
  <2> HIDE DEF First
  <2>5. SumFunctionOnSet(level, First(n)) =
          level[s[n]] + SumFunctionOnSet(level, First(n) \ {s[n]})
    BY <2>2, <2>4, SumTakesOut
  <2>6. SumFunctionOnSet(level, First(n)) = level[s[n]] + P(n - 1)
    BY <2>1, <2>3, <2>5, <1>5
  <2>7. level[s[n]] \in Nat /\ P(n - 1) \in Nat /\ P(n) = P(n - 1) + level[s[n]]
    BY <2>1, <2>2, <2>4, <1>2
  <2>8. SumFunctionOnSet(level, First(n)) = P(n)
    BY <2>6, <2>7
  <2> QED
    BY <2>8
<1>6. Bad = {}
  <2>1. Bad \in SUBSET (0 .. k)
    OBVIOUS
  <2> HIDE DEF Bad
  <2> QED
    BY <2>1, <1>1, <1>4, <1>5, FirstFailure
<1>7. k \in 0 .. k
  BY <1>1
<1>8. SumFunctionOnSet(level, First(k)) = P(k)
  BY <1>6, <1>7
<1> QED
  BY <1>3, <1>8 DEF SumFunction, D, P, k

\* A set that has with a number all before it is an interval.
LEMMA PrefixInterval ==
  ASSUME NEW m \in Nat, NEW I \in SUBSET (1 .. m),
         \A i \in I : \A j \in 1 .. m : j <= i => j \in I
  PROVE  /\ Cardinality(I) \in 0 .. m
         /\ I = 1 .. Cardinality(I)
<1> DEFINE T == {j \in 0 .. m : j + 1 \notin I}
<1>1. m \in T
  OBVIOUS
<1>2. PICK k \in T : \A j \in T : k <= j
  <2>1. T \subseteq Nat /\ T # {}
    BY <1>1
  <2> HIDE DEF T
  <2> QED
    BY <2>1, SmallestNumber
<1>3. k \in 0 .. m /\ k + 1 \notin I
  BY <1>2
<1>4. ASSUME NEW i \in 1 .. k
      PROVE  i \in I
  <2>1. i - 1 \in 0 .. m /\ ~ (k <= i - 1) /\ (i - 1) + 1 = i
    BY <1>3
  <2> QED
    BY <2>1, <1>2
<1>5. ASSUME NEW i \in I
      PROVE  i \in 1 .. k
  <2>1. CASE i <= k
    BY <1>3, <2>1
  <2>2. CASE i > k
    <3>1. k + 1 \in 1 .. m /\ k + 1 <= i
      BY <1>3, <2>2
    <3> QED
      BY <3>1, <1>3
  <2> QED
    BY <1>3, <2>1, <2>2
<1>6. I = 1 .. k
  BY <1>4, <1>5
<1>7. Cardinality(I) = k
  BY <1>3, <1>6, FS_Interval
<1> QED
  BY <1>3, <1>6, <1>7

\* The orders that are chosen are the first of the level, and either all of them,
\* or as many as offer the amount.
LEMMA ChosenSuffices ==
  ASSUME NEW level \in Levels, NEW s \in SmallestFirst(level), NEW n \in Nat
  PROVE  \E k \in 0 .. Len(s) :
           /\ Chosen(level, s, n) = SubSeq(s, 1, k)
           /\ k = Len(s) \/ Paid(level, s, k) >= n
<1> DEFINE m == Len(s)
           I == {i \in DOMAIN s : Paid(level, s, i - 1) < n}
           k == Cardinality(I)
<1>1. m \in Nat /\ DOMAIN s = 1 .. m
  BY SmallestFirstType
<1> HIDE DEF m
<1>2. ASSUME NEW i \in I, NEW j \in 1 .. m, j <= i
      PROVE  j \in I
  <2>1. i - 1 \in 0 .. m /\ j - 1 \in 0 .. m /\ j - 1 <= i - 1
    <3>1. i \in 1 .. m
      BY <1>1
    <3> QED
      BY <3>1, <1>1, <1>2
  <2>2. Paid(level, s, j - 1) <= Paid(level, s, i - 1)
    BY <2>1, PaidGrows DEF m
  <2>3. Paid(level, s, j - 1) \in Nat /\ Paid(level, s, i - 1) \in Nat
    BY <2>1, PaidNext DEF m
  <2>4. Paid(level, s, j - 1) < n
    BY <2>2, <2>3
  <2> QED
    BY <2>4, <1>1
<1>3. k \in 0 .. m /\ I = 1 .. k
  <2>1. I \in SUBSET (1 .. m)
    BY <1>1
  <2> HIDE DEF I
  <2> QED
    BY <2>1, <1>1, <1>2, PrefixInterval
<1>4. Chosen(level, s, n) = SubSeq(s, 1, k)
  BY DEF Chosen
<1>5. ASSUME k < m
      PROVE  Paid(level, s, k) >= n
  <2>1. k + 1 \in 1 .. m /\ k + 1 \notin I
    <3> HIDE DEF k, I
    <3> QED
      BY <1>1, <1>3, <1>5
  <2>2. (k + 1) - 1 = k
    BY <1>3
  <2>3. ~ (Paid(level, s, k) < n)
    <3> HIDE DEF k
    <3> QED
      BY <2>1, <2>2, <1>1
  <2>4. Paid(level, s, k) \in Nat
    BY <1>3, PaidNext DEF m
  <2>5. Paid(level, s, k) >= n
    BY <2>3, <2>4
  <2> QED
    BY <2>5
<1> HIDE DEF k
<1>6. k = m \/ Paid(level, s, k) >= n
  BY <1>1, <1>3, <1>5
<1> QED
  BY <1>3, <1>4, <1>6 DEF m

-----------------------------------------------------------------------------
(***************************************************************************)
(* What a trade pays.                                                      *)
(***************************************************************************)

\* The orders of the level are those of different makers, none of them an
\* account of the plugin.
OthersOrders ==
    \A o \in LevelOrders :
        /\ Maker[o] \notin PluginAccounts
        /\ \A q \in LevelOrders : q # o => Maker[q] # Maker[o]

\* A trade pays as much as it has used up of the amount, which is not all of it.
LEMMA ChainPaysLeft ==
  ASSUME OthersOrders, NEW l, Sound(l), NEW orders \in Seq(LevelOrders),
         NEW a \in PluginAccounts, NEW n \in Nat,
         NEW c, FillChain(c, l, orders, a, n),
         NEW t \in Tokens, \A o \in LevelOrders : TakerToken(o) = t
  PROVE  \A i \in 0 .. Len(orders) :
           c[i].ledger.bal[a][t] = l.bal[a][t] - (n - c[i].left)
<1> DEFINE k == Len(orders)
           paid(i) == l.bal[a][t] - (n - c[i].left)
           Bad == {i \in 0 .. k : c[i].ledger.bal[a][t] # paid(i)}
<1>1. k \in Nat /\ a \in Accounts /\ l.bal[a][t] \in Nat
  BY SessionAssumption DEF Sound, Ledgers
<1>2. \A i \in 0 .. k : Sound(c[i].ledger) /\ c[i].left \in Nat
  <2>1. orders \in Seq(Orders)
    BY TradingAssumption
  <2> QED
    BY <2>1, <1>1, ChainTypes
<1>3. 0 \notin Bad
  <2>1. c[0].ledger = l /\ c[0].left = n
    BY FillLink
  <2> QED
    BY <2>1, <1>1
<1>4. ASSUME NEW i \in 1 .. k, i - 1 \notin Bad
      PROVE  i \notin Bad
  <2> DEFINE o == orders[i]
             f == c[i - 1].ledger
             p == Fillable(f, o, a, c[i - 1].left)
  <2>1. i \in 0 .. k /\ i - 1 \in 0 .. k
    BY <1>1
  <2>2. o \in LevelOrders /\ o \in Orders /\ Maker[o] # a /\ TakerToken(o) = t
    BY TradingAssumption DEF OthersOrders
  <2>3. c[i].ledger = FillOrder(f, o, a, c[i - 1].left) /\ c[i].left = c[i - 1].left - p
    BY FillLink
  <2>4. Sound(f) /\ c[i - 1].left \in Nat /\ c[i].left \in Nat
    BY <2>1, <1>2
  <2>5. c[i].ledger.bal[a][t] = f.bal[a][t] - p
    <3> HIDE DEF o, f
    <3> QED
      BY <2>2, <2>3, <2>4, <1>1, TakerBalances
  <2>6. f.bal[a][t] = paid(i - 1)
    BY <2>1, <1>4
  <2>7. p \in Nat
    BY <1>1, <2>2, <2>4, FillableBound
  <2> HIDE DEF p, f
  <2>8. c[i].ledger.bal[a][t] = paid(i)
    BY <2>3, <2>4, <2>5, <2>6, <2>7, <1>1
  <2> QED
    BY <2>8
<1>5. Bad = {}
  <2>1. Bad \in SUBSET (0 .. k)
    OBVIOUS
  <2> HIDE DEF Bad, k
  <2> QED
    BY <2>1, <1>1, <1>3, <1>4, FirstFailure
<1> QED
  BY <1>5

\* The volume of an order of which nothing is filled and whose maker's balance
\* does not change stays.
LEMMA VolumeStays ==
  ASSUME NEW l, NEW k, NEW o, k.filled[o] = l.filled[o], k.allowed = l.allowed,
         k.bal[Maker[o]][MakerToken(o)] = l.bal[Maker[o]][MakerToken(o)]
  PROVE  Volume(k, o) = Volume(l, o)
<1>1. Spendable(k, Maker[o], MakerToken(o)) = Spendable(l, Maker[o], MakerToken(o))
  BY DEF Spendable
<1> QED
  BY <1>1 DEF Volume

\* One more order after those that offer v.
LeastOf(a, b, c) == Least({a, b, c})

LEMMA LeastOfType ==
  \A a, b, c \in Nat :
     LeastOf(a, b, c) = IF a <= b THEN IF a <= c THEN a ELSE c ELSE IF b <= c THEN b ELSE c
<1> TAKE a, b, c \in Nat
<1> QED
  BY LeastOfThree DEF LeastOf

LEMMA LeastNext ==
  ASSUME NEW n \in Nat, NEW v \in Nat, NEW m \in Nat, NEW w \in Nat,
         NEW p, p = LeastOf(n, v, m)
  PROVE  /\ p \in Nat /\ p <= n /\ p <= m
         /\ p + LeastOf(n - p, w, m - p) = LeastOf(n, v + w, m)
<1>1. p = IF n <= v THEN IF n <= m THEN n ELSE m ELSE IF v <= m THEN v ELSE m
  BY LeastOfType
<1>2. p \in Nat /\ p <= n /\ p <= m /\ n - p \in Nat /\ m - p \in Nat /\ v + w \in Nat
  BY <1>1
<1> DEFINE r == n - p
           z == m - p
           x == v + w
           q == LeastOf(r, w, z)
           e == LeastOf(n, x, m)
<1>3. q = IF r <= w THEN IF r <= z THEN r ELSE z ELSE IF w <= z THEN w ELSE z
  BY <1>2, LeastOfType
<1>4. e = IF n <= x THEN IF n <= m THEN n ELSE m ELSE IF x <= m THEN x ELSE m
  BY <1>2, LeastOfType
<1> HIDE DEF e, q
<1>5. p + q = e
  BY <1>1, <1>2, <1>3, <1>4
<1> QED
  BY <1>2, <1>5 DEF e, q

\* The first k orders of a level, which still offer what they did, are paid all
\* that they offer, up to the amount and to what the account can pay.
LEMMA ChainPaysAll ==
  ASSUME OthersOrders, NEW l, Sound(l), NEW level \in Levels,
         NEW s \in SmallestFirst(level), NEW k \in 0 .. Len(s),
         NEW a \in PluginAccounts, NEW n \in Nat,
         NEW c, FillChain(c, l, SubSeq(s, 1, k), a, n),
         NEW t \in Tokens, \A o \in LevelOrders : TakerToken(o) = t,
         \A o \in DOMAIN level : Volume(l, o) = level[o]
  PROVE  n - c[k].left = Least({n, Paid(level, s, k), Spendable(l, a, t)})
<1> DEFINE orders == SubSeq(s, 1, k)
           m == Spendable(l, a, t)
           P(i) == Paid(level, s, i)
           used(i) == Least({n, P(i), m})
           Untouched(i, o) ==
             /\ c[i].ledger.filled[o] = l.filled[o]
             /\ c[i].ledger.bal[Maker[o]][MakerToken(o)] = l.bal[Maker[o]][MakerToken(o)]
           Good(i) ==
             /\ c[i].left = n - used(i)
             /\ Spendable(c[i].ledger, a, t) = m - used(i)
             /\ c[i].ledger.allowed = l.allowed
             /\ \A j \in 1 .. k : i < j => Untouched(i, s[j])
           Bad == {i \in 0 .. k : ~ Good(i)}
<1>1. /\ k \in Nat /\ s \in Seq(LevelOrders) /\ s \in Seq(DOMAIN level)
      /\ orders \in Seq(LevelOrders) /\ Len(orders) = k
      /\ \A i \in 1 .. k : orders[i] = s[i] /\ s[i] \in LevelOrders /\ s[i] \in DOMAIN level
      /\ \A i, j \in 1 .. k : s[i] = s[j] => i = j
  <2>1. /\ s \in Seq(LevelOrders) /\ s \in Seq(DOMAIN level) /\ Len(s) \in Nat
        /\ \A i, j \in 1 .. Len(s) : s[i] = s[j] => i = j
    BY SmallestFirstType
  <2>2. k \in Nat /\ \A i \in 1 .. k : i \in 1 .. Len(s)
    BY <2>1
  <2>3. orders \in Seq(LevelOrders) /\ Len(orders) = k /\ \A i \in 1 .. k : orders[i] = s[i]
    BY <2>1, <2>2
  <2>4. \A i \in 1 .. k : s[i] \in LevelOrders /\ s[i] \in DOMAIN level
    BY <2>1, <2>2
  <2> QED
    BY <2>1, <2>2, <2>3, <2>4
<1>2. a \in Accounts /\ m \in Nat /\ l.allowed \in [Accounts -> SUBSET {"base", "quote"}]
  BY SessionAssumption, SpendableType DEF Sound, Ledgers
<1>3. /\ P(0) = 0
      /\ \A i \in 0 .. k : P(i) \in Nat
      /\ \A i \in 1 .. k : level[s[i]] \in Nat /\ P(i) = P(i - 1) + level[s[i]]
  <2>1. \A i : (i \in 0 .. k => i \in 0 .. Len(s)) /\ (i \in 1 .. k => i \in 1 .. Len(s))
    BY <1>1
  <2> QED
    BY <2>1, PaidNext
<1>4. \A i \in 0 .. k : Sound(c[i].ledger) /\ c[i].left \in Nat
  <2>1. orders \in Seq(Orders)
    BY <1>1, TradingAssumption
  <2> HIDE DEF orders
  <2> QED
    BY <2>1, <1>1, <1>2, ChainTypes DEF orders
<1>5. /\ c[0].ledger = l /\ c[0].left = n
      /\ \A i \in 1 .. k :
           /\ c[i].ledger = FillOrder(c[i - 1].ledger, s[i], a, c[i - 1].left)
           /\ c[i].left = c[i - 1].left - Fillable(c[i - 1].ledger, s[i], a, c[i - 1].left)
  <2>1. FillChain(c, l, orders, a, n)
    OBVIOUS
  <2> HIDE DEF orders
  <2>2. /\ c[0].ledger = l /\ c[0].left = n
        /\ \A i \in 1 .. Len(orders) :
             /\ c[i].ledger = FillOrder(c[i - 1].ledger, orders[i], a, c[i - 1].left)
             /\ c[i].left = c[i - 1].left
                              - Fillable(c[i - 1].ledger, orders[i], a, c[i - 1].left)
    BY <2>1, FillLink
  <2> QED
    BY <1>1, <2>2
<1>6. used(0) = 0
  <2> HIDE DEF m, P
  <2> QED
    BY <1>2, <1>3, LeastOfThree
<1>7. 0 \notin Bad
  <2>1. Good(0)
    <3> HIDE DEF used
    <3> QED
      BY <1>2, <1>5, <1>6
  <2> QED
    BY <2>1
<1>8. ASSUME NEW i \in 1 .. k, Good(i - 1)
      PROVE  Good(i)
  <2> DEFINE o == s[i]
             f == c[i - 1].ledger
             r == c[i - 1].left
             w == level[o]
             u == used(i - 1)
             p == Fillable(f, o, a, r)
  <2>1. i - 1 \in 0 .. k /\ i \in 0 .. k
    BY <1>1
  <2>2. o \in LevelOrders /\ o \in Orders /\ o \in DOMAIN level /\ Maker[o] # a
        /\ Maker[o] \in Accounts /\ TakerToken(o) = t
    <3>1. o \in LevelOrders /\ o \in DOMAIN level
      BY <1>1
    <3> HIDE DEF o
    <3> QED
      BY <3>1, TradingAssumption, ExchangeAssumption DEF OthersOrders
  <2>3. r = n - u /\ Spendable(f, a, t) = m - u /\ f.allowed = l.allowed
        /\ \A j \in 1 .. k : i - 1 < j => Untouched(i - 1, s[j])
    BY <1>8
  <2>4. Sound(f) /\ r \in Nat
    BY <2>1, <1>4
  <2>5. Volume(f, o) = w
    <3>1. i - 1 < i
      BY <1>1
    <3>2. Untouched(i - 1, o)
      BY <3>1, <2>3
    <3>3. Volume(f, o) = Volume(l, o)
      <4> HIDE DEF o
      <4> QED
        BY <3>2, <2>3, VolumeStays
    <3> QED
      BY <3>3, <2>2
  <2>6. p = Least({n - u, w, m - u})
    <3>1. p = Least({r, Volume(f, o), Spendable(f, a, TakerToken(o))})
      BY DEF Fillable
    <3> HIDE DEF u, w, o, f, r, m, used
    <3> QED
      BY <3>1, <2>2, <2>3, <2>5
  <2>7. P(i - 1) \in Nat /\ w \in Nat /\ P(i) = P(i - 1) + w
    BY <2>1, <1>3
  <2>8. u \in Nat /\ u <= n /\ u <= m /\ u + p = used(i)
    <3> DEFINE v == P(i - 1)
    <3>1. used(i) = LeastOf(n, v + w, m)
      BY <2>7 DEF LeastOf
    <3>2. v \in Nat /\ w \in Nat /\ m \in Nat
      BY <2>7, <1>2
    <3>3. u = LeastOf(n, v, m) /\ p = LeastOf(n - u, w, m - u)
      BY <2>6 DEF used, v, LeastOf
    <3> HIDE DEF w, m, P, p, v, used, u
    <3>4. /\ u \in Nat /\ u <= n /\ u <= m
          /\ u + LeastOf(n - u, w, m - u) = LeastOf(n, v + w, m)
      BY <3>2, <3>3, LeastNext
    <3> QED
      BY <3>1, <3>3, <3>4
  <2>9. p \in Nat /\ p <= Spendable(f, a, TakerToken(o))
    BY <2>2, <2>4, <1>2, FillableBound
  <2>10. c[i].ledger = FillOrder(f, o, a, r) /\ c[i].left = r - p
    BY <1>5
  <2>11. c[i].ledger.allowed = f.allowed /\ c[i].ledger.filled = [f.filled EXCEPT ![o] = @ + p]
    <3> HIDE DEF f, o, r
    <3> QED
      BY <2>2, <2>4, <2>10, FillRest DEF p
  <2>12. c[i].left = n - used(i)
    <3> HIDE DEF r, u, p, used
    <3> QED
      BY <2>3, <2>8, <2>9, <2>10
  <2>13. Spendable(c[i].ledger, a, t) = m - used(i)
    <3>1. c[i].ledger.bal[a][t] = f.bal[a][t] - p
      <4> HIDE DEF f, o, r
      <4> QED
        BY <2>2, <2>4, <2>10, <1>2, TakerBalances DEF p
    <3>2. CASE t \in l.allowed[a]
      <4>1. Spendable(f, a, t) = f.bal[a][t] /\ Spendable(c[i].ledger, a, t) = f.bal[a][t] - p
        BY <3>1, <3>2, <2>3, <2>11 DEF Spendable
      <4> HIDE DEF f, p, u, m, used
      <4> QED
        BY <4>1, <2>3, <2>8, <2>9, <1>2
    <3>3. CASE t \notin l.allowed[a]
      <4>1. Spendable(f, a, t) = 0 /\ Spendable(c[i].ledger, a, t) = 0
        BY <3>3, <2>3, <2>11 DEF Spendable
      <4> HIDE DEF f, p, u, m, used, o
      <4> QED
        BY <4>1, <2>2, <2>3, <2>8, <2>9, <1>2
    <3> QED
      BY <3>2, <3>3
  <2>14. ASSUME NEW j \in 1 .. k, i < j
         PROVE  Untouched(i, s[j])
    <3> DEFINE q == s[j]
    <3>1. i - 1 < j /\ i # j
      BY <2>14, <1>1
    <3>2. Untouched(i - 1, q)
      BY <3>1, <2>3
    <3>3. q # o /\ q \in LevelOrders /\ q \in Orders
      BY <3>1, <1>1, TradingAssumption
    <3>4. Maker[q] # a /\ Maker[q] # Maker[o] /\ Maker[q] \in Accounts
          /\ MakerToken(q) \in Tokens
      BY <2>2, <3>3, ExchangeAssumption, AmountTypes DEF OthersOrders, Tokens
    <3>5. c[i].ledger.bal[Maker[q]][MakerToken(q)] = f.bal[Maker[q]][MakerToken(q)]
      <4> HIDE DEF f, o, r, q
      <4> QED
        BY <2>2, <2>4, <2>10, <1>2, <3>4, OtherBalances
    <3>6. c[i].ledger.filled[q] = f.filled[q]
      <4>1. f.filled \in [Orders -> Nat]
        BY <2>4 DEF Sound, Ledgers
      <4> HIDE DEF f, o, q, p
      <4> QED
        BY <4>1, <2>11, <3>3
    <3> QED
      BY <3>2, <3>5, <3>6
  <2> HIDE DEF Untouched, used, m
  <2> QED
    BY <2>3, <2>11, <2>12, <2>13, <2>14
<1>9. Bad = {}
  <2>1. \A i \in 1 .. k : i - 1 \in 0 .. k
    BY <1>1
  <2>2. Bad \in SUBSET (0 .. k)
    OBVIOUS
  <2> HIDE DEF Good
  <2>3. \A i \in 1 .. k : i - 1 \notin Bad => i \notin Bad
    BY <1>8, <2>1
  <2> HIDE DEF Bad
  <2> QED
    BY <2>2, <2>3, <1>1, <1>7, FirstFailure
<1>10. Good(k)
  <2>1. k \in 0 .. k
    BY <1>1
  <2> HIDE DEF Good
  <2> QED
    BY <2>1, <1>9
<1>11. used(k) \in Nat /\ used(k) <= n
  <2>1. P(k) \in Nat
    BY <1>1, <1>3
  <2> HIDE DEF m, P
  <2> QED
    BY <2>1, <1>2, LeastOfThree
<1>12. n - c[k].left = used(k)
  <2> HIDE DEF used
  <2> QED
    BY <1>10, <1>11
<1> QED
  BY <1>12

\* The orders that are chosen of a level that is as it was pay all of the amount,
\* up to what the level offers and to what the account can pay.
LEMMA ChosenPay ==
  ASSUME OthersOrders, NEW l, Sound(l), NEW level \in Levels,
         NEW s \in SmallestFirst(level), NEW a \in PluginAccounts, NEW n \in Nat,
         NEW c, FillChain(c, l, Chosen(level, s, n), a, n),
         NEW t \in Tokens, \A o \in LevelOrders : TakerToken(o) = t,
         \A o \in DOMAIN level : Volume(l, o) = level[o]
  PROVE  n - c[Len(Chosen(level, s, n))].left =
           Least({n, SumFunction(level), Spendable(l, a, t)})
<1> DEFINE m == Spendable(l, a, t)
           all == SumFunction(level)
<1>1. PICK k \in 0 .. Len(s) :
        /\ Chosen(level, s, n) = SubSeq(s, 1, k)
        /\ k = Len(s) \/ Paid(level, s, k) >= n
  BY ChosenSuffices
<1>2. Len(s) \in Nat /\ Len(SubSeq(s, 1, k)) = k /\ k <= Len(s)
  BY SmallestFirstType
<1> DEFINE v == Paid(level, s, k)
<1>3. n - c[k].left = Least({n, v, m})
  BY <1>1, ChainPaysAll
<1>4. v \in Nat /\ all \in Nat /\ v <= all /\ (k = Len(s) => v = all)
  <2>1. Len(s) \in 0 .. Len(s)
    BY <1>2
  <2> QED
    BY <2>1, <1>2, PaidNext, PaidGrows, PaidAll
<1>5. m \in Nat
  BY SessionAssumption, SpendableType DEF Sound
<1>6. Least({n, v, m}) = Least({n, all, m})
  <2>1. v = all \/ v >= n
    BY <1>1, <1>4
  <2> HIDE DEF v, all, m
  <2>2. Least({n, v, m}) = IF n <= v THEN IF n <= m THEN n ELSE m ELSE IF v <= m THEN v ELSE m
    BY <1>4, <1>5, LeastOfThree
  <2>3. Least({n, all, m}) =
          IF n <= all THEN IF n <= m THEN n ELSE m ELSE IF all <= m THEN all ELSE m
    BY <1>4, <1>5, LeastOfThree
  <2> QED
    BY <2>1, <2>2, <2>3, <1>4, <1>5
<1> QED
  BY <1>1, <1>2, <1>3, <1>6

-----------------------------------------------------------------------------
(***************************************************************************)
(* What is known of the orders of a trade while it waits.                  *)
(***************************************************************************)

\* A new order of the level that the command line is about to place is not
\* recorded yet.
PendingIsNew ==
    cli # Idle /\ cli.cmd.verb \in {"buy", "sell"} /\ cli.cmd.order \in LevelOrders
      => cli.cmd.order \notin stored

\* The orders of a trade are recorded, and unless one of its level has been
\* delisted, they are those that were chosen.
Suffices(t, books, records) ==
    t.kind = "trade" =>
      /\ DOMAIN t.level # {} /\ DOMAIN t.level \subseteq records
      /\ \E s \in SmallestFirst(t.level) :
           t.st = "query" \/ DOMAIN t.level \subseteq books
             => t.chosen = Chosen(t.level, s, t.amount)

TradeInv ==
    /\ PendingIsNew
    /\ DOMAIN panel \subseteq stored
    /\ \A x \in Ops : Suffices(op[x], listed, stored)

\* A command changes the wallet, what is listed and what is recorded by these steps.
LEMMA BookSteps ==
  ASSUME TypeInv, [Next]_vars
  PROVE  \/ UNCHANGED <<cli, listed, stored>>
         \/ listed' \subseteq listed /\ UNCHANGED <<cli, stored>>
         \/ cli' = Idle /\ UNCHANGED <<listed, stored>>
         \/ \E k \in Commands : Prepare(k)
         \/ Execute
         \/ \E o \in OwnOrders : UNCHANGED cli
              /\ listed' \in {listed, listed \cup {o}} /\ stored' \in {stored, stored \cup {o}}
<1>1. CASE Command
  BY <1>1 DEF Command, Delist, ImportWallet, Abandon
<1>2. CASE UNCHANGED commandVars
  BY <1>2 DEF commandVars
<1>3. ASSUME NEW x \in Ops, Place(x)
      PROVE  \E o \in OwnOrders : UNCHANGED cli
               /\ listed' \in {listed, listed \cup {o}} /\ stored' \in {stored, stored \cup {o}}
  <2>1. op[x].what \in OwnOrders
    BY <1>3 DEF Place, TypeInv, TradeTypes, OpIsKind
  <2>2. UNCHANGED cli /\ PlaceOrder(op[x].what, op[x].signer)
    BY <1>3 DEF Place
  <2> QED
    BY <2>1, <2>2 DEF PlaceOrder, Onboard
<1>4. Command \/ UNCHANGED commandVars \/ \E x \in Ops : Place(x)
  BY DEF Next, vars, SelectOrder, DeselectOrder, Trade, QueryOrderBatch, SubmitOrder, Begin,
     Publish, WalletAction, CancelMine, Cancel, Wrap, Unwrap, Approve, Revoke, SignOrder,
     SendTransaction, Confirm, RefuseOrder, RefuseTransaction, Withdraw, Mine,
     TransactionFails, PollOrder
<1> QED
  BY <1>1, <1>2, <1>3, <1>4

\* An order of the level that was once recorded is not listed again.
LEMMA BookShrinks ==
  ASSUME OthersOrders, TypeInv, PendingIsNew, [Next]_vars
  PROVE  /\ stored \subseteq stored'
         /\ \A o \in LevelOrders : o \in stored /\ o \in listed' => o \in listed
         /\ PendingIsNew'
<1>1. CASE \/ UNCHANGED <<cli, listed, stored>>
           \/ listed' \subseteq listed /\ UNCHANGED <<cli, stored>>
  BY <1>1 DEF PendingIsNew, Idle
<1>2. CASE cli' = Idle /\ UNCHANGED <<listed, stored>>
  BY <1>2 DEF PendingIsNew, Idle
<1>3. ASSUME NEW k \in Commands, Prepare(k)
      PROVE  UNCHANGED <<listed, stored>> /\ PendingIsNew'
  <2>1. cli'.cmd = k /\ UNCHANGED <<listed, stored>> /\ Checks(k)
    BY <1>3 DEF Prepare
  <2>2. k.verb \in {"buy", "sell"} => k.order \notin stored
    BY <2>1 DEF Checks, CanBuy, CanSell, New, Recorded
  <2> QED
    BY <2>1, <2>2 DEF PendingIsNew
<1>4. CASE Execute
  <2>1. cli # Idle /\ cli' = Idle
        /\ IF cli.cmd.verb \in {"buy", "sell"}
             THEN PlaceOrder(cli.cmd.order, wallet) ELSE UNCHANGED <<listed, stored>>
    BY <1>4 DEF Execute, BuyOrSell
  <2>2. PendingIsNew'
    BY <2>1 DEF PendingIsNew, Idle
  <2>3. CASE cli.cmd.verb \notin {"buy", "sell"}
    BY <2>1, <2>2, <2>3
  <2>4. CASE cli.cmd.verb \in {"buy", "sell"}
    <3>1. listed' \in {listed, listed \cup {cli.cmd.order}}
          /\ stored' \in {stored, stored \cup {cli.cmd.order}}
      BY <2>1, <2>4 DEF PlaceOrder, Onboard
    <3>2. cli.cmd.order \in LevelOrders => cli.cmd.order \notin stored
      BY <2>1, <2>4 DEF PendingIsNew
    <3> QED
      BY <2>2, <3>1, <3>2
  <2> QED
    BY <2>3, <2>4
<1>5. ASSUME NEW o \in OwnOrders, UNCHANGED cli, listed' \in {listed, listed \cup {o}},
             stored' \in {stored, stored \cup {o}}
      PROVE  /\ stored \subseteq stored'
             /\ \A q \in LevelOrders : q \in stored /\ q \in listed' => q \in listed
             /\ PendingIsNew'
  <2>1. o \notin LevelOrders
    BY TradingAssumption DEF OthersOrders
  <2> QED
    BY <1>5, <2>1 DEF PendingIsNew, Idle
<1>6. \/ UNCHANGED <<cli, listed, stored>>
      \/ listed' \subseteq listed /\ UNCHANGED <<cli, stored>>
      \/ cli' = Idle /\ UNCHANGED <<listed, stored>>
      \/ \E k \in Commands : Prepare(k)
      \/ Execute
      \/ \E o \in OwnOrders : UNCHANGED cli
           /\ listed' \in {listed, listed \cup {o}} /\ stored' \in {stored, stored \cup {o}}
  BY BookSteps
<1> QED
  BY <1>1, <1>2, <1>3, <1>4, <1>5, <1>6

\* What may become of an operation in one step.
LEMMA OpSteps ==
  ASSUME TypeInv, [Next]_vars, NEW y \in Ops
  PROVE  \/ op'[y] = op[y]
         \/ op'[y].kind # "trade"
         \/ /\ panel # <<>>
            /\ \E s \in SmallestFirst(panel), n \in FormAmounts(panel) :
                 op'[y] = AskForOrders(panel, s, PayAmount(panel, n))
         \/ /\ op[y].st = "query" /\ UNCHANGED listed
            /\ op'[y] = [op[y] EXCEPT !.st = "signing", !.chosen = Found(op[y].chosen)]
         \/ /\ op[y].st = "signing"
            /\ \E a, st : st # "query" /\ op'[y] = [op[y] EXCEPT !.signer = a, !.st = st]
<1> DEFINE Goal ==
      \/ op'[y] = op[y]
      \/ op'[y].kind # "trade"
      \/ /\ panel # <<>>
         /\ \E s \in SmallestFirst(panel), n \in FormAmounts(panel) :
              op'[y] = AskForOrders(panel, s, PayAmount(panel, n))
      \/ /\ op[y].st = "query" /\ UNCHANGED listed
         /\ op'[y] = [op[y] EXCEPT !.st = "signing", !.chosen = Found(op[y].chosen)]
      \/ /\ op[y].st = "signing"
         /\ \E a, st : st # "query" /\ op'[y] = [op[y] EXCEPT !.signer = a, !.st = st]
<1>1. op \in [Ops -> OpTypes] /\ \A x \in Ops : OpIsKind(op[x])
  BY DEF TypeInv, TradeTypes
<1>2. NoOp.kind # "trade"
  BY DEF NoOp
<1>3. ASSUME NEW x \in Ops, Trade(x)
      PROVE  Goal
  <2>1. panel # <<>>
    BY <1>3 DEF Trade
  <2>2. PICK n \in FormAmounts(panel), s \in SmallestFirst(panel) :
          op' = [z \in Ops |->
                  CASE z = x -> AskForOrders(panel, s, PayAmount(panel, n))
                    [] z # x /\ op[z].st = "query" -> NoOp
                    [] OTHER -> op[z]]
    BY <1>3 DEF Trade
  <2> DEFINE ask == AskForOrders(panel, s, PayAmount(panel, n))
  <2>3. op'[y] \in {NoOp, op[y], ask}
    <3> HIDE DEF ask
    <3> QED
      BY <2>2 DEF ask
  <2> QED
    BY <2>1, <2>3, <1>2
<1>4. ASSUME NEW x \in Ops, QueryOrderBatch(x)
      PROVE  Goal
  <2>1. op[x].st = "query" /\ UNCHANGED <<commandVars>>
        /\ op' = [op EXCEPT ![x].st = "signing", ![x].chosen = Found(@)]
    BY <1>4 DEF QueryOrderBatch
  <2>2. op'[x] = [op[x] EXCEPT !.st = "signing", !.chosen = Found(op[x].chosen)]
    BY <2>1, <1>1 DEF OpTypes
  <2>3. y # x => op'[y] = op[y]
    BY <2>1, <1>1
  <2> QED
    BY <2>1, <2>2, <2>3 DEF commandVars
<1>5. ASSUME NEW x \in Ops, NEW new, new.kind # "trade", op' = [op EXCEPT ![x] = new]
      PROVE  Goal
  BY <1>1, <1>5
<1>6. ASSUME NEW x \in Ops, NEW kind, kind # "trade", NEW what,
             Begin(x, NewOp(kind, "signing", what))
      PROVE  Goal
  <2>1. NewOp(kind, "signing", what).kind # "trade"
    BY <1>6 DEF NewOp, NoOp
  <2>2. op' = [op EXCEPT ![x] = NewOp(kind, "signing", what)]
    BY <1>6 DEF Begin
  <2> QED
    BY <2>1, <2>2, <1>5
<1>7. ASSUME NEW x \in Ops, WalletAction(x) \/ \E o \in OwnOrders : SubmitOrder(x, o)
      PROVE  Goal
  BY <1>6, <1>7 DEF WalletAction, CancelMine, Cancel, Wrap, Unwrap, Approve, Revoke, SubmitOrder
<1>8. ASSUME NEW x \in Ops, SignOrder(x) \/ SendTransaction(x)
      PROVE  Goal
  <2>1. PICK st \in {"placing", "sent"} : Confirm(x, st)
    BY <1>8 DEF SignOrder, SendTransaction
  <2>2. op[x].st = "signing" /\ op' = [op EXCEPT ![x].signer = plugin.acct, ![x].st = st]
    BY <2>1 DEF Confirm
  <2>3. op'[x] = [op[x] EXCEPT !.signer = plugin.acct, !.st = st]
    BY <2>2, <1>1 DEF OpTypes
  <2>4. y # x => op'[y] = op[y]
    BY <2>2, <1>1
  <2>5. CASE y = x
    <3>1. st # "query" /\ op[y].st = "signing"
          /\ op'[y] = [op[y] EXCEPT !.signer = plugin.acct, !.st = st]
      BY <2>2, <2>3, <2>5
    <3>2. \E b, z : z # "query" /\ op'[y] = [op[y] EXCEPT !.signer = b, !.st = z]
      BY <3>1
    <3> QED
      BY <3>1, <3>2
  <2> QED
    BY <2>4, <2>5
<1>9. ASSUME NEW x \in Ops, Place(x)
      PROVE  Goal
  <2>1. op' = [op EXCEPT ![x].st = "publishing"] /\ op[x].kind = "submit"
    BY <1>1, <1>9 DEF Place, Placed, OpIsKind
  <2>2. op'[x].kind = "submit"
    BY <2>1, <1>1 DEF OpTypes
  <2> QED
    BY <2>1, <2>2, <1>1
<1>10. ASSUME NEW x \in Ops,
              Publish(x) \/ RefuseOrder(x) \/ RefuseTransaction(x) \/ Mine(x)
       PROVE  Goal
  <2>1. op' = [op EXCEPT ![x] = NoOp]
    BY <1>10 DEF Publish, RefuseOrder, RefuseTransaction, Withdraw, Mine, Received
  <2> QED
    BY <2>1, <1>2, <1>5
<1>11. ASSUME NEW x \in Ops, TransactionFails(x)
       PROVE  Goal
  <2> DEFINE new == IF op[x].kind \in {"approve", "revoke"}
                      THEN [op[x] EXCEPT !.st = "failed"] ELSE NoOp
  <2>1. op' = [op EXCEPT ![x] = new]
    BY <1>1, <1>11 DEF TransactionFails
  <2>2. new.kind # "trade"
    BY <1>1, <1>2 DEF OpTypes
  <2> HIDE DEF new
  <2> QED
    BY <2>1, <2>2, <1>5
<1>12. ASSUME UNCHANGED op PROVE Goal
  BY <1>12
<1> DEFINE Acts(x) ==
      \/ Trade(x) \/ QueryOrderBatch(x)
      \/ \E o \in OwnOrders : SubmitOrder(x, o)
      \/ Place(x) \/ Publish(x) \/ WalletAction(x)
      \/ SignOrder(x) \/ SendTransaction(x) \/ RefuseOrder(x) \/ RefuseTransaction(x)
      \/ Mine(x) \/ TransactionFails(x)
<1>13. UNCHANGED op \/ \E x \in Ops : Acts(x)
  BY DEF Next, vars, tradeVars, SelectOrder, DeselectOrder, PollOrder
<1> HIDE DEF Goal
<1>14. ASSUME NEW x \in Ops, Acts(x)
       PROVE  Goal
  BY <1>14, <1>3, <1>4, <1>7, <1>8, <1>9, <1>10, <1>11
<1> HIDE DEF Acts
<1>15. Goal
  BY <1>12, <1>13, <1>14
<1> QED
  BY <1>15 DEF Goal

\* What an answer of the service leaves of the orders that were chosen.
LEMMA FoundSuffices ==
  ASSUME TypeInv, NEW y \in Ops, Suffices(op[y], listed, stored), op[y].st = "query",
         NEW t, t = [op[y] EXCEPT !.st = "signing", !.chosen = Found(op[y].chosen)]
  PROVE  Suffices(t, listed, stored)
<1>1. op[y] \in OpTypes
  BY DEF TypeInv, TradeTypes
<1>2. /\ t.kind = op[y].kind /\ t.level = op[y].level /\ t.amount = op[y].amount
      /\ t.st = "signing" /\ t.chosen = Found(op[y].chosen) /\ t.level \in Levels
  BY <1>1 DEF OpTypes
<1>3. SUFFICES ASSUME t.kind = "trade"
               PROVE  /\ DOMAIN t.level # {} /\ DOMAIN t.level \subseteq stored
                      /\ \E s \in SmallestFirst(t.level) :
                           DOMAIN t.level \subseteq listed
                             => t.chosen = Chosen(t.level, s, t.amount)
  BY <1>2 DEF Suffices
<1>4. PICK s \in SmallestFirst(t.level) : op[y].chosen = Chosen(t.level, s, t.amount)
  BY <1>2, <1>3 DEF Suffices
<1>5. ASSUME DOMAIN t.level \subseteq listed
      PROVE  t.chosen = Chosen(t.level, s, t.amount)
  <2>1. t.amount \in Nat
    BY <1>1, <1>2 DEF OpTypes
  <2>2. PICK k \in 0 .. Len(s) : op[y].chosen = SubSeq(s, 1, k)
    <3> DEFINE level == t.level
               n == t.amount
    <3>1. level \in Levels /\ n \in Nat /\ s \in SmallestFirst(level)
      BY <1>2, <2>1
    <3> HIDE DEF level, n
    <3>2. \E k \in 0 .. Len(s) : Chosen(level, s, n) = SubSeq(s, 1, k)
      BY <3>1, ChosenSuffices
    <3> QED
      BY <3>2, <1>4 DEF level, n
  <2>3. s \in Seq(DOMAIN t.level) /\ Len(s) \in Nat
    BY <1>2, SmallestFirstType
  <2> DEFINE D == DOMAIN t.level
             orders == SubSeq(s, 1, k)
  <2>4. orders \in Seq(D) /\ \A i \in 1 .. Len(orders) : orders[i] \in D
    <3>1. s \in Seq(D) /\ k \in Nat /\ k <= Len(s)
      BY <2>3
    <3> HIDE DEF D
    <3> QED
      BY <3>1
  <2> HIDE DEF orders
  <2>5. Found(orders) = orders
    BY <2>4, <1>5, FoundType
  <2> QED
    BY <2>2, <2>5, <1>2, <1>4 DEF orders
<1>6. DOMAIN t.level # {} /\ DOMAIN t.level \subseteq stored
  BY <1>2, <1>3 DEF Suffices
<1> QED
  BY <1>5, <1>6

\* The books shrink and the records grow: the rest of an operation stays.
LEMMA SufficesStays ==
  ASSUME NEW t, NEW books, NEW records, NEW books1, NEW records1,
         Suffices(t, books, records), records \subseteq records1,
         DOMAIN t.level \subseteq LevelOrders,
         \A o \in LevelOrders : o \in records /\ o \in books1 => o \in books
  PROVE  Suffices(t, books1, records1)
<1> SUFFICES ASSUME t.kind = "trade"
             PROVE  /\ DOMAIN t.level # {} /\ DOMAIN t.level \subseteq records1
                    /\ \E s \in SmallestFirst(t.level) :
                         t.st = "query" \/ DOMAIN t.level \subseteq books1
                           => t.chosen = Chosen(t.level, s, t.amount)
  BY DEF Suffices
<1>1. PICK s \in SmallestFirst(t.level) :
        t.st = "query" \/ DOMAIN t.level \subseteq books
          => t.chosen = Chosen(t.level, s, t.amount)
  BY DEF Suffices
<1>2. DOMAIN t.level # {} /\ DOMAIN t.level \subseteq records
  BY DEF Suffices
<1>3. DOMAIN t.level \subseteq books1 => DOMAIN t.level \subseteq books
  BY <1>2
<1> QED
  BY <1>1, <1>2, <1>3

\* A question is about the orders that were chosen of the level.
LEMMA AskSuffices ==
  ASSUME NEW level \in Levels, DOMAIN level # {}, NEW s \in SmallestFirst(level),
         NEW n, NEW books, NEW records, DOMAIN level \subseteq records
  PROVE  Suffices(AskForOrders(level, s, n), books, records)
<1> DEFINE t == AskForOrders(level, s, n)
<1>1. t.level = level /\ t.amount = n /\ t.chosen = Chosen(level, s, n)
  BY DEF AskForOrders, NewOp, NoOp
<1> HIDE DEF t
<1>2. Suffices(t, books, records)
  BY <1>1 DEF Suffices
<1> QED
  BY <1>2 DEF t

\* A signature changes nothing of what was chosen.
LEMMA ConfirmSuffices ==
  ASSUME NEW t \in OpTypes, NEW books, NEW records, Suffices(t, books, records),
         NEW a, NEW st, st # "query"
  PROVE  Suffices([t EXCEPT !.signer = a, !.st = st], books, records)
<1> DEFINE u == [t EXCEPT !.signer = a, !.st = st]
<1>1. /\ u.kind = t.kind /\ u.level = t.level /\ u.amount = t.amount
      /\ u.chosen = t.chosen /\ u.st = st
  BY DEF OpTypes
<1> HIDE DEF u
<1>2. Suffices(u, books, records)
  BY <1>1 DEF Suffices
<1> QED
  BY <1>2 DEF u

LEMMA TradeInvInit ==
  ASSUME Init
  PROVE  TradeInv
<1>1. PendingIsNew
  BY DEF Init, CommandInit, PendingIsNew
<1>2. DOMAIN panel = {}
  BY DEF Init
<1>3. \A x \in Ops : op[x].kind # "trade"
  BY DEF Init, NoOp
<1> QED
  BY <1>1, <1>2, <1>3 DEF TradeInv, Suffices

\* Every step keeps what is known of the orders that were chosen.
LEMMA TradeInvStep ==
  ASSUME OthersOrders, TypeInv, TradeInv, [Next]_vars
  PROVE  TradeInv'
<1>1. /\ stored \subseteq stored'
      /\ \A o \in LevelOrders : o \in stored /\ o \in listed' => o \in listed
      /\ PendingIsNew'
  BY BookShrinks DEF TradeInv
<1>2. DOMAIN panel' \subseteq stored'
  <2>1. panel' = panel \/ panel' = <<>> \/ panel' = [o \in Offered |-> Volume(ledger, o)]
    BY DEF Next, vars, tradeVars, SelectOrder, DeselectOrder, Trade, QueryOrderBatch,
       SubmitOrder, Begin, Place, Publish, WalletAction, CancelMine, Cancel, Wrap, Unwrap,
       Approve, Revoke, SignOrder, SendTransaction, Confirm, RefuseOrder,
       RefuseTransaction, Withdraw, Mine, TransactionFails, PollOrder
  <2>2. Offered \subseteq stored
    BY DEF Offered, TypeInv, CommandTypes
  <2>3. DOMAIN panel' \subseteq stored
    <3>1. CASE panel' = panel
      BY <3>1 DEF TradeInv
    <3>2. CASE panel' = <<>>
      BY <3>2
    <3>3. CASE panel' = [o \in Offered |-> Volume(ledger, o)]
      BY <2>2, <3>3
    <3> QED
      BY <2>1, <3>1, <3>2, <3>3
  <2> QED
    BY <2>3, <1>1
<1>3. ASSUME NEW y \in Ops
      PROVE  Suffices(op'[y], listed', stored')
  <2> DEFINE Kept == Suffices(op'[y], listed', stored')
  <2>1. op[y] \in OpTypes /\ DOMAIN op[y].level \subseteq LevelOrders /\ panel \in Levels
    BY LevelDomain DEF TypeInv, TradeTypes, OpTypes
  <2>2. Suffices(op[y], listed, stored)
    BY DEF TradeInv
  <2>3. ASSUME NEW t, Suffices(t, listed, stored), DOMAIN t.level \subseteq LevelOrders
        PROVE  Suffices(t, listed', stored')
    BY <2>3, <1>1, SufficesStays
  <2>4. ASSUME op'[y] = op[y] PROVE Kept
    BY <2>1, <2>2, <2>3, <2>4
  <2>5. ASSUME op'[y].kind # "trade" PROVE Kept
    BY <2>5 DEF Suffices
  <2>6. ASSUME panel # <<>>,
               \E s \in SmallestFirst(panel), n \in FormAmounts(panel) :
                  op'[y] = AskForOrders(panel, s, PayAmount(panel, n))
        PROVE  Kept
    <3> PICK s \in SmallestFirst(panel), n \in FormAmounts(panel) :
               op'[y] = AskForOrders(panel, s, PayAmount(panel, n))
      BY <2>6
    <3>1. DOMAIN panel # {}
      <4>1. PICK D \in SUBSET LevelOrders : panel \in [D -> Nat]
        BY <2>1 DEF Levels
      <4>2. CASE D = {}
        <5>1. panel = <<>>
          BY <4>1, <4>2
        <5> QED
          BY <5>1, <2>6
      <4> QED
        BY <4>1, <4>2
    <3>2. DOMAIN panel \subseteq stored'
      BY <1>1 DEF TradeInv
    <3> QED
      BY <2>1, <3>1, <3>2, AskSuffices
  <2>7. ASSUME op[y].st = "query",
               op'[y] = [op[y] EXCEPT !.st = "signing", !.chosen = Found(op[y].chosen)]
        PROVE  Kept
    <3>1. Suffices(op'[y], listed, stored)
      BY <2>2, <2>7, FoundSuffices
    <3>2. op'[y].level = op[y].level
      BY <2>1, <2>7 DEF OpTypes
    <3> QED
      BY <2>1, <2>3, <3>1, <3>2
  <2>8. ASSUME \E a, st : st # "query" /\ op'[y] = [op[y] EXCEPT !.signer = a, !.st = st]
        PROVE  Kept
    <3> PICK a, st : st # "query" /\ op'[y] = [op[y] EXCEPT !.signer = a, !.st = st]
      BY <2>8
    <3>1. Suffices(op'[y], listed, stored)
      <4>1. Suffices([op[y] EXCEPT !.signer = a, !.st = st], listed, stored)
        BY <2>1, <2>2, ConfirmSuffices
      <4> QED
        BY <4>1
    <3>2. op'[y].level = op[y].level
      BY <2>1 DEF OpTypes
    <3> QED
      BY <2>1, <2>3, <3>1, <3>2
  <2> HIDE DEF Kept
  <2>9. Kept
    BY <2>4, <2>5, <2>6, <2>7, <2>8, OpSteps
  <2> QED
    BY <2>9 DEF Kept
<1> QED
  BY <1>1, <1>2, <1>3 DEF TradeInv

\* A trade that is mined pays what was asked for.
LEMMA MinedPays ==
  ASSUME OthersOrders, TypeInv, TradeInv, NEW x \in Ops, Mine(x), op[x].kind = "trade"
  PROVE  LET t == op[x]
             token == IF DOMAIN t.level \subseteq Asks THEN "quote" ELSE "base"
             paid == ledger.bal[t.signer][token] - ledger'.bal[t.signer][token]
         IN  /\ paid <= t.amount
             /\ (\A o \in DOMAIN t.level : o \in listed /\ Volume(ledger, o) = t.level[o]) =>
                  paid = Least({t.amount, SumFunction(t.level),
                                Spendable(ledger, t.signer, token)})
<1> DEFINE t == op[x]
           level == t.level
           orders == t.chosen
           a == t.signer
           n == t.amount
           k == Len(orders)
           token == IF DOMAIN level \subseteq Asks THEN "quote" ELSE "base"
           before == ledger.bal[a][token]
           after == ledger'.bal[a][token]
<1>1. /\ t \in OpTypes /\ a \in PluginAccounts /\ level \in Levels
      /\ orders \in Seq(LevelOrders) /\ orders \in Seq(Orders) /\ n \in Nat
  <2>1. t \in OpTypes /\ OpIsKind(t) /\ t.st = "sent"
    BY DEF Mine, TypeInv, TradeTypes
  <2>2. orders \in Seq(LevelOrders)
    BY <2>1 DEF OpTypes
  <2>3. orders \in Seq(Orders)
    <3> HIDE DEF orders
    <3> QED
      BY <2>2, TradingAssumption
  <2> QED
    BY <2>1, <2>2, <2>3 DEF OpTypes, OpIsKind
<1>2. Suffices(t, listed, stored) /\ t.st # "query"
  BY DEF TradeInv, Mine
<1>3. Sound(ledger) /\ a \in Accounts /\ token \in Tokens
  BY <1>1, SessionAssumption DEF TypeInv, LedgerTypes, Tokens
<1>4. \A o \in LevelOrders : TakerToken(o) = token
  <2>1. DOMAIN level # {} /\ DOMAIN level \subseteq LevelOrders
    BY <1>1, <1>2, LevelDomain DEF Suffices
  <2>2. LevelOrders \subseteq Asks \/ LevelOrders \cap Asks = {}
    BY TradingAssumption
  <2> QED
    BY <2>1, <2>2 DEF TakerToken
<1>5. ledger' = FillOrdersUpTo(ledger, orders, a, n)
  BY DEF Mine, Applied
<1> HIDE DEF token, orders, a, n, level
<1>6. PICK c : FillChain(c, ledger, orders, a, n) /\ ledger' = c[k].ledger
  BY <1>1, <1>5, FillsByChain
<1>7. k \in 0 .. k
  BY <1>1
<1>8. c[k].left \in Nat
  BY <1>1, <1>3, <1>6, <1>7, ChainTypes
<1>9. after = before - (n - c[k].left)
  BY <1>1, <1>3, <1>4, <1>6, <1>7, ChainPaysLeft
<1>10. before \in Nat
  BY <1>3 DEF Sound, Ledgers
<1> DEFINE paid == before - after
<1>11. paid = n - c[k].left /\ paid <= n
  <2> HIDE DEF before, after
  <2> QED
    BY <1>1, <1>8, <1>9, <1>10
<1>12. ASSUME \A o \in DOMAIN level : o \in listed /\ Volume(ledger, o) = level[o]
       PROVE  paid = Least({n, SumFunction(level), Spendable(ledger, a, token)})
  <2>1. PICK s \in SmallestFirst(level) : orders = Chosen(level, s, n)
    BY <1>2, <1>12 DEF Suffices, level, orders, n
  <2>2. n - c[Len(Chosen(level, s, n))].left
          = Least({n, SumFunction(level), Spendable(ledger, a, token)})
    BY <2>1, <1>1, <1>3, <1>4, <1>6, <1>12, ChosenPay
  <2> HIDE DEF paid
  <2> QED
    BY <2>1, <2>2, <1>11
<1> QED
  BY <1>11, <1>12 DEF token, orders, a, n, level

\* A trade of a price level pays no more than was asked for; and as long as no
\* order of the level has changed or been delisted, it pays all of it, up to what
\* the level offers and what the account that signed can pay: whatever the page
\* showed when the level was selected, however equal orders were sorted, and
\* whatever happened while the service was asked and the user signed.  The orders
\* are those of different makers, none of them the user (`OthersOrders`): a maker's
\* balance backs all of its orders, and who fills an own order pays nothing.
THEOREM TradesWhatIsAsked ==
  ASSUME OthersOrders
  PROVE  Spec => AskedIsTraded
<1>1. TypeInv /\ TradeInv /\ [Next]_vars => TypeInv' /\ TradeInv'
  BY StepTypes, TradeInvStep
<1>2. Init => TypeInv /\ TradeInv
  BY InitTypes, TradeInvInit
<1> DEFINE Pays ==
      \A x \in Ops :
        Mine(x) /\ op[x].kind = "trade" =>
          LET t == op[x]
              token == IF DOMAIN t.level \subseteq Asks THEN "quote" ELSE "base"
              paid == ledger.bal[t.signer][token] - ledger'.bal[t.signer][token]
          IN  /\ paid <= t.amount
              /\ (\A o \in DOMAIN t.level : o \in listed /\ Volume(ledger, o) = t.level[o]) =>
                   paid = Least({t.amount, SumFunction(t.level),
                                 Spendable(ledger, t.signer, token)})
<1>3. TypeInv /\ TradeInv => Pays
  BY MinedPays
<1>4. Spec => [][Pays]_vars
  <2> HIDE DEF Pays
  <2> QED
    BY <1>1, <1>2, <1>3, PTL DEF Spec
<1> QED
  BY <1>4 DEF AskedIsTraded
=============================================================================

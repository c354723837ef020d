---------------------------- MODULE TotalsProofs ----------------------------
(***************************************************************************)
(* What the books are reckoned with: a sum over a finite set is a number,  *)
(* grows with the set and with what is summed, and changes by f[x] when x  *)
(* comes or goes.  Then what stands in for induction: of what has a number *)
(* there is a least one, and so a function that is defined by recursion on *)
(* 0 .. n is what its equations say.                                       *)
(***************************************************************************)
EXTENDS Totals, FiniteSetTheorems, FunctionTheorems, TLAPS

\* What Total takes: a finite set, and a natural number for each element.
Summable(f, S) == IsFiniteSet(S) /\ \A x \in S : f[x] \in Nat

\* A row has as many cells as its number says.
LEMMA RowCells ==
    ASSUME NEW x, NEW n \in Nat
    PROVE  IsFiniteSet({x} \X (1 .. n)) /\ Cardinality({x} \X (1 .. n)) = n
<1>1. IsFiniteSet({x}) /\ Cardinality({x}) = 1 BY FS_Singleton
<1>2. IsFiniteSet(1 .. n) /\ Cardinality(1 .. n) = n BY FS_Interval
<1>3. /\ IsFiniteSet({x} \X (1 .. n))
      /\ Cardinality({x} \X (1 .. n)) = Cardinality({x}) * Cardinality(1 .. n)
  BY <1>1, <1>2, FS_Product
<1> QED BY <1>1, <1>2, <1>3

\* A pair is a cell of its own row only.
LEMMA CellOf ==
    ASSUME NEW f, NEW S
    PROVE  /\ \A c \in Cells(f, S) : c[1] \in S /\ c[2] \in 1 .. f[c[1]] /\ c = <<c[1], c[2]>>
           /\ \A x \in S : \A i \in 1 .. f[x] : <<x, i>> \in Cells(f, S)
BY DEF Cells

\* The cells of finitely many rows are finitely many.
LEMMA CellsFinite ==
    ASSUME NEW f, NEW S, Summable(f, S) PROVE IsFiniteSet(Cells(f, S))
<1> DEFINE row(x) == {x} \X (1 .. f[x])
           rows == {row(x) : x \in S}
<1>1. [x \in S |-> row(x)] \in Surjection(S, rows) BY DEF Surjection
<1>2. IsFiniteSet(rows) BY <1>1, FS_Surjection DEF Summable
<1>3. \A x \in S : IsFiniteSet(row(x)) BY RowCells DEF Summable
<1>4. \A r \in rows : IsFiniteSet(r) BY <1>3
<1>5. IsFiniteSet(UNION rows) BY <1>2, <1>4, FS_UNION
<1> QED BY <1>5 DEF Cells

\* A sum of natural numbers is one.
LEMMA TotalType ==
    ASSUME NEW f, NEW S, Summable(f, S) PROVE Total(f, S) \in Nat
BY CellsFinite, FS_CardinalityType DEF Total

\* Nothing adds up to nothing.
LEMMA TotalEmpty == ASSUME NEW f PROVE Total(f, {}) = 0
<1>1. Cells(f, {}) = {} BY DEF Cells
<1> QED BY <1>1, FS_EmptySet DEF Total

\* Equal numbers, equal sums.
LEMMA TotalSame ==
    ASSUME NEW f, NEW g, NEW S, \A x \in S : f[x] = g[x]
    PROVE  Total(f, S) = Total(g, S)
<1>1. Cells(f, S) = Cells(g, S)
  <2>1. ASSUME NEW c \in Cells(f, S) PROVE c \in Cells(g, S) BY CellOf
  <2>2. ASSUME NEW c \in Cells(g, S) PROVE c \in Cells(f, S) BY CellOf
  <2> QED BY <2>1, <2>2
<1> QED BY <1>1 DEF Total

\* Nothing to add, nothing there.
LEMMA TotalZero ==
    ASSUME NEW f, NEW S, \A x \in S : f[x] = 0 PROVE Total(f, S) = 0
<1>1. Cells(f, S) = {} BY CellOf
<1> QED BY <1>1, FS_EmptySet DEF Total

\* The sum grows with the set, and with what is summed.
LEMMA TotalMonotone ==
    ASSUME NEW f, NEW g, NEW S, NEW T, Summable(f, S), Summable(g, T),
           S \subseteq T, \A x \in S : f[x] <= g[x]
    PROVE  Total(f, S) <= Total(g, T)
<1>1. Cells(f, S) \subseteq Cells(g, T)
  <2> SUFFICES ASSUME NEW c \in Cells(f, S) PROVE c \in Cells(g, T) OBVIOUS
  <2>1. c[1] \in S /\ c[2] \in 1 .. f[c[1]] /\ c = <<c[1], c[2]>> BY CellOf
  <2>2. c[2] \in 1 .. g[c[1]] /\ c[1] \in T BY <2>1 DEF Summable
  <2> QED BY <2>1, <2>2, CellOf
<1> QED BY <1>1, CellsFinite, FS_Subset DEF Total

\* x joins those that are summed.
LEMMA TotalJoin ==
    ASSUME NEW f, NEW S, NEW x, x \notin S, Summable(f, S \cup {x})
    PROVE  Total(f, S \cup {x}) = Total(f, S) + f[x]
<1> DEFINE row == {x} \X (1 .. f[x])
<1>1. Summable(f, S) BY FS_Subset DEF Summable
<1>2. IsFiniteSet(Cells(f, S)) BY <1>1, CellsFinite
<1>3. IsFiniteSet(row) /\ Cardinality(row) = f[x] BY RowCells DEF Summable
<1>4. Cells(f, S) \cap row = {} BY CellOf
<1>5. Cells(f, S \cup {x}) = Cells(f, S) \cup row
  <2>1. ASSUME NEW c \in Cells(f, S \cup {x}) PROVE c \in Cells(f, S) \cup row BY CellOf
  <2>2. ASSUME NEW c \in Cells(f, S) \cup row PROVE c \in Cells(f, S \cup {x}) BY CellOf
  <2> QED BY <2>1, <2>2
<1>6. Cardinality(Cells(f, S) \cap row) = 0 BY <1>4, FS_EmptySet
<1>7. Cardinality(Cells(f, S)) \in Nat /\ f[x] \in Nat
  BY <1>2, FS_CardinalityType DEF Summable
<1>8. Cardinality(Cells(f, S) \cup row)
        = Cardinality(Cells(f, S)) + Cardinality(row) - Cardinality(Cells(f, S) \cap row)
  BY <1>2, <1>3, FS_Union
<1> HIDE DEF row
<1>9. Cardinality(Cells(f, S \cup {x})) = Cardinality(Cells(f, S) \cup row) BY <1>5, Zenon
<1> QED BY <1>3, <1>6, <1>7, <1>8, <1>9 DEF Total

\* x leaves them.
LEMMA TotalLeave ==
    ASSUME NEW f, NEW S, NEW x \in S, Summable(f, S)
    PROVE  /\ Total(f, S \ {x}) = Total(f, S) - f[x]
           /\ f[x] <= Total(f, S)
<1>1. S = (S \ {x}) \cup {x} OBVIOUS
<1>2. Total(f, S) = Total(f, S \ {x}) + f[x] BY <1>1, TotalJoin
<1>3. Summable(f, S \ {x}) BY FS_Subset DEF Summable
<1>4. Total(f, S \ {x}) \in Nat /\ f[x] \in Nat BY <1>3, TotalType DEF Summable
<1> QED BY <1>2, <1>4

\* Only x's number changes.
LEMMA TotalChange ==
    ASSUME NEW f, NEW g, NEW S, NEW x \in S, Summable(f, S), Summable(g, S),
           \A y \in S \ {x} : f[y] = g[y]
    PROVE  Total(g, S) = Total(f, S) - f[x] + g[x]
<1>1. Total(f, S \ {x}) = Total(g, S \ {x}) BY TotalSame
<1>2. Total(f, S \ {x}) = Total(f, S) - f[x] BY TotalLeave
<1>3. Total(g, S \ {x}) = Total(g, S) - g[x] BY TotalLeave
<1>4. Total(f, S) \in Nat /\ Total(g, S) \in Nat /\ f[x] \in Nat /\ g[x] \in Nat
  BY TotalType DEF Summable
<1> QED BY <1>1, <1>2, <1>3, <1>4

\* No more of T than the sum, if no more than f[s] of them bear each label s.
LEMMA TotalCovers ==
    ASSUME NEW f, NEW S, Summable(f, S), NEW T, IsFiniteSet(T), NEW label,
           \A t \in T : label[t] \in S,
           \A s \in S : Cardinality({t \in T : label[t] = s}) <= f[s]
    PROVE  Cardinality(T) <= Total(f, S)
<1> DEFINE group(s) == {t \in T : label[t] = s}
           rank(s) == CHOOSE b : b \in Bijection(group(s), 1 .. Cardinality(group(s)))
           cell == [t \in T |-> <<label[t], rank(label[t])[t]>>]
<1>1. ASSUME NEW s \in S
      PROVE  /\ rank(s) \in Injection(group(s), 1 .. Cardinality(group(s)))
             /\ Cardinality(group(s)) \in Nat /\ f[s] \in Nat
  <2>1. IsFiniteSet(group(s)) BY FS_Subset
  <2>2. /\ Cardinality(group(s)) \in Nat
        /\ ExistsBijection(1 .. Cardinality(group(s)), group(s))
    BY <2>1, FS_CardinalityType
  <2> HIDE DEF group
  <2>3. ExistsBijection(group(s), 1 .. Cardinality(group(s))) BY <2>2, Fun_ExistsBijSymmetric
  <2>4. \E b : b \in Bijection(group(s), 1 .. Cardinality(group(s))) BY <2>3 DEF ExistsBijection
  <2>5. rank(s) \in Bijection(group(s), 1 .. Cardinality(group(s))) BY <2>4
  <2> QED BY <2>2, <2>5 DEF Bijection, Summable
<1> HIDE DEF rank
<1>2. ASSUME NEW t \in T
      PROVE  /\ label[t] \in S /\ t \in group(label[t])
             /\ rank(label[t])[t] \in 1 .. f[label[t]]
  <2>1. label[t] \in S /\ t \in group(label[t]) OBVIOUS
  <2>2. Cardinality(group(label[t])) <= f[label[t]] BY <2>1
  <2> HIDE DEF group
  <2>3. rank(label[t])[t] \in 1 .. Cardinality(group(label[t])) BY <1>1, <2>1 DEF Injection
  <2> QED BY <1>1, <2>1, <2>2, <2>3
<1>3. cell \in [T -> Cells(f, S)]
  <2>1. \A t \in T : cell[t] = <<label[t], rank(label[t])[t]>> OBVIOUS
  <2>2. \A t \in T : cell[t] \in Cells(f, S) BY <1>2, <2>1, CellOf
  <2> QED BY <2>2
<1>4. ASSUME NEW t \in T, NEW u \in T, cell[t] = cell[u] PROVE t = u
  <2>1. label[t] = label[u] /\ rank(label[t])[t] = rank(label[t])[u] BY <1>4
  <2>2. t \in group(label[t]) /\ u \in group(label[t]) BY <1>2, <2>1
  <2>3. label[t] \in S BY <1>2
  <2> HIDE DEF group
  <2>4. rank(label[t]) \in Injection(group(label[t]), 1 .. Cardinality(group(label[t])))
    BY <1>1, <2>3
  <2> QED BY <2>1, <2>2, <2>4 DEF Injection, IsInjective
<1> HIDE DEF cell
<1>5. cell \in Injection(T, Cells(f, S)) BY <1>3, <1>4 DEF Injection, IsInjective
<1>6. IsFiniteSet(Cells(f, S)) BY CellsFinite
<1> QED BY <1>5, <1>6, FS_Injection DEF Total

\* The sums of two sets that have nothing in common.
LEMMA TotalUnion ==
    ASSUME NEW f, NEW S, NEW T, S \cap T = {}, Summable(f, S \cup T)
    PROVE  Total(f, S \cup T) = Total(f, S) + Total(f, T)
<1>1. Summable(f, S) /\ Summable(f, T)
  <2>1. S \in SUBSET (S \cup T) /\ T \in SUBSET (S \cup T) OBVIOUS
  <2> QED BY <2>1, FS_Subset DEF Summable
<1>2. IsFiniteSet(Cells(f, S)) /\ IsFiniteSet(Cells(f, T)) BY <1>1, CellsFinite
<1>3. Cells(f, S) \cap Cells(f, T) = {}
  <2> SUFFICES ASSUME NEW c \in Cells(f, S), c \in Cells(f, T) PROVE FALSE OBVIOUS
  <2>1. c[1] \in S /\ c[1] \in T BY CellOf
  <2> QED BY <2>1
<1>4. Cells(f, S \cup T) = Cells(f, S) \cup Cells(f, T)
  <2>1. ASSUME NEW c \in Cells(f, S \cup T) PROVE c \in Cells(f, S) \cup Cells(f, T) BY CellOf
  <2>2. ASSUME NEW c \in Cells(f, S) \cup Cells(f, T) PROVE c \in Cells(f, S \cup T) BY CellOf
  <2> QED BY <2>1, <2>2
<1>5. Cardinality(Cells(f, S) \cap Cells(f, T)) = 0 BY <1>3, FS_EmptySet
<1>6. Cardinality(Cells(f, S)) \in Nat /\ Cardinality(Cells(f, T)) \in Nat
  BY <1>2, FS_CardinalityType
<1>7. Cardinality(Cells(f, S) \cup Cells(f, T))
        = Cardinality(Cells(f, S)) + Cardinality(Cells(f, T)) - Cardinality(Cells(f, S) \cap Cells(f, T))
  BY <1>2, FS_Union
<1>8. Cardinality(Cells(f, S \cup T)) = Cardinality(Cells(f, S) \cup Cells(f, T)) BY <1>4, Zenon
<1> QED BY <1>5, <1>6, <1>7, <1>8 DEF Total

\* No more is summed over S than over T, if each x has a partner in T with as
\* much.
LEMMA TotalPartners ==
    ASSUME NEW f, NEW g, NEW S, NEW T, Summable(f, S), Summable(g, T),
           NEW h \in Injection(S, T), \A x \in S : f[x] <= g[h[x]]
    PROVE  Total(f, S) <= Total(g, T)
<1> DEFINE cell == [c \in Cells(f, S) |-> <<h[c[1]], c[2]>>]
<1>1. h \in [S -> T] /\ \A x, y \in S : h[x] = h[y] => x = y BY DEF Injection, IsInjective
<1>2. cell \in [Cells(f, S) -> Cells(g, T)]
  <2> SUFFICES ASSUME NEW c \in Cells(f, S) PROVE <<h[c[1]], c[2]>> \in Cells(g, T) OBVIOUS
  <2>1. c[1] \in S /\ c[2] \in 1 .. f[c[1]] BY CellOf
  <2>2. h[c[1]] \in T /\ f[c[1]] \in Nat /\ g[h[c[1]]] \in Nat /\ f[c[1]] <= g[h[c[1]]]
    BY <1>1, <2>1 DEF Summable
  <2>3. c[2] \in 1 .. g[h[c[1]]] BY <2>1, <2>2
  <2> QED BY <2>2, <2>3, CellOf
<1>3. ASSUME NEW c \in Cells(f, S), NEW d \in Cells(f, S), cell[c] = cell[d] PROVE c = d
  <2>1. /\ c[1] \in S /\ d[1] \in S
        /\ c = <<c[1], c[2]>> /\ d = <<d[1], d[2]>>
    BY CellOf
  <2>2. h[c[1]] = h[d[1]] /\ c[2] = d[2] BY <1>3
  <2>3. c[1] = d[1] BY <1>1, <2>1, <2>2
  <2> QED BY <2>1, <2>2, <2>3
<1> HIDE DEF cell
<1>4. cell \in Injection(Cells(f, S), Cells(g, T)) BY <1>2, <1>3 DEF Injection, IsInjective
<1> QED BY <1>4, CellsFinite, FS_Injection DEF Total

\* There is an injection into a set that is no smaller.
LEMMA Partners ==
    ASSUME NEW S, NEW T, IsFiniteSet(S), IsFiniteSet(T), Cardinality(S) <= Cardinality(T)
    PROVE  \E h : h \in Injection(S, T)
<1>1. /\ Cardinality(S) \in Nat /\ Cardinality(T) \in Nat
      /\ ExistsBijection(1 .. Cardinality(S), S) /\ ExistsBijection(1 .. Cardinality(T), T)
  BY FS_CardinalityType
<1>2. ExistsBijection(S, 1 .. Cardinality(S)) BY <1>1, Fun_ExistsBijSymmetric
<1>3. PICK a : a \in Bijection(S, 1 .. Cardinality(S)) BY <1>2 DEF ExistsBijection
<1>4. PICK b : b \in Bijection(1 .. Cardinality(T), T) BY <1>1 DEF ExistsBijection
<1>5. 1 .. Cardinality(S) \subseteq 1 .. Cardinality(T) BY <1>1
<1>6. /\ a \in [S -> 1 .. Cardinality(S)] /\ \A x, y \in S : a[x] = a[y] => x = y
      /\ b \in [1 .. Cardinality(T) -> T]
      /\ \A i, j \in 1 .. Cardinality(T) : b[i] = b[j] => i = j
  BY <1>3, <1>4 DEF Bijection, Injection, IsInjective
<1> DEFINE h == [x \in S |-> b[a[x]]]
<1>7. h \in [S -> T] BY <1>5, <1>6
<1>8. \A x, y \in S : h[x] = h[y] => x = y BY <1>5, <1>6
<1> HIDE DEF h
<1>9. h \in Injection(S, T) BY <1>7, <1>8 DEF Injection, IsInjective
<1> QED BY <1>9

\* No more is summed over a smaller set of smaller numbers.
LEMMA TotalSmaller ==
    ASSUME NEW f, NEW g, NEW S, NEW T, Summable(f, S), Summable(g, T),
           Cardinality(S) <= Cardinality(T), \A x \in S, y \in T : f[x] <= g[y]
    PROVE  Total(f, S) <= Total(g, T)
<1>1. PICK h : h \in Injection(S, T) BY Partners DEF Summable
<1>2. \A x \in S : f[x] <= g[h[x]] BY <1>1 DEF Injection
<1> QED BY <1>1, <1>2, TotalPartners

\* At least low for each of them.
LEMMA TotalAtLeast ==
    ASSUME NEW f, NEW S, Summable(f, S), NEW low \in Nat, \A x \in S : low <= f[x]
    PROVE  low * Cardinality(S) <= Total(f, S)
<1> DEFINE all == S \X (1 .. low)
<1>1. IsFiniteSet(S) BY DEF Summable
<1>2. IsFiniteSet(1 .. low) /\ Cardinality(1 .. low) = low BY FS_Interval
<1>3. IsFiniteSet(all) /\ Cardinality(all) = Cardinality(S) * Cardinality(1 .. low)
  BY <1>1, <1>2, FS_Product
<1>4. all \subseteq Cells(f, S)
  <2> SUFFICES ASSUME NEW x \in S, NEW i \in 1 .. low PROVE <<x, i>> \in Cells(f, S) OBVIOUS
  <2>1. i \in 1 .. f[x] BY DEF Summable
  <2> QED BY <2>1, CellOf
<1>5. Cardinality(all) <= Cardinality(Cells(f, S)) BY <1>4, CellsFinite, FS_Subset
<1>6. Cardinality(S) * low = low * Cardinality(S) BY <1>1, FS_CardinalityType
<1> HIDE DEF all
<1> QED BY <1>2, <1>3, <1>5, <1>6 DEF Total

-----------------------------------------------------------------------------
(* Least elements and recursion *)

\* A set of natural numbers has a least one.
LEMMA LeastOne ==
    ASSUME NEW T \in SUBSET Nat, T # {} PROVE \E m \in T : \A k \in T : m <= k
<1> DEFINE R == OpToRel(<, Nat)
<1>1. IsWellFoundedOn(R, Nat) BY NatLessThanWellFounded
<1>2. \A j, k \in Nat : j < k => <<j, k>> \in R BY DEF OpToRel
<1> HIDE DEF R
<1>3. PICK m \in T : \A y \in T : ~(<<y, m>> \in R) BY <1>1, WFMin
<1>4. \A k \in T : ~(k < m) BY <1>2, <1>3
<1>5. m \in Nat /\ T \subseteq Nat OBVIOUS
<1>6. \A k \in T : m <= k
  <2> TAKE k \in T
  <2>1. k \in Nat /\ ~(k < m) BY <1>4, <1>5
  <2> QED BY <2>1, <1>5
<1> QED BY <1>6

\* What has a number has a least one.
LEMMA LeastKey ==
    ASSUME NEW S, S # {}, NEW key \in [S -> Nat]
    PROVE  \E m \in S : \A k \in S : key[m] <= key[k]
<1> DEFINE T == {key[x] : x \in S}
<1>1. T \in SUBSET Nat /\ T # {} OBVIOUS
<1>2. PICK m \in T : \A k \in T : m <= k BY <1>1, LeastOne
<1>3. PICK x \in S : m = key[x] OBVIOUS
<1> QED BY <1>2, <1>3

\* Of what has two numbers and a place there is a first one.
LEMMA FirstByKeys ==
    ASSUME NEW S \in SUBSET Nat, S # {}, NEW a \in [S -> Nat], NEW b \in [S -> Nat]
    PROVE  \E i \in S : \A j \in S :
              \/ a[i] < a[j]
              \/ a[i] = a[j] /\ b[i] < b[j]
              \/ a[i] = a[j] /\ b[i] = b[j] /\ i <= j
<1>1. PICK m \in S : \A k \in S : a[m] <= a[k] BY LeastKey
<1> DEFINE A == {i \in S : a[i] = a[m]}
           keyA == [i \in A |-> b[i]]
<1>2. A # {} /\ keyA \in [A -> Nat] BY <1>1
<1>3. PICK p \in A : \A k \in A : keyA[p] <= keyA[k]
  <2> HIDE DEF keyA, A
  <2> QED BY <1>2, LeastKey
<1> DEFINE B == {i \in A : b[i] = b[p]}
<1>4. B \in SUBSET Nat /\ B # {} BY <1>3
<1>5. PICK i \in B : \A k \in B : i <= k BY <1>4, LeastOne
<1>6. ASSUME NEW j \in S
      PROVE  \/ a[i] < a[j]
             \/ a[i] = a[j] /\ b[i] < b[j]
             \/ a[i] = a[j] /\ b[i] = b[j] /\ i <= j
  <2>1. a[i] = a[m] /\ a[m] <= a[j] /\ b[i] = b[p] BY <1>1, <1>5
  <2>2. CASE j \in B BY <1>5, <2>1, <2>2
  <2>3. CASE j \in A /\ j \notin B
    <3>1. b[p] <= b[j] /\ b[p] # b[j] /\ b[p] \in Nat /\ b[j] \in Nat BY <1>3, <2>3
    <3> QED BY <2>1, <2>3, <3>1
  <2>4. CASE j \notin A
    <3>1. a[j] # a[m] /\ a[j] \in Nat /\ a[m] \in Nat BY <2>4
    <3> QED BY <2>1, <3>1
  <2> QED BY <2>2, <2>3, <2>4
<1> QED BY <1>5, <1>6

\* A set that has 0 and with each number the next has all of them.
LEMMA OneByOne ==
    ASSUME NEW n \in Nat, NEW T, 0 \in T, \A i \in 1 .. n : i - 1 \in T => i \in T
    PROVE  0 .. n \subseteq T
<1> DEFINE rest == {i \in 0 .. n : i \notin T}
<1> SUFFICES ASSUME rest # {} PROVE FALSE OBVIOUS
<1>1. rest \in SUBSET Nat OBVIOUS
<1>2. PICK m \in rest : \A k \in rest : m <= k BY <1>1, LeastOne
<1>3. m \in 1 .. n /\ m - 1 \in 0 .. n BY <1>2
<1>4. m - 1 \notin rest BY <1>2, <1>3
<1> QED BY <1>3, <1>4

\* The functions on 0 .. n that begin with a and go on by the given step.
Walks(n, S, a, step) ==
    {f \in [0 .. n -> S] : f[0] = a /\ \A i \in 1 .. n : f[i] = step[<<i, f[i - 1]>>]}

\* There is one for each beginning and each step.
LEMMA StepByStep ==
    ASSUME NEW n \in Nat, NEW S, NEW a \in S, NEW step \in [(1 .. n) \X S -> S]
    PROVE  Walks(n, S, a, step) # {}
<1> DEFINE Ok(k, f) == f \in [0 .. k -> S] /\ f[0] = a /\ \A i \in 1 .. k : f[i] = step[<<i, f[i - 1]>>]
           ok == {k \in 0 .. n : \E f : Ok(k, f)}
<1>1. 0 \in ok
  <2>1. Ok(0, [i \in 0 .. 0 |-> a]) OBVIOUS
  <2>2. 0 \in 0 .. n OBVIOUS
  <2> HIDE DEF Ok
  <2> QED BY <2>1, <2>2
<1>2. ASSUME NEW m \in 1 .. n, m - 1 \in ok PROVE m \in ok
  <2>1. PICK g : Ok(m - 1, g) BY <1>2
  <2> DEFINE h == [i \in 0 .. m |-> IF i = m THEN step[<<m, g[m - 1]>>] ELSE g[i]]
  <2>2. g[m - 1] \in S BY <2>1
  <2>3. step[<<m, g[m - 1]>>] \in S BY <2>2
  <2>4. h \in [0 .. m -> S] BY <2>1, <2>3
  <2>5. h[0] = a BY <2>1
  <2>6. h[m] = step[<<m, h[m - 1]>>]
    <3>1. m \in 0 .. m /\ m - 1 \in 0 .. m /\ m - 1 # m OBVIOUS
    <3> QED BY <3>1
  <2>7. ASSUME NEW i \in 1 .. m, i # m PROVE h[i] = step[<<i, h[i - 1]>>]
    <3>1. h[i] = g[i] /\ h[i - 1] = g[i - 1] BY <2>7
    <3> QED BY <2>1, <2>7, <3>1
  <2>8. Ok(m, h) BY <2>4, <2>5, <2>6, <2>7
  <2> HIDE DEF h
  <2> QED BY <2>8
<1> HIDE DEF ok
<1>3. n \in ok BY <1>1, <1>2, OneByOne
<1>4. PICK f : Ok(n, f) BY <1>3 DEF ok
<1>5. f \in Walks(n, S, a, step) BY <1>4 DEF Walks
<1> QED BY <1>5

=============================================================================

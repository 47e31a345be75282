-------------------------------- MODULE Sums --------------------------------
(***************************************************************************)
(* Lemmas about numbers and sums that the proofs of several components     *)
(* need: induction, as a fact about sets of numbers, and what the fold     *)
(* MapThenSumSet yields.  A sum over a finite set is the cardinality of a  *)
(* set of units, of which the library says that it adds up.                *)
(***************************************************************************)
EXTENDS Integers, FiniteSets, FiniteSetsExt,
        FiniteSetTheorems, NaturalsInduction, WellFoundedInduction, TLAPS

\* A set of numbers that is not empty has a smallest.
LEMMA HasSmallest ==
  ASSUME NEW S \in SUBSET Nat, S # {}
  PROVE  \E x \in S : \A y \in S : x <= y
<1>1. PICK x \in S : \A y \in S : ~(<<y, x>> \in OpToRel(<, Nat))
  BY NatLessThanWellFounded, WFMin
<1>2. \A y \in S : x <= y
  <2> SUFFICES ASSUME NEW y \in S, y < x PROVE FALSE
    OBVIOUS
  <2> DEFINE v == <<y, x>>
  <2>1. v \in Nat \X Nat /\ v[1] < v[2]
    OBVIOUS
  <2> HIDE DEF v
  <2>2. v \in OpToRel(<, Nat)
    BY <2>1, Zenon DEF OpToRel
  <2> QED BY <1>1, <2>2 DEF v
<1> QED BY <1>2

\* A set of numbers that holds 0, and with every number the next, holds all.
LEMMA InductNat ==
  ASSUME NEW T \in SUBSET Nat, 0 \in T, \A k \in Nat : k \in T => k + 1 \in T
  PROVE  T = Nat
<1> SUFFICES ASSUME Nat \ T # {} PROVE FALSE
  OBVIOUS
<1>1. PICK x \in Nat \ T : \A y \in Nat \ T : x <= y
  BY HasSmallest
<1>2. x # 0 /\ x - 1 \in Nat
  BY <1>1
<1>3. x - 1 \in T
  BY <1>1, <1>2
<1>4. (x - 1) + 1 \in T
  BY <1>2, <1>3
<1> QED BY <1>1, <1>4

-----------------------------------------------------------------------------
(* Sums. *)

\* what is counted of f over S: as many units of every x as f[x] says
Units(f, S) == {p \in S \X Nat : p[2] \in 1..f[p[1]]}
UnitCount(f, S) == Cardinality(Units(f, S))
Summable(f, S) == IsFiniteSet(S) /\ \A x \in S : f[x] \in Nat

\* The units of one thing are as many as f says.
LEMMA UnitsOfOne ==
  ASSUME NEW f, NEW x, f[x] \in Nat
  PROVE  IsFiniteSet(Units(f, {x})) /\ UnitCount(f, {x}) = f[x]
<1> DEFINE b == [k \in 1..f[x] |-> <<x, k>>]
<1>1. IsFiniteSet(1..f[x]) /\ Cardinality(1..f[x]) = f[x]
  BY FS_Interval
<1>2. b \in Bijection(1..f[x], Units(f, {x}))
  <2>1. \A k \in 1..f[x] : b[k] \in Units(f, {x})
    BY DEF Units
  <2>2. \A k, l \in 1..f[x] : b[k] = b[l] => (k = l)
    OBVIOUS
  <2>3. \A p \in Units(f, {x}) : \E k \in 1..f[x] : b[k] = p
    BY DEF Units
  <2>4. b \in [1..f[x] -> Units(f, {x})]
    BY <2>1
  <2> HIDE DEF b
  <2> QED BY <2>2, <2>3, <2>4 DEF Bijection, Injection, Surjection, IsInjective
<1>3. ExistsBijection(1..f[x], Units(f, {x}))
  BY <1>2 DEF ExistsBijection
<1> QED BY <1>1, <1>3, FS_Bijection DEF UnitCount

\* Finitely many things have finitely many units.
LEMMA UnitsAreFinite ==
  ASSUME NEW f, NEW S, Summable(f, S)
  PROVE  IsFiniteSet(Units(f, S)) /\ UnitCount(f, S) \in Nat
<1> DEFINE parts == {Units(f, {x}) : x \in S}
           g == [x \in S |-> Units(f, {x})]
<1>1. g \in Surjection(S, parts)
  <2>1. g \in [S -> parts] /\ \A T \in parts : \E x \in S : g[x] = T
    OBVIOUS
  <2> HIDE DEF g, parts
  <2> QED BY <2>1 DEF Surjection
<1>2. \A T \in parts : IsFiniteSet(T)
  BY UnitsOfOne DEF Summable
<1>3. Units(f, S) = UNION parts
  <2>1. \A p \in Units(f, S) : p \in Units(f, {p[1]}) /\ p[1] \in S
    BY DEF Units
  <2>2. \A x \in S : Units(f, {x}) \subseteq Units(f, S)
    BY DEF Units
  <2> QED BY <2>1, <2>2
<1> HIDE DEF g, parts
<1>4. IsFiniteSet(parts)
  BY <1>1, FS_Surjection DEF Summable
<1>5. IsFiniteSet(Units(f, S))
  BY <1>2, <1>3, <1>4, FS_UNION
<1> QED BY <1>5, FS_CardinalityType DEF UnitCount

\* What is counted of two sets apart is counted of both together.
LEMMA SizesAdd ==
  ASSUME NEW f, NEW S, NEW T, Summable(f, S), Summable(f, T), S \cap T = {}
  PROVE  Summable(f, S \cup T) /\ UnitCount(f, S \cup T) = UnitCount(f, S) + UnitCount(f, T)
<1>1. Units(f, S \cup T) = Units(f, S) \cup Units(f, T) /\ Units(f, S) \cap Units(f, T) = {}
  BY DEF Units
<1>2. IsFiniteSet(Units(f, S)) /\ IsFiniteSet(Units(f, T)) /\ UnitCount(f, S) \in Nat /\ UnitCount(f, T) \in Nat
  BY UnitsAreFinite
<1>3. UnitCount(f, S \cup T) = UnitCount(f, S) + UnitCount(f, T) - 0
  <2> DEFINE A == Units(f, S)
             B == Units(f, T)
  <2> HIDE DEF A, B
  <2>1. IsFiniteSet(A) /\ IsFiniteSet(B) /\ A \cap B = {}
    BY <1>1, <1>2 DEF A, B
  <2>2. Cardinality(A \cup B) = Cardinality(A) + Cardinality(B) - Cardinality(A \cap B)
    BY <2>1, FS_Union
  <2>3. Cardinality(A \cap B) = 0
    BY <2>1, FS_EmptySet
  <2> QED BY <1>1, <2>2, <2>3 DEF A, B, UnitCount
<1>4. IsFiniteSet(S \cup T)
  BY FS_Union DEF Summable
<1> QED BY <1>2, <1>3, <1>4 DEF Summable

\* Nothing is counted of nothing, and more of more.
LEMMA SizesGrow ==
  ASSUME NEW f, NEW S, NEW T, Summable(f, T), S \subseteq T
  PROVE  Summable(f, S) /\ UnitCount(f, S) <= UnitCount(f, T) /\ UnitCount(f, {}) = 0
<1>1. IsFiniteSet(S)
  BY FS_Subset DEF Summable
<1>2. Summable(f, S)
  BY <1>1 DEF Summable
<1>3. Units(f, S) \in SUBSET Units(f, T)
  BY DEF Units
<1>4. UnitCount(f, S) <= UnitCount(f, T)
  BY <1>3, UnitsAreFinite, FS_Subset DEF UnitCount
<1>5. Units(f, {}) = {}
  BY DEF Units
<1> QED BY <1>2, <1>4, <1>5, FS_EmptySet DEF UnitCount

\* the sum of f over S
SumOver(f, S) == MapThenSumSet(LAMBDA x : f[x], S)

\* what MapThenSumSet makes a table of: the sum over every part of S
Pick(T) == CHOOSE x \in T : TRUE
Table(t, f, S) ==
  t = [T \in SUBSET S |-> IF T = {} THEN 0 ELSE f[Pick(T)] + t[T \ {Pick(T)}]]

\* There is only one such table.
LEMMA TablesAgree ==
  ASSUME NEW f, NEW S, IsFiniteSet(S), NEW t, NEW h, Table(t, f, S), Table(h, f, S)
  PROVE  t[S] = h[S]
<1> DEFINE N == {n \in Nat : \A T \in SUBSET S : Cardinality(T) = n => t[T] = h[T]}
<1>1. ASSUME NEW T \in SUBSET S
      PROVE  /\ t[T] = IF T = {} THEN 0 ELSE f[Pick(T)] + t[T \ {Pick(T)}]
             /\ h[T] = IF T = {} THEN 0 ELSE f[Pick(T)] + h[T \ {Pick(T)}]
  BY Zenon DEF Table
<1>2. \A T \in SUBSET S : IsFiniteSet(T) /\ Cardinality(T) \in Nat
  BY FS_Subset, FS_CardinalityType
<1>3. 0 \in N
  <2>1. ASSUME NEW T \in SUBSET S, Cardinality(T) = 0 PROVE t[T] = h[T]
    <3>1. T = {}
      BY <1>2, <2>1, FS_EmptySet
    <3> QED BY <1>1, <3>1
  <2> QED BY <2>1
<1>4. ASSUME NEW n \in Nat, n \in N PROVE n + 1 \in N
  <2>1. ASSUME NEW T \in SUBSET S, Cardinality(T) = n + 1 PROVE t[T] = h[T]
    <3>1. T # {}
      BY <2>1, FS_EmptySet
    <3>2. Pick(T) \in T
      BY <3>1 DEF Pick
    <3>3. Cardinality(T \ {Pick(T)}) = n
      BY <1>2, <2>1, <3>2, FS_RemoveElement
    <3>4. t[T \ {Pick(T)}] = h[T \ {Pick(T)}]
      BY <1>4, <3>3
    <3> QED BY <1>1, <3>1, <3>4
  <2> QED BY <2>1
<1> HIDE DEF N
<1>5. N = Nat
  <2>1. N \in SUBSET Nat
    BY DEF N
  <2> QED BY <1>3, <1>4, <2>1, InductNat
<1>6. Cardinality(S) \in N
  BY <1>2, <1>5
<1> QED BY <1>6 DEF N

\* The sum of f is what any table says.
LEMMA SumOfFunction ==
  ASSUME NEW f, NEW S, IsFiniteSet(S), NEW h, Table(h, f, S)
  PROVE  SumOver(f, S) = h[S]
<1> DEFINE t == CHOOSE g : Table(g, f, S)
<1>1. SumOver(f, S) = t[S]
  BY DEF SumOver, MapThenSumSet, MapThenFoldSet, Table, Pick
<1>2. Table(t, f, S)
  OBVIOUS
<1> HIDE DEF t
<1> QED BY <1>1, <1>2, TablesAgree

\* What is counted of the parts of S is the table of its sums.
LEMMA SizesAreSums ==
  ASSUME NEW f, NEW S, Summable(f, S)
  PROVE  Table([T \in SUBSET S |-> UnitCount(f, T)], f, S)
<1> DEFINE h == [T \in SUBSET S |-> UnitCount(f, T)]
<1>1. ASSUME NEW T \in SUBSET S
      PROVE  h[T] = IF T = {} THEN 0 ELSE f[Pick(T)] + h[T \ {Pick(T)}]
  <2>1. CASE T = {}
    BY <2>1, SizesGrow
  <2>2. CASE T # {}
    <3>1. PICK x \in T : x = Pick(T)
      BY <2>2 DEF Pick
    <3> DEFINE R == T \ {x}
    <3>2. R \in SUBSET S /\ {x} \in SUBSET S /\ R \cap {x} = {} /\ R \cup {x} = T
      OBVIOUS
    <3> HIDE DEF R
    <3>3. Summable(f, R) /\ Summable(f, {x})
      BY <3>2, SizesGrow
    <3>4. UnitCount(f, T) = UnitCount(f, R) + UnitCount(f, {x})
      BY <3>2, <3>3, SizesAdd
    <3>5. UnitCount(f, {x}) = f[x] /\ f[x] \in Nat /\ UnitCount(f, R) \in Nat
      BY <3>3, UnitsOfOne, UnitsAreFinite DEF Summable
    <3>6. UnitCount(f, T) = f[x] + UnitCount(f, R)
      BY <3>4, <3>5
    <3>7. h[T] = UnitCount(f, T) /\ h[R] = UnitCount(f, R)
      BY <3>2
    <3> HIDE DEF h
    <3> QED BY <2>2, <3>1, <3>6, <3>7 DEF R
  <2> QED BY <2>1, <2>2
<1>2. h = [T \in SUBSET S |-> h[T]]
  OBVIOUS
<1> HIDE DEF h
<1>3. Table(h, f, S)
  BY <1>1, <1>2 DEF Table
<1> QED BY <1>3 DEF h

\* Sums of integers are integers.
LEMMA SumOfIntegers ==
  ASSUME NEW f, NEW S, IsFiniteSet(S), \A x \in S : f[x] \in Int
  PROVE  SumOver(f, S) \in Int
<1> DEFINE pos == [x \in S |-> IF f[x] >= 0 THEN f[x] ELSE 0]
           neg == [x \in S |-> IF f[x] >= 0 THEN 0 ELSE -f[x]]
           plus == [T \in SUBSET S |-> UnitCount(pos, T)]
           minus == [T \in SUBSET S |-> UnitCount(neg, T)]
           h == [T \in SUBSET S |-> plus[T] - minus[T]]
<1>1. \A x \in S : pos[x] \in Nat /\ neg[x] \in Nat /\ f[x] = pos[x] - neg[x]
  OBVIOUS
<1> HIDE DEF pos, neg
<1>2. Summable(pos, S) /\ Summable(neg, S)
  BY <1>1 DEF Summable
<1>3. Table(plus, pos, S) /\ Table(minus, neg, S)
  BY <1>2, SizesAreSums
<1>4. \A T \in SUBSET S : plus[T] \in Nat /\ minus[T] \in Nat
  <2>1. ASSUME NEW T \in SUBSET S PROVE UnitCount(pos, T) \in Nat /\ UnitCount(neg, T) \in Nat
    <3>1. Summable(pos, T) /\ Summable(neg, T)
      BY <1>2, SizesGrow
    <3> QED BY <3>1, UnitsAreFinite
  <2> QED BY <2>1
<1> HIDE DEF plus, minus
<1>5. ASSUME NEW T \in SUBSET S
      PROVE  h[T] = IF T = {} THEN 0 ELSE f[Pick(T)] + h[T \ {Pick(T)}]
  <2>1. /\ plus[T] = IF T = {} THEN 0 ELSE pos[Pick(T)] + plus[T \ {Pick(T)}]
        /\ minus[T] = IF T = {} THEN 0 ELSE neg[Pick(T)] + minus[T \ {Pick(T)}]
    BY <1>3, Zenon DEF Table
  <2>2. CASE T = {}
    BY <2>1, <2>2
  <2>3. CASE T # {}
    <3>1. PICK x \in T : x = Pick(T)
      BY <2>3 DEF Pick
    <3>2. PICK R \in SUBSET S : R = T \ {x}
      OBVIOUS
    <3>3. plus[T] = pos[x] + plus[R] /\ minus[T] = neg[x] + minus[R]
      BY <2>1, <2>3, <3>1, <3>2
    <3>4. /\ h[T] = plus[T] - minus[T] /\ h[R] = plus[R] - minus[R]
          /\ plus[R] \in Nat /\ minus[R] \in Nat /\ pos[x] \in Nat /\ neg[x] \in Nat
          /\ f[x] = pos[x] - neg[x]
      BY <1>1, <1>4
    <3> HIDE DEF h
    <3>5. h[T] = f[x] + h[R]
      BY <3>3, <3>4
    <3> QED BY <2>3, <3>1, <3>2, <3>5
  <2> QED BY <2>2, <2>3
<1>6. h = [T \in SUBSET S |-> h[T]] /\ h[S] \in Int
  BY <1>4
<1> HIDE DEF h
<1>7. Table(h, f, S)
  BY <1>5, <1>6 DEF Table
<1> QED BY <1>6, <1>7, SumOfFunction
=============================================================================

----------------------------- MODULE BaseProofs -----------------------------
(***************************************************************************)
(* Facts the proofs of several components rest on: least, greatest and     *)
(* n-th elements of sets of naturals, and the order of watermarks.         *)
(***************************************************************************)
EXTENDS Watermark, Ranks, FiniteSetsExt, FiniteSetTheorems, WellFoundedInduction, TLAPS

-----------------------------------------------------------------------------
(* Least and greatest elements of sets of naturals.                        *)

\* A non-empty set of naturals has a least element.
LEMMA NatMin ==
  ASSUME NEW S \in SUBSET Nat, S # {}
  PROVE  \E x \in S : \A y \in S : x <= y
<1>1. PICK x \in S : \A y \in S : ~ (<<y, x>> \in OpToRel(<, Nat))
  BY NatLessThanWellFounded, WFMin, Zenon
<1>2. OpToRel(<, Nat) = {ss \in Nat \X Nat : ss[1] < ss[2]}
  BY Zenon DEF OpToRel
<1>3. \A y \in S : x <= y
  <2> TAKE y \in S
  <2>1. ~ (<<y, x>> \in {ss \in Nat \X Nat : ss[1] < ss[2]})
    BY <1>1, <1>2, Zenon
  <2> QED BY <2>1
<1> QED BY <1>3

\* Min of a non-empty set of naturals is its least element.
LEMMA MinIsLeast ==
  ASSUME NEW S \in SUBSET Nat, S # {}
  PROVE  Min(S) \in S /\ \A y \in S : Min(S) <= y
BY NatMin DEF Min

\* Max of a non-empty bounded set of naturals is its greatest element.
LEMMA MaxIsGreatest ==
  ASSUME NEW n \in Nat, NEW S \in SUBSET (0..n), S # {}
  PROVE  Max(S) \in S /\ \A y \in S : Max(S) >= y
<1> DEFINE R == {n - x : x \in S}
<1>0. \A x \in S : n - x \in Nat
  OBVIOUS
<1>1. R \in SUBSET Nat /\ R # {}
  BY <1>0
<1>2. PICK r \in R : \A y \in R : r <= y
  BY <1>1, NatMin
<1>3. PICK x \in S : r = n - x
  BY <1>2
<1>4. \A y \in S : x >= y
  <2> TAKE y \in S
  <2>1. n - y \in R
    OBVIOUS
  <2>2. r <= n - y
    BY <2>1, <1>2
  <2> QED BY <2>2, <1>3
<1> QED BY <1>4 DEF Max

-----------------------------------------------------------------------------
(* The n-th element.                                                       *)

\* The n-th smallest element exists: with k elements below it, so does the
\* next lower one.
LEMMA NthElement ==
  ASSUME NEW m \in Nat, NEW S \in SUBSET (0..m)
  PROVE  /\ IsFiniteSet(S) /\ Cardinality(S) \in Nat
         /\ \A n \in 1..Cardinality(S) :
               Nth(S, n) \in S /\ Cardinality({x \in S : x <= Nth(S, n)}) = n
<1> DEFINE c == Cardinality(S)
           Upto(e) == {x \in S : x <= e}
           Missing == {k \in Nat : k < c /\ ~ \E e \in S : Cardinality(Upto(e)) = c - k}
<1>1. IsFiniteSet(S) /\ c \in Nat
  <2>1. IsFiniteSet(0..m)
    BY FS_Interval
  <2> QED BY <2>1, FS_Subset, FS_CardinalityType
<1>2. \A e : Upto(e) \subseteq S /\ IsFiniteSet(Upto(e)) /\ Cardinality(Upto(e)) \in Nat
  <2> TAKE e
  <2>1. Upto(e) \subseteq S
    OBVIOUS
  <2> QED BY <2>1, <1>1, FS_Subset, FS_CardinalityType
<1>3. Missing = {}
  <2> SUFFICES ASSUME Missing # {} PROVE FALSE
    OBVIOUS
  <2>1. PICK k \in Missing : \A y \in Missing : k <= y
    BY NatMin
  <2>2. k \in Nat /\ k < c /\ ~ \E e \in S : Cardinality(Upto(e)) = c - k
    BY <2>1
  <2>3. CASE k = 0
    <3>1. S # {}
      BY <1>1, <2>2, FS_EmptySet
    <3>2. Max(S) \in S /\ \A y \in S : Max(S) >= y
      BY <3>1, MaxIsGreatest
    <3>3. Upto(Max(S)) = S
      BY <3>2
    <3>4. Cardinality(Upto(Max(S))) = c - k
      <4>1. Cardinality(Upto(Max(S))) = c
        BY <3>3, Zenon
      <4> HIDE DEF Upto, c
      <4> QED BY <4>1, <2>3, <1>1
    <3> HIDE DEF Upto, c
    <3> QED BY <2>2, <3>2, <3>4
  <2>4. CASE k # 0
    <3>1. k - 1 \in Nat /\ k - 1 < c /\ k - 1 \notin Missing
      BY <1>1, <2>1, <2>2, <2>4
    <3>2. PICK e \in S : Cardinality(Upto(e)) = c - (k - 1)
      BY <3>1
    <3> DEFINE R == Upto(e) \ {e}
    <3>3. e \in Upto(e)
      OBVIOUS
    <3>4. Cardinality(R) = c - k /\ IsFiniteSet(R)
      <4>1. Cardinality(R) = Cardinality(Upto(e)) - 1 /\ IsFiniteSet(R)
        BY <1>2, <3>3, FS_RemoveElement
      <4> QED BY <4>1, <3>2, <1>1, <2>2
    <3>5. R # {} /\ R \in SUBSET (0..m)
      <4>1. Cardinality(R) # 0
        BY <3>4, <1>1, <2>2
      <4> QED BY <4>1, <3>4, FS_EmptySet
    <3>6. Max(R) \in R /\ \A y \in R : Max(R) >= y
      BY <3>5, MaxIsGreatest
    <3>7. Upto(Max(R)) = R
      <4> DEFINE f == Max(R)
      <4>1. f \in S /\ f <= e /\ f # e /\ \A y \in R : f >= y
        BY <3>6
      <4> HIDE DEF f
      <4>2. \A x \in S : x <= f <=> (x <= e /\ x # e)
        <5> TAKE x \in S
        <5>1. x \in Int /\ e \in Int /\ f \in Int
          BY <4>1
        <5>2. x <= f => x <= e /\ x # e
          BY <4>1, <5>1
        <5>3. x <= e /\ x # e => x \in R
          OBVIOUS
        <5> QED BY <4>1, <5>1, <5>2, <5>3
      <4> QED BY <4>2 DEF f
    <3>8. Max(R) \in S /\ Cardinality(Upto(Max(R))) = c - k
      BY <3>4, <3>6, <3>7
    <3> QED BY <3>8, <2>2
  <2> QED BY <2>3, <2>4
<1>4. ASSUME NEW n \in 1..c PROVE \E e \in S : Cardinality(Upto(e)) = n
  <2>1. c - n \in Nat /\ c - n < c /\ c - (c - n) = n
    BY <1>1
  <2>2. c - n \notin Missing
    BY <1>3
  <2> QED BY <2>1, <2>2
<1> QED BY <1>1, <1>4 DEF Nth

\* It is the only one with n elements up to it.
LEMMA NthUnique ==
  ASSUME NEW m \in Nat, NEW S \in SUBSET (0..m), NEW e \in S, NEW n,
         Cardinality({x \in S : x <= e}) = n
  PROVE  Nth(S, n) = e
<1> DEFINE Upto(f) == {x \in S : x <= f}
<1>1. ASSUME NEW f \in S, NEW g \in S, f < g PROVE Cardinality(Upto(f)) # Cardinality(Upto(g))
  <2>1. IsFiniteSet(S)
    BY NthElement
  <2>2. Upto(g) \subseteq S /\ IsFiniteSet(Upto(g))
    BY <2>1, FS_Subset
  <2>3. Upto(f) \subseteq Upto(g) /\ g \in Upto(g) /\ g \notin Upto(f)
    <3>1. f \in Int /\ g \in Int /\ \A x \in S : x \in Int
      OBVIOUS
    <3>2. \A x \in S : x <= f => x <= g
      BY <1>1, <3>1
    <3>3. g <= g /\ ~(g <= f)
      BY <1>1, <3>1
    <3>4. Upto(f) \subseteq Upto(g)
      BY <3>2
    <3> QED BY <3>3, <3>4
  <2>4. Upto(f) # Upto(g)
    BY <2>3
  <2> HIDE DEF Upto
  <2>5. /\ Cardinality(Upto(f)) <= Cardinality(Upto(g)) /\ IsFiniteSet(Upto(f))
        /\ Cardinality(Upto(f)) = Cardinality(Upto(g)) => Upto(f) = Upto(g)
    BY <2>2, <2>3, FS_Subset
  <2>6. Cardinality(Upto(f)) \in Nat /\ Cardinality(Upto(g)) \in Nat
    BY <2>2, <2>5, FS_CardinalityType
  <2> QED BY <2>4, <2>5
<1>2. ASSUME NEW f \in S, Cardinality(Upto(f)) = n PROVE f = e
  <2>1. f < e \/ e < f \/ f = e
    OBVIOUS
  <2> HIDE DEF Upto
  <2>2. Cardinality(Upto(e)) = n
    BY DEF Upto
  <2> QED BY <1>1, <1>2, <2>1, <2>2
<1>3. Nth(S, n) = CHOOSE f \in S : Cardinality(Upto(f)) = n
  BY DEF Nth
<1> HIDE DEF Upto
<1>4. Cardinality(Upto(e)) = n
  BY DEF Upto
<1> QED BY <1>2, <1>3, <1>4

\* The list is in increasing order and has every element.
LEMMA NthOrder ==
  ASSUME NEW m \in Nat, NEW S \in SUBSET (0..m)
  PROVE  /\ \A i, j \in 1..Cardinality(S) : i < j => Nth(S, i) < Nth(S, j)
         /\ \A e \in S : \E n \in 1..Cardinality(S) : Nth(S, n) = e
<1> DEFINE Upto(e) == {x \in S : x <= e}
<1>1. /\ IsFiniteSet(S) /\ Cardinality(S) \in Nat
      /\ \A n \in 1..Cardinality(S) : Nth(S, n) \in S /\ Cardinality(Upto(Nth(S, n))) = n
  BY NthElement
<1>2. \A e \in S : e \in Int
  OBVIOUS
<1>3. ASSUME NEW e \in S, NEW f \in S, e <= f PROVE Upto(e) \subseteq Upto(f)
  <2>1. e \in Int /\ f \in Int
    BY <1>2
  <2>2. \A x \in S : x <= e => x <= f
    BY <1>2, <1>3, <2>1
  <2> QED BY <2>2
<1>4. \A e \in S : Upto(e) \subseteq S /\ e \in Upto(e)
  BY <1>2
<1> HIDE DEF Upto
<1>5. \A e \in S : IsFiniteSet(Upto(e)) /\ Cardinality(Upto(e)) \in Nat
                   /\ Cardinality(Upto(e)) <= Cardinality(S)
  BY <1>1, <1>4, FS_Subset, FS_CardinalityType
<1>6. ASSUME NEW i \in 1..Cardinality(S), NEW j \in 1..Cardinality(S), i < j
      PROVE  Nth(S, i) < Nth(S, j)
  <2>1. Nth(S, i) \in S /\ Nth(S, j) \in S /\ Nth(S, i) \in Int /\ Nth(S, j) \in Int
    BY <1>1, <1>2
  <2>2. CASE Nth(S, j) <= Nth(S, i)
    <3>1. Upto(Nth(S, j)) \subseteq Upto(Nth(S, i))
      BY <1>3, <2>1, <2>2
    <3>2. Cardinality(Upto(Nth(S, j))) <= Cardinality(Upto(Nth(S, i)))
      BY <1>5, <2>1, <3>1, FS_Subset
    <3> QED BY <1>1, <1>6, <3>2
  <2> QED BY <2>1, <2>2
<1>7. ASSUME NEW e \in S PROVE \E n \in 1..Cardinality(S) : Nth(S, n) = e
  <2> DEFINE n == Cardinality(Upto(e))
  <2>1. Nth(S, n) = e
    BY NthUnique DEF Upto
  <2>2. n # 0
    BY <1>4, <1>5, FS_EmptySet
  <2>3. n \in 1..Cardinality(S)
    BY <1>1, <1>5, <2>2
  <2> QED BY <2>1, <2>3
<1> QED BY <1>6, <1>7

\* Adding a number above all others leaves the list and adds it at the end.
LEMMA NthAdd ==
  ASSUME NEW m \in Nat, NEW S \in SUBSET (0..m), NEW k \in Nat, \A x \in S : x < k
  PROVE  /\ Cardinality(S \cup {k}) = Cardinality(S) + 1
         /\ \A n \in 1..Cardinality(S) : Nth(S \cup {k}, n) = Nth(S, n)
         /\ Nth(S \cup {k}, Cardinality(S) + 1) = k
<1> DEFINE T == S \cup {k}
           l == IF k > m THEN k ELSE m
<1>1. IsFiniteSet(S) /\ Cardinality(S) \in Nat
      /\ \A n \in 1..Cardinality(S) : Nth(S, n) \in S /\ Cardinality({x \in S : x <= Nth(S, n)}) = n
  BY NthElement
<1>2. l \in Nat /\ T \in SUBSET (0..l) /\ k \notin S
  OBVIOUS
<1>3. Cardinality(T) = Cardinality(S) + 1
  <2>1. Cardinality(T) = IF k \in S THEN Cardinality(S) ELSE Cardinality(S) + 1
    BY <1>1, FS_AddElement, Zenon
  <2> QED BY <1>2, <2>1
<1>4. ASSUME NEW n \in 1..Cardinality(S) PROVE Nth(T, n) = Nth(S, n)
  <2> DEFINE e == Nth(S, n)
  <2>1. e \in S /\ e \in T /\ Cardinality({x \in S : x <= e}) = n
    BY <1>1, <1>4
  <2> HIDE DEF e
  <2>2. {x \in T : x <= e} = {x \in S : x <= e}
    <3>1. e < k /\ e \in Nat
      BY <2>1
    <3> QED BY <3>1
  <2>3. Cardinality({x \in T : x <= e}) = n
    BY <2>1, <2>2
  <2> HIDE DEF T, l
  <2>4. Nth(T, n) = e
    BY <1>2, <2>1, <2>3, NthUnique
  <2> QED BY <2>4 DEF e
<1>5. Nth(T, Cardinality(S) + 1) = k
  <2>1. {x \in T : x <= k} = T /\ k \in T
    <3>1. \A x \in T : x <= k
      OBVIOUS
    <3> HIDE DEF l
    <3> QED BY <3>1
  <2>2. Cardinality({x \in T : x <= k}) = Cardinality(S) + 1
    BY <1>3, <2>1
  <2> HIDE DEF T, l
  <2> QED BY <1>2, <2>1, <2>2, NthUnique
<1> QED BY <1>3, <1>4, <1>5

\* The last of the list is the greatest.
LEMMA NthLast ==
  ASSUME NEW m \in Nat, NEW S \in SUBSET (0..m), S # {}
  PROVE  Cardinality(S) \in Nat \ {0} /\ Nth(S, Cardinality(S)) = Max(S)
<1>1. IsFiniteSet(S) /\ Cardinality(S) \in Nat
  BY NthElement
<1>2. Cardinality(S) # 0
  BY <1>1, FS_EmptySet
<1>3. Max(S) \in S /\ {x \in S : x <= Max(S)} = S
  BY MaxIsGreatest
<1>4. Nth(S, Cardinality(S)) = Max(S)
  BY <1>3, NthUnique
<1> QED BY <1>1, <1>2, <1>4

-----------------------------------------------------------------------------
(* The order of watermarks.                                                *)

\* TupleLeq is a partial order, and TupleMax bounds both its arguments.
LEMMA Lexicographic ==
  ASSUME NEW a \in Int \X Int, NEW b \in Int \X Int, NEW c \in Int \X Int
  PROVE  /\ TupleLeq(a, b) /\ TupleLeq(b, c) => TupleLeq(a, c)
         /\ TupleLeq(a, b) /\ TupleLess(b, c) => TupleLess(a, c)
         /\ TupleLeq(a, TupleMax(a, b)) /\ TupleLeq(b, TupleMax(a, b))
<1>1. /\ a = <<a[1], a[2]>> /\ a[1] \in Int /\ a[2] \in Int
      /\ b = <<b[1], b[2]>> /\ b[1] \in Int /\ b[2] \in Int
      /\ c = <<c[1], c[2]>> /\ c[1] \in Int /\ c[2] \in Int
  OBVIOUS
<1>2. TupleLeq(a, b) /\ TupleLeq(b, c) => TupleLeq(a, c)
  BY <1>1 DEF TupleLeq, TupleLess
<1>3. TupleLeq(a, b) /\ TupleLess(b, c) => TupleLess(a, c)
  BY <1>1 DEF TupleLeq, TupleLess
<1>4. TupleLeq(a, TupleMax(a, b)) /\ TupleLeq(b, TupleMax(a, b))
  BY <1>1 DEF TupleLeq, TupleLess, TupleMax
<1> QED BY <1>2, <1>3, <1>4
=============================================================================

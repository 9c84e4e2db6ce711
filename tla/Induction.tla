----------------------------- MODULE Induction ------------------------------
(***************************************************************************)
(* Induction over numbers and over finite sets, stated for sets instead of *)
(* predicates, and what follows for maxima and for folds.  The other proof *)
(* modules use it for what a loop or a recursive function computes.        *)
(***************************************************************************)
EXTENDS FiniteSetsExt, FiniteSetTheorems, WellFoundedInduction, TLAPS

\* A set with 0 and the successor of each of its members has every number.
LEMMA SetInduction ==
  ASSUME NEW T, 0 \in T, \A n \in Nat : n \in T => n + 1 \in T
  PROVE  Nat \subseteq T
<1> DEFINE Out == Nat \ T
<1>1. SUFFICES ASSUME Out # {} PROVE FALSE
  OBVIOUS
<1>2. PICK x \in Out : \A y \in Out : ~(<<y, x>> \in OpToRel(<, Nat))
  <2>1. Out \subseteq Nat /\ Out # {}
    BY <1>1
  <2> HIDE DEF Out
  <2>2. QED
    BY <2>1, WFMin, NatLessThanWellFounded
<1>3. x \in Nat /\ x # 0 /\ x - 1 \in Nat /\ (x - 1) + 1 = x /\ x - 1 < x
  OBVIOUS
<1>4. x - 1 \in Out
  BY <1>3
<1>5. <<x - 1, x>> \in OpToRel(<, Nat)
  BY <1>3 DEF OpToRel
<1>6. QED
  BY <1>2, <1>4, <1>5

\* A set of numbers has a least one.
LEMMA MinOfNumbers ==
  ASSUME NEW S \in SUBSET Nat, S # {}
  PROVE  Min(S) \in S /\ \A y \in S : Min(S) <= y
<1>1. PICK x \in S : \A y \in S : ~(<<y, x>> \in OpToRel(<, Nat))
  BY WFMin, NatLessThanWellFounded
<1>2. ASSUME NEW y \in S
      PROVE  x <= y
  <2>1. x \in Nat /\ y \in Nat
    OBVIOUS
  <2>2. y < x => <<y, x>> \in OpToRel(<, Nat)
    BY <2>1 DEF OpToRel
  <2>3. ~(<<y, x>> \in OpToRel(<, Nat))
    BY <1>1, Zenon
  <2>4. ~(y < x)
    BY <2>2, <2>3, Zenon
  <2>5. QED
    BY <2>1, <2>4
<1>3. QED
  BY <1>2 DEF Min

\* If {} is good and a non-empty part of M is good as soon as it is without one
\* of its elements, the finite set M is good.
LEMMA SubsetInduction ==
  ASSUME NEW M, IsFiniteSet(M), NEW G, {} \in G,
         \A s \in SUBSET M : s # {} => \E x \in s : s \ {x} \in G => s \in G
  PROVE  M \in G
<1> DEFINE T == {n \in Nat : \A s \in SUBSET M : Cardinality(s) = n => s \in G}
<1>1. \A s \in SUBSET M : IsFiniteSet(s) /\ Cardinality(s) \in Nat
  BY FS_Subset, FS_CardinalityType
<1>2. 0 \in T
  <2>1. ASSUME NEW s \in SUBSET M, Cardinality(s) = 0
        PROVE  s = {}
    BY <1>1, <2>1, FS_EmptySet
  <2>2. QED
    BY <2>1
<1>3. ASSUME NEW n \in Nat, n \in T
      PROVE  n + 1 \in T
  <2> SUFFICES ASSUME NEW s \in SUBSET M, Cardinality(s) = n + 1
               PROVE  s \in G
    OBVIOUS
  <2>1. s # {}
    <3>1. n + 1 # 0
      OBVIOUS
    <3>2. s = {} => Cardinality(s) = 0
      BY FS_EmptySet, Zenon
    <3> HIDE DEF T
    <3>3. QED
      BY <3>1, <3>2
  <2>2. PICK x \in s : s \ {x} \in G => s \in G
    BY <2>1
  <2>3. Cardinality(s \ {x}) = n
    <3>1. IsFiniteSet(s)
      BY <1>1
    <3>2. Cardinality(s \ {x}) = Cardinality(s) - 1
      BY <3>1, FS_RemoveElement
    <3>3. QED
      BY <3>2
  <2>4. s \ {x} \in G
    BY <1>3, <2>3
  <2>5. QED
    BY <2>2, <2>4
<1> HIDE DEF T
<1>4. Cardinality(M) \in T
  BY <1>1, <1>2, <1>3, SetInduction
<1>5. QED
  BY <1>4 DEF T

\* A non-empty finite set of numbers has a largest one.
LEMMA MaxOfFinite ==
  ASSUME NEW S \in SUBSET Nat, IsFiniteSet(S), S # {}
  PROVE  Max(S) \in S /\ \A y \in S : Max(S) >= y
<1> DEFINE HasMax(s) == \E x \in s : \A y \in s : x >= y
           G == {s \in SUBSET S : s = {} \/ HasMax(s)}
<1>1. ASSUME NEW s \in SUBSET S, NEW x \in s, s \ {x} \in G
      PROVE  s \in G
  <2> DEFINE t == s \ {x}
  <2>1. s = t \cup {x} /\ x \in Nat /\ t \subseteq Nat /\ (t = {} \/ HasMax(t))
    BY <1>1
  <2> HIDE DEF t
  <2>2. CASE t = {}
    BY <2>1, <2>2
  <2>3. CASE HasMax(t)
    <3>1. PICK u \in t : \A y \in t : u >= y
      BY <2>3
    <3>2. CASE u >= x
      BY <2>1, <3>1, <3>2
    <3>3. CASE x > u
      <4>1. \A y \in s : x >= y
        BY <2>1, <3>1, <3>3
      <4>2. QED
        BY <2>1, <4>1
    <3>4. QED
      BY <2>1, <3>1, <3>2, <3>3
  <2>4. QED
    BY <2>1, <2>2, <2>3
<1>2. \A s \in SUBSET S : s # {} => \E x \in s : s \ {x} \in G => s \in G
  <2> HIDE DEF G
  <2>1. QED
    BY <1>1
<1>3. {} \in G
  OBVIOUS
<1>4. S \in G
  <2> HIDE DEF G
  <2>1. QED
    BY <1>2, <1>3, SubsetInduction
<1>5. PICK x \in S : \A y \in S : x >= y
  BY <1>4
<1>6. QED
  BY <1>5 DEF Max

\* The larger and the smaller of two numbers.
LEMMA MaxMinOfTwo ==
  ASSUME NEW a \in Int, NEW b \in Int
  PROVE  /\ Max({a, b}) = IF a >= b THEN a ELSE b
         /\ Min({a, b}) = IF a <= b THEN a ELSE b
  BY DEF Max, Min

\* el names an element of every non-empty part of M.
Names(M, el) == \A s \in SUBSET M : s # {} => el[s] \in s

\* f folds every part of M: it takes out the element that el names and combines
\* it with the fold of what is left.
IsFoldOver(M, base, el, op, f) ==
  \A s \in SUBSET M : f[s] = IF s = {} THEN base ELSE op[<<el[s], f[s \ {el[s]}]>>]

\* A fold over a finite set exists.
LEMMA FoldExists ==
  ASSUME NEW M, IsFiniteSet(M), NEW R, NEW base \in R,
         NEW el, Names(M, el),
         NEW op \in [M \X R -> R]
  PROVE  \E f \in [SUBSET M -> R] : IsFoldOver(M, base, el, op, f)
<1> DEFINE D(n) == {s \in SUBSET M : Cardinality(s) <= n}
           IsFold(n, f) == \A s \in D(n) :
             f[s] = IF s = {} THEN base ELSE op[<<el[s], f[s \ {el[s]}]>>]
           T == {n \in Nat : \E f \in [D(n) -> R] : IsFold(n, f)}
<1>1. \A s \in SUBSET M : IsFiniteSet(s) /\ Cardinality(s) \in Nat
  BY FS_Subset, FS_CardinalityType
<1>2. 0 \in T
  <2> DEFINE f == [s \in D(0) |-> base]
  <2>1. ASSUME NEW s \in D(0)
        PROVE  s = {}
    <3>1. IsFiniteSet(s) /\ Cardinality(s) = 0
      BY <1>1
    <3>2. QED
      BY <3>1, FS_EmptySet
  <2>2. f \in [D(0) -> R] /\ IsFold(0, f)
    BY <2>1
  <2> HIDE DEF D
  <2>3. QED
    BY <2>2
<1>3. ASSUME NEW n \in Nat, n \in T
      PROVE  n + 1 \in T
  <2>1. PICK g \in [D(n) -> R] : IsFold(n, g)
    <3> HIDE DEF D
    <3>1. QED
      BY <1>3
  <2> DEFINE h == [s \in D(n + 1) |->
                     IF s = {} THEN base ELSE op[<<el[s], g[s \ {el[s]}]>>]]
  <2>2. ASSUME NEW s \in D(n + 1), s # {}
        PROVE  el[s] \in M /\ s \ {el[s]} \in D(n) /\ s \ {el[s]} \in D(n + 1)
    <3>1. el[s] \in s
      BY <2>2 DEF Names
    <3>2. Cardinality(s \ {el[s]}) = Cardinality(s) - 1
      BY <1>1, <3>1, FS_RemoveElement
    <3>3. QED
      BY <1>1, <3>1, <3>2
  <2>3. D(n) \subseteq D(n + 1)
    BY <1>1
  <2> HIDE DEF D
  <2>4. h \in [D(n + 1) -> R]
    <3>1. ASSUME NEW s \in D(n + 1), s # {}
          PROVE  op[<<el[s], g[s \ {el[s]}]>>] \in R
      BY <2>2, <3>1
    <3>2. QED
      BY <3>1
  <2>5. \A s \in D(n) : h[s] = g[s]
    BY <2>1, <2>3
  <2>6. IsFold(n + 1, h)
    <3> SUFFICES ASSUME NEW s \in D(n + 1)
                 PROVE  h[s] = IF s = {} THEN base ELSE op[<<el[s], h[s \ {el[s]}]>>]
      OBVIOUS
    <3>1. h[s] = IF s = {} THEN base ELSE op[<<el[s], g[s \ {el[s]}]>>]
      OBVIOUS
    <3> HIDE DEF h
    <3>2. QED
      BY <2>2, <2>5, <3>1
  <2> HIDE DEF h
  <2>7. \E f \in [D(n + 1) -> R] : IsFold(n + 1, f)
    <3> HIDE DEF IsFold
    <3>1. QED
      BY <2>4, <2>6
  <2>8. n + 1 \in Nat
    OBVIOUS
  <2> HIDE DEF IsFold
  <2>9. QED
    BY <2>7, <2>8
<1>4. Cardinality(M) \in T
  <2> HIDE DEF T
  <2>1. QED
    BY <1>1, <1>2, <1>3, SetInduction
<1>5. D(Cardinality(M)) = SUBSET M
  <2>1. \A s \in SUBSET M : Cardinality(s) <= Cardinality(M)
    BY FS_Subset
  <2>2. QED
    BY <1>1, <2>1
<1> HIDE DEF D
<1>6. QED
  BY <1>4, <1>5 DEF IsFoldOver

\* f and g agree on {} and, if they do on s without its named element, on s.
FoldAlike(M, el, f, g) ==
  /\ f[{}] = g[{}]
  /\ \A s \in SUBSET M : s # {} /\ f[s \ {el[s]}] = g[s \ {el[s]}] => f[s] = g[s]

\* A fold is unique.
LEMMA FoldUnique ==
  ASSUME NEW M, IsFiniteSet(M), NEW el, Names(M, el), NEW f, NEW g, FoldAlike(M, el, f, g)
  PROVE  f[M] = g[M]
<1> DEFINE G == {s \in SUBSET M : f[s] = g[s]}
<1>1. {} \in G
  BY DEF FoldAlike
<1>2. ASSUME NEW s \in SUBSET M, s # {}
      PROVE  \E x \in s : s \ {x} \in G => s \in G
  <2>1. el[s] \in s
    BY <1>2 DEF Names
  <2>2. s \ {el[s]} \in G => s \in G
    BY <1>2 DEF FoldAlike
  <2> HIDE DEF G
  <2>3. QED
    BY <2>1, <2>2
<1>3. M \in G
  <2> HIDE DEF G
  <2>1. QED
    BY <1>1, <1>2, SubsetInduction
<1>4. QED
  BY <1>3

=============================================================================

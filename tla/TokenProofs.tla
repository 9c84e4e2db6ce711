---------------------------- MODULE TokenProofs -----------------------------
(***************************************************************************)
(* The token counter, for any response, any length of the tail and any way *)
(* of cutting the response into reads.                                     *)
(***************************************************************************)
EXTENDS TokenCounter, SequenceTheorems, Induction

-----------------------------------------------------------------------------
(***************************************************************************)
(* What is kept of a text.                                                 *)
(***************************************************************************)
Text == Seq(Symbol)

\* The newlines of a text are a number.
LEMMA NewlinesNumber ==
  ASSUME NEW s \in Text
  PROVE  /\ IsFiniteSet({i \in 1 .. Len(s) : s[i] = "nl"})
         /\ Newlines(s) \in Nat
<1> DEFINE I == {i \in 1 .. Len(s) : s[i] = "nl"}
<1>1. Len(s) \in Nat
  BY LenProperties DEF Text
<1>2. IsFiniteSet(1 .. Len(s))
  BY <1>1, FS_Interval
<1>3. IsFiniteSet(I)
  BY <1>2, FS_Subset
<1>4. QED
  BY <1>3, FS_CardinalityType DEF Newlines

\* The newlines of two texts add up.
LEMMA NewlinesAdd ==
  ASSUME NEW p \in Text, NEW b \in Text
  PROVE  Newlines(p \o b) = Newlines(p) + Newlines(b)
<1> DEFINE N(s) == {i \in 1 .. Len(s) : s[i] = "nl"}
           J == {i + Len(p) : i \in N(b)}
           f == [i \in N(b) |-> i + Len(p)]
<1>1. /\ Len(p) \in Nat /\ Len(b) \in Nat
      /\ p \o b \in Text
      /\ Len(p \o b) = Len(p) + Len(b)
      /\ \A i \in 1 .. Len(p) + Len(b) :
           (p \o b)[i] = IF i <= Len(p) THEN p[i] ELSE b[i - Len(p)]
  BY LenProperties, ConcatProperties DEF Text
<1>2. IsFiniteSet(N(p)) /\ IsFiniteSet(N(b))
  BY NewlinesNumber
<1>3. IsFiniteSet(J) /\ Cardinality(J) = Cardinality(N(b))
  <2>1. \A i \in N(b) : i \in Nat
    BY <1>1
  <2> HIDE DEF N
  <2>2. f \in Bijection(N(b), J)
    BY <1>1, <2>1 DEF Bijection, Injection, Surjection, IsInjective
  <2>3. ExistsBijection(N(b), J)
    BY <2>2 DEF ExistsBijection
  <2> HIDE DEF J
  <2>4. QED
    BY <1>2, <2>3, FS_Bijection
<1>4. N(p \o b) = N(p) \cup J
  <2>1. N(p \o b) \subseteq N(p) \cup J
    <3> SUFFICES ASSUME NEW i \in N(p \o b)
                 PROVE  i \in N(p) \cup J
      OBVIOUS
    <3>1. i \in Nat /\ i \in 1 .. Len(p) + Len(b) /\ (p \o b)[i] = "nl"
      BY <1>1
    <3>2. CASE i <= Len(p)
      BY <1>1, <3>1, <3>2
    <3>3. CASE i > Len(p)
      <4>1. i - Len(p) \in N(b) /\ i = (i - Len(p)) + Len(p)
        BY <1>1, <3>1, <3>3
      <4>2. QED
        BY <4>1
    <3>4. QED
      BY <1>1, <3>1, <3>2, <3>3
  <2>2. N(p) \subseteq N(p \o b)
    BY <1>1
  <2>3. J \subseteq N(p \o b)
    <3> SUFFICES ASSUME NEW i \in N(b)
                 PROVE  i + Len(p) \in N(p \o b)
      OBVIOUS
    <3>1. /\ i \in Nat /\ i + Len(p) \in 1 .. Len(p) + Len(b)
          /\ ~(i + Len(p) <= Len(p)) /\ (i + Len(p)) - Len(p) = i
      BY <1>1
    <3>2. QED
      BY <1>1, <3>1
  <2>4. QED
    BY <2>1, <2>2, <2>3
<1>5. N(p) \cap J = {}
  <2>1. \A i \in N(p) : i \in Nat /\ i <= Len(p)
    BY <1>1
  <2>2. \A i \in N(b) : i \in Nat /\ i + Len(p) > Len(p)
    BY <1>1
  <2> HIDE DEF N
  <2>3. QED
    BY <1>1, <2>1, <2>2
<1> HIDE DEF N, J
<1>6. Cardinality(N(p \o b)) = Cardinality(N(p)) + Cardinality(J)
  <2>1. Cardinality(N(p) \cup J)
          = Cardinality(N(p)) + Cardinality(J) - Cardinality(N(p) \cap J)
    BY <1>2, <1>3, FS_Union
  <2>2. Cardinality(N(p)) \in Nat /\ Cardinality(J) \in Nat
    BY <1>2, <1>3, FS_CardinalityType
  <2>3. Cardinality(N(p) \cap J) = 0
    BY <1>5, FS_EmptySet
  <2>4. QED
    BY <1>4, <2>1, <2>2, <2>3
<1>7. QED
  BY <1>3, <1>6 DEF N, Newlines

\* The end of a text that the counter keeps.
Suffix(s) == IF Len(s) > tokenTailMax THEN SubSeq(s, Len(s) - tokenTailMax + 1, Len(s)) ELSE s

\* What it consists of.
LEMMA SuffixIs ==
  ASSUME NEW s \in Text
  PROVE  /\ Suffix(s) \in Text
         /\ Len(s) \in Nat
         /\ Len(Suffix(s)) = IF Len(s) > tokenTailMax THEN tokenTailMax ELSE Len(s)
         /\ \A i \in 1 .. Len(Suffix(s)) : Suffix(s)[i] = s[Len(s) - Len(Suffix(s)) + i]
<1>1. Len(s) \in Nat /\ \A i \in 1 .. Len(s) : s[i] \in Symbol
  BY LenProperties, ElementOfSeq DEF Text
<1>2. CASE Len(s) > tokenTailMax
  <2> DEFINE m == Len(s) - tokenTailMax + 1
             n == Len(s)
  <2>1. m \in Int /\ n \in Int /\ m >= 1 /\ n - m + 1 = tokenTailMax /\ tokenTailMax \in Nat
    BY <1>1, <1>2, BodiesAssumption
  <2>2. \A i \in m .. n : s[i] \in Symbol
    BY <1>1, <2>1
  <2>3. Suffix(s) = SubSeq(s, m, n)
    BY <1>2 DEF Suffix
  <2> HIDE DEF m, n
  <2>4. /\ SubSeq(s, m, n) \in Seq(Symbol)
        /\ Len(SubSeq(s, m, n)) = IF m <= n THEN n - m + 1 ELSE 0
        /\ \A i \in 1 .. n - m + 1 : SubSeq(s, m, n)[i] = s[m + i - 1]
    BY <2>1, <2>2, SubSeqProperties
  <2>5. Len(Suffix(s)) = tokenTailMax
    BY <2>1, <2>3, <2>4
  <2>6. ASSUME NEW i \in 1 .. tokenTailMax
        PROVE  Suffix(s)[i] = s[Len(s) - tokenTailMax + i]
    <3>1. m + i - 1 = Len(s) - tokenTailMax + i
      BY <1>1, <2>1 DEF m
    <3>2. QED
      BY <2>1, <2>3, <2>4, <3>1
  <2>7. QED
    BY <1>1, <1>2, <2>3, <2>4, <2>5, <2>6 DEF Text
<1>3. CASE ~(Len(s) > tokenTailMax)
  <2>1. Suffix(s) = s
    BY <1>3 DEF Suffix
  <2>2. \A i \in 1 .. Len(s) : Len(s) - Len(s) + i = i
    BY <1>1
  <2>3. QED
    BY <1>1, <1>3, <2>1, <2>2
<1>4. QED
  BY <1>2, <1>3

\* The end of a text and another chunk is that of its end and the chunk: what
\* the tail has lost, it would not keep.
LEMMA SuffixConcat ==
  ASSUME NEW p \in Text, NEW b \in Text
  PROVE  Suffix(Suffix(p) \o b) = Suffix(p \o b)
<1> DEFINE q == Suffix(p)
           u == q \o b
           v == p \o b
           d == Len(p) - Len(q)
<1>1. /\ q \in Text /\ Len(p) \in Nat /\ Len(b) \in Nat /\ tokenTailMax \in Nat
      /\ Len(q) = IF Len(p) > tokenTailMax THEN tokenTailMax ELSE Len(p)
      /\ \A i \in 1 .. Len(q) : q[i] = p[d + i]
  BY SuffixIs, BodiesAssumption
<1> HIDE DEF q
<1>2. /\ u \in Text /\ Len(u) = Len(q) + Len(b)
      /\ \A i \in 1 .. Len(q) + Len(b) : u[i] = IF i <= Len(q) THEN q[i] ELSE b[i - Len(q)]
  BY <1>1, ConcatProperties DEF Text
<1>3. /\ v \in Text /\ Len(v) = Len(p) + Len(b)
      /\ \A i \in 1 .. Len(p) + Len(b) : v[i] = IF i <= Len(p) THEN p[i] ELSE b[i - Len(p)]
  BY ConcatProperties DEF Text
<1> HIDE DEF u, v
<1>4. /\ Suffix(u) \in Text
      /\ Len(Suffix(u)) = IF Len(u) > tokenTailMax THEN tokenTailMax ELSE Len(u)
      /\ \A i \in 1 .. Len(Suffix(u)) : Suffix(u)[i] = u[Len(u) - Len(Suffix(u)) + i]
  BY <1>2, SuffixIs
<1>5. /\ Suffix(v) \in Text
      /\ Len(Suffix(v)) = IF Len(v) > tokenTailMax THEN tokenTailMax ELSE Len(v)
      /\ \A i \in 1 .. Len(Suffix(v)) : Suffix(v)[i] = v[Len(v) - Len(Suffix(v)) + i]
  BY <1>3, SuffixIs
<1>6. Len(Suffix(u)) = Len(Suffix(v))
  BY <1>1, <1>2, <1>3, <1>4, <1>5
<1>7. ASSUME NEW i \in 1 .. Len(Suffix(u))
      PROVE  Suffix(u)[i] = Suffix(v)[i]
  <2> DEFINE j == Len(u) - Len(Suffix(u)) + i
             k == Len(v) - Len(Suffix(v)) + i
  <2>1. /\ j \in 1 .. Len(q) + Len(b) /\ k \in 1 .. Len(p) + Len(b)
        /\ k = d + j /\ d \in Nat /\ j \in Nat
        /\ Len(p) = d + Len(q) /\ Len(q) \in Nat
    <3>1. Len(q) \in Nat /\ d \in Nat /\ Len(p) = d + Len(q)
      BY <1>1
    <3>2. Len(u) \in Nat /\ Len(v) \in Nat /\ Len(v) = d + Len(u)
      <4>1. Len(b) \in Nat /\ Len(u) = Len(q) + Len(b) /\ Len(v) = Len(p) + Len(b)
        BY <1>1, <1>2, <1>3
      <4> HIDE DEF d
      <4>2. QED
        BY <3>1, <4>1
    <3>3. Len(Suffix(u)) \in Nat /\ Len(Suffix(u)) <= Len(u)
      BY <1>1, <1>4, <3>2
    <3>4. i \in Nat /\ 1 <= i /\ i <= Len(Suffix(u))
      BY <3>3
    <3> HIDE DEF d
    <3>5. j \in Nat /\ 1 <= j /\ j <= Len(u) /\ k = d + j
      BY <1>6, <3>1, <3>2, <3>3, <3>4
    <3>6. QED
      BY <1>1, <1>2, <1>3, <3>1, <3>2, <3>5
  <2>2. Suffix(u)[i] = u[j] /\ Suffix(v)[i] = v[k]
    BY <1>4, <1>5, <1>6
  <2> HIDE DEF j, k, d
  <2>3. CASE j <= Len(q)
    <3>1. u[j] = p[d + j]
      BY <1>1, <1>2, <2>1, <2>3
    <3>2. v[k] = p[k]
      <4>1. k <= Len(p)
        BY <2>1, <2>3
      <4>2. QED
        BY <1>3, <2>1, <4>1
    <3>3. QED
      BY <2>1, <2>2, <3>1, <3>2
  <2>4. CASE j > Len(q)
    <3>1. u[j] = b[j - Len(q)]
      BY <1>1, <1>2, <2>1, <2>4
    <3>2. v[k] = b[k - Len(p)]
      <4>1. ~(k <= Len(p))
        BY <2>1, <2>4
      <4>2. QED
        BY <1>3, <2>1, <4>1
    <3>3. k - Len(p) = j - Len(q)
      BY <2>1, <1>1
    <3>4. QED
      BY <2>2, <3>1, <3>2, <3>3
  <2>5. QED
    BY <2>1, <2>3, <2>4
<1>8. Suffix(u) = Suffix(v)
  BY <1>4, <1>5, <1>6, <1>7, SeqEqual DEF Text
<1>9. QED
  BY <1>8 DEF u, v, q

\* keepTail keeps the end of the text.
LEMMA KeepTailIs ==
  ASSUME NEW p \in Text, NEW b \in Text
  PROVE  /\ keepTail(<<>>, b) = Suffix(b)
         /\ keepTail(Suffix(p), b) = Suffix(p \o b)
<1>1. <<>> \o b = b
  BY ConcatEmptySeq DEF Text
<1>2. keepTail(<<>>, b) = Suffix(b)
  BY <1>1 DEF keepTail, Suffix
<1>3. keepTail(Suffix(p), b) = Suffix(Suffix(p) \o b)
  BY DEF keepTail, Suffix
<1>4. QED
  BY <1>2, <1>3, SuffixConcat

\* A text with an event prefix in one of its parts has it.
LEMMA HasDataPart ==
  ASSUME NEW p \in Text, NEW b \in Text
  PROVE  HasData(p) \/ HasData(b) => HasData(p \o b)
<1>1. /\ Len(p) \in Nat /\ Len(b) \in Nat
      /\ Len(p \o b) = Len(p) + Len(b)
      /\ \A i \in 1 .. Len(p) + Len(b) :
           (p \o b)[i] = IF i <= Len(p) THEN p[i] ELSE b[i - Len(p)]
  BY LenProperties, ConcatProperties DEF Text
<1>2. ASSUME HasData(p)
      PROVE  HasData(p \o b)
  <2>1. PICK i \in 1 .. Len(p) - 1 : p[i] = "data" /\ p[i + 1] = ":"
    BY <1>2 DEF HasData
  <2>2. /\ i \in 1 .. Len(p \o b) - 1
        /\ (p \o b)[i] = "data" /\ (p \o b)[i + 1] = ":"
    BY <1>1, <2>1
  <2>3. QED
    BY <2>2 DEF HasData
<1>3. ASSUME HasData(b)
      PROVE  HasData(p \o b)
  <2>1. PICK i \in 1 .. Len(b) - 1 : b[i] = "data" /\ b[i + 1] = ":"
    BY <1>3 DEF HasData
  <2> DEFINE j == i + Len(p)
  <2>2. /\ j \in 1 .. Len(p) + Len(b) - 1 /\ j \in 1 .. Len(p) + Len(b)
        /\ j + 1 \in 1 .. Len(p) + Len(b)
        /\ ~(j <= Len(p)) /\ ~(j + 1 <= Len(p))
        /\ j - Len(p) = i /\ (j + 1) - Len(p) = i + 1
    BY <1>1
  <2> HIDE DEF j
  <2>3. (p \o b)[j] = "data" /\ (p \o b)[j + 1] = ":"
    BY <1>1, <2>1, <2>2
  <2>4. QED
    BY <1>1, <2>2, <2>3 DEF HasData
<1>4. QED
  BY <1>2, <1>3

-----------------------------------------------------------------------------
(***************************************************************************)
(* The integer after a key.                                                *)
(***************************************************************************)

\* A digit has a value.
LEMMA DigitNumber ==
  ASSUME NEW s \in ToSet(Digit)
  PROVE  digitValue(s) \in Nat
<1>1. DOMAIN Digit = 1 .. 10
  BY DEF Digit
<1>2. PICK i \in 1 .. 10 : s = Digit[i]
  BY <1>1 DEF ToSet
<1>3. i - 1 \in 0 .. 9 /\ (i - 1) + 1 = i
  OBVIOUS
<1>4. \E n \in 0 .. 9 : Digit[n + 1] = s
  BY <1>2, <1>3
<1>5. digitValue(s) \in 0 .. 9
  BY <1>4, Zenon DEF digitValue
<1>6. QED
  BY <1>5

\* What a row of digits stands for.
Decimal(q) == FoldLeft(LAMBDA n, s : 10 * n + digitValue(s), 0, q)

\* It is a number: the recursive function of the fold is defined and unique.
LEMMA DecimalNumber ==
  ASSUME NEW q \in Seq(ToSet(Digit))
  PROVE  Decimal(q) \in Nat
<1> DEFINE M == DOMAIN q
           Next(f, s) == 10 * f[s \ {Max(s)}] + digitValue(q[Max(s)])
           IsDecimal(f) == f = [s \in SUBSET M |-> IF s = {} THEN 0 ELSE Next(f, s)]
           dec == CHOOSE f : IsDecimal(f)
           el == [s \in SUBSET M |-> Max(s)]
           op == [p \in M \X Nat |-> 10 * p[2] + digitValue(q[p[1]])]
<1>1. /\ M = 1 .. Len(q) /\ Len(q) \in Nat
      /\ \A i \in M : digitValue(q[i]) \in Nat
  <2>1. M = 1 .. Len(q) /\ Len(q) \in Nat /\ q \in [1 .. Len(q) -> ToSet(Digit)]
    BY LenProperties
  <2>2. QED
    BY <2>1, DigitNumber
<1>2. IsFiniteSet(M)
  BY <1>1, FS_Interval
<1>3. ASSUME NEW s \in SUBSET M, s # {}
      PROVE  Max(s) \in s
  <2>1. s \in SUBSET Nat
    BY <1>1
  <2>2. IsFiniteSet(s)
    BY <1>2, FS_Subset
  <2>3. QED
    BY <1>3, <2>1, <2>2, MaxOfFinite
<1> HIDE DEF M
<1>4. Names(M, el) /\ op \in [M \X Nat -> Nat]
  <2>1. Names(M, el)
    BY <1>3 DEF Names
  <2>2. op \in [M \X Nat -> Nat]
    BY <1>1
  <2>3. QED
    BY <2>1, <2>2
<1>5. PICK g \in [SUBSET M -> Nat] : IsFoldOver(M, 0, el, op, g)
  <2> HIDE DEF el, op
  <2>1. QED
    BY <1>2, <1>4, FoldExists
<1>6. ASSUME NEW s \in SUBSET M
      PROVE  g[s] = IF s = {} THEN 0 ELSE Next(g, s)
  <2>1. CASE s = {}
    BY <1>5, <2>1 DEF IsFoldOver
  <2>2. CASE s # {}
    <3>1. Max(s) \in M /\ g[s \ {Max(s)}] \in Nat
      BY <1>3, <2>2
    <3>2. g[s] = op[<<el[s], g[s \ {el[s]}]>>]
      <4> HIDE DEF el, op
      <4>1. QED
        BY <1>5, <2>2 DEF IsFoldOver
    <3>3. QED
      BY <2>2, <3>1, <3>2
  <2>3. QED
    BY <2>1, <2>2
<1>7. IsDecimal(g)
  BY <1>6
<1>8. IsDecimal(dec)
  BY <1>7
<1> HIDE DEF dec
<1>9. ASSUME NEW s \in SUBSET M
      PROVE  dec[s] = IF s = {} THEN 0 ELSE Next(dec, s)
  <2> DEFINE h == [t \in SUBSET M |-> IF t = {} THEN 0 ELSE Next(dec, t)]
  <2>1. dec = h
    BY <1>8
  <2>2. h[s] = IF s = {} THEN 0 ELSE Next(dec, s)
    OBVIOUS
  <2> HIDE DEF h
  <2>3. QED
    BY <2>1, <2>2
<1>10. dec[M] = g[M]
  <2>1. dec[{}] = g[{}]
    BY <1>6, <1>9
  <2>2. \A s \in SUBSET M :
          s # {} /\ dec[s \ {el[s]}] = g[s \ {el[s]}] => dec[s] = g[s]
    BY <1>6, <1>9
  <2> HIDE DEF el, op
  <2>3. Names(M, el)
    BY <1>4
  <2>4. FoldAlike(M, el, dec, g)
    BY <2>1, <2>2 DEF FoldAlike
  <2>5. QED
    BY <1>2, <2>3, <2>4, FoldUnique
<1>11. dec[M] \in Nat
  BY <1>10
<1>12. QED
  BY <1>11 DEF dec, M, Decimal, FoldLeft, MapThenFoldSet

\* jsonIntField answers a number, or -1.
LEMMA FieldNumber ==
  ASSUME NEW b \in Text, NEW key
  PROVE  jsonIntField(b, key) \in Nat \cup {-1}
<1> DEFINE I == {i \in 1 .. Len(b) : b[i] = key}
           i == LastIndex(b, key)
           Out == Len(b) + 1
           S == {k \in i + 1 .. Out : k = Out \/ b[k] # "sep"}
           start == Min(S)
           E == {k \in start .. Out : k = Out \/ b[k] \notin ToSet(Digit)}
           end == Min(E)
           q == SubSeq(b, start, end - 1)
<1>1. Len(b) \in Nat /\ \A k \in 1 .. Len(b) : b[k] \in Symbol
  BY LenProperties, ElementOfSeq DEF Text
<1>2. i \in 0 .. Len(b)
  <2>1. i = IF I # {} THEN Max(I) ELSE 0
    BY DEF LastIndex, SelectLastInSeq
  <2>2. IsFiniteSet(I)
    <3>1. IsFiniteSet(1 .. Len(b))
      BY <1>1, FS_Interval
    <3>2. QED
      BY <3>1, FS_Subset
  <2>3. I \in SUBSET Nat
    BY <1>1
  <2>4. I # {} => Max(I) \in I
    <3> HIDE DEF I
    <3>1. QED
      BY <2>2, <2>3, MaxOfFinite
  <2>5. QED
    BY <1>1, <2>1, <2>4
<1> HIDE DEF i
<1>3. start \in i + 1 .. Out
  <2>1. S \in SUBSET Nat /\ Out \in S
    BY <1>1, <1>2
  <2>2. S # {} /\ Min(S) \in S
    <3> HIDE DEF S
    <3>1. QED
      BY <2>1, MinOfNumbers
  <2>3. QED
    BY <2>2
<1> HIDE DEF start
<1>4. end \in start .. Out /\ \A k \in E : end <= k
  <2>1. E \in SUBSET Nat /\ Out \in E
    BY <1>1, <1>2, <1>3
  <2>2. Min(E) \in E /\ \A k \in E : Min(E) <= k
    <3> HIDE DEF E
    <3>1. QED
      BY <2>1, MinOfNumbers
  <2>3. QED
    BY <2>2
<1> HIDE DEF end
<1>5. ASSUME NEW k \in start .. end - 1
      PROVE  b[k] \in ToSet(Digit)
  <2>1. k \in start .. Out /\ ~(end <= k) /\ k # Out
    BY <1>1, <1>2, <1>3, <1>4
  <2>2. QED
    BY <1>4, <2>1
<1>6. q \in Seq(ToSet(Digit))
  <2>1. start \in Int /\ end - 1 \in Int
    BY <1>1, <1>2, <1>3, <1>4
  <2>2. QED
    BY <1>5, <2>1, SubSeqProperties
<1>7. Decimal(q) \in Nat
  <2> HIDE DEF q
  <2>1. QED
    BY <1>6, DecimalNumber
<1>8. jsonIntField(b, key) =
        IF i = 0 \/ end = start \/ Decimal(q) > MaxInt THEN -1 ELSE Decimal(q)
  BY DEF jsonIntField, Decimal, i, start, end
<1>9. QED
  BY <1>7, <1>8

-----------------------------------------------------------------------------
(***************************************************************************)
(* The counter while the response streams.                                 *)
(***************************************************************************)
Seen == SubSeq(body.text, 1, pos)

\* The inductive invariant: the counter depends on what has been read and not
\* on the reads, but for an event prefix that one of them split.
TInv ==
  /\ body \in Bodies
  /\ pos \in 0 .. Len(body.text)
  /\ tc.newlines = Newlines(Seen)
  /\ tc.tail = Suffix(Seen)
  /\ tc.sse \in BOOLEAN
  /\ tc.sse => HasData(Seen)
  /\ ~Streaming => \E w \in Windows : res = result(tc, w)

\* A part of a response is a text.
LEMMA PartIsText ==
  ASSUME NEW t \in Text, NEW m \in Nat \ {0}, NEW n \in 0 .. Len(t)
  PROVE  SubSeq(t, m, n) \in Text
<1>1. Len(t) \in Nat /\ \A i \in 1 .. Len(t) : t[i] \in Symbol
  BY LenProperties, ElementOfSeq DEF Text
<1>2. m \in Int /\ n \in Int /\ \A i \in m .. n : t[i] \in Symbol
  BY <1>1
<1>3. QED
  BY <1>2, SubSeqProperties DEF Text

\* Nothing has been read at first.
LEMMA TInitInv == ASSUME TInit PROVE TInv
<1>1. body.text \in Text /\ Len(body.text) \in Nat
  BY BodiesAssumption, LenProperties DEF TInit, Text
<1>2. Seen = <<>>
  BY SubSeqEmpty DEF Seen, TInit
<1>3. Newlines(<<>>) = 0
  <2>1. {i \in 1 .. Len(<<>>) : <<>>[i] = "nl"} = {}
    BY EmptySeq
  <2>2. QED
    BY <2>1, FS_EmptySet DEF Newlines
<1>4. Suffix(<<>>) = <<>>
  BY BodiesAssumption, EmptySeq DEF Suffix
<1>5. Streaming
  BY DEF TInit, Streaming
<1>6. QED
  BY <1>1, <1>2, <1>3, <1>4, <1>5 DEF TInit, TInv, NewCounter

\* A read extends what has been seen.
LEMMA ReadInv ==
  ASSUME TInv, NEW n \in 1 .. BufMax, Read(n)
  PROVE  TInv'
<1> DEFINE t == body.text
           b == SubSeq(t, pos + 1, pos + n)
<1>1. /\ body' = body /\ pos' = pos + n
      /\ tc' = observe(tc, b)
      /\ pos + n <= Len(t)
  BY DEF Read
<1>2. t \in Text /\ Len(t) \in Nat /\ n \in Nat /\ pos \in Nat
  BY BodiesAssumption, LenProperties DEF TInv, Text
<1>3. Seen \in Text /\ b \in Text
  <2>1. pos \in 0 .. Len(t) /\ pos + n \in 0 .. Len(t) /\ pos + 1 \in Nat \ {0} /\ 1 \in Nat \ {0}
    BY <1>1, <1>2 DEF TInv
  <2> HIDE DEF t
  <2>2. SubSeq(t, 1, pos) \in Text /\ SubSeq(t, pos + 1, pos + n) \in Text
    BY <1>2, <2>1, PartIsText
  <2>3. QED
    BY <2>2 DEF Seen, t
<1>4. Seen' = Seen \o b
  <2>1. SubSeq(t, 1, pos) \o SubSeq(t, pos + 1, pos + n) = SubSeq(t, 1, pos + n)
    <3>1. 1 \in 1 .. Len(t) + 1 /\ pos \in 1 - 1 .. Len(t) /\ pos + n \in pos .. Len(t)
      BY <1>1, <1>2
    <3> HIDE DEF t
    <3>2. QED
      BY <1>2, <3>1, ConcatAdjacentSubSeq DEF Text
  <2>2. QED
    BY <1>1, <2>1 DEF Seen
<1> HIDE DEF b
<1>5. /\ tc'.newlines = tc.newlines + Newlines(b)
      /\ tc'.sse = (tc.sse \/ HasData(b))
      /\ tc'.tail = keepTail(tc.tail, b)
  BY <1>1 DEF observe
<1> DEFINE seen == Seen
<1>6. seen \in Text /\ tc.newlines = Newlines(seen) /\ tc.tail = Suffix(seen)
  BY <1>3 DEF TInv
<1>7. tc.sse => HasData(seen)
  BY DEF TInv
<1> HIDE DEF seen
<1>8. tc'.newlines = Newlines(seen \o b)
  BY <1>3, <1>5, <1>6, NewlinesAdd
<1>9. tc'.tail = Suffix(seen \o b)
  BY <1>3, <1>5, <1>6, KeepTailIs
<1>10. tc'.sse \in BOOLEAN /\ (tc'.sse => HasData(seen \o b))
  <2>1. HasData(seen) \/ HasData(b) => HasData(seen \o b)
    BY <1>3, <1>6, HasDataPart
  <2>2. QED
    BY <1>5, <1>7, <2>1, Zenon
<1>11. Seen' = seen \o b
  BY <1>4 DEF seen
<1>12. body' \in Bodies /\ pos' \in 0 .. Len(body'.text)
  BY <1>1, <1>2 DEF TInv
<1>13. Streaming'
  BY DEF Read, Streaming
<1>14. QED
  BY <1>8, <1>9, <1>10, <1>11, <1>12, <1>13 DEF TInv

\* Every step keeps the invariant.
LEMMA TNextInv == ASSUME TInv, [TNext]_tvars PROVE TInv'
<1>1. ASSUME NEW n \in 1 .. BufMax, Read(n)
      PROVE  TInv'
  BY <1>1, ReadInv
<1>2. ASSUME NEW w \in Windows, Finish(w)
      PROVE  TInv'
  BY <1>2 DEF Finish, TInv, Seen
<1>3. ASSUME UNCHANGED tvars
      PROVE  TInv'
  BY <1>3 DEF tvars, TInv, Seen, Streaming
<1>4. QED
  BY <1>1, <1>2, <1>3 DEF TNext

\* The counter always describes the part of the response that has been read.
THEOREM TokenInvariant == TSpec => []TInv
<1>1. TInit => TInv
  BY TInitInv
<1>2. TInv /\ [TNext]_tvars => TInv'
  BY TNextInv
<1>3. QED
  BY <1>1, <1>2, PTL DEF TSpec

\* The counter of the text that has been seen, had it come in one read.
LEMMA WholeIs ==
  ASSUME TInv
  PROVE  LET whole == observe(NewCounter, Seen)
         IN  /\ whole.newlines = tc.newlines
             /\ whole.tail = tc.tail
             /\ whole.sse \in BOOLEAN
             /\ tc.sse => whole.sse
             /\ tc.newlines \in Nat
             /\ tc.tail \in Text
<1>1. body.text \in Text /\ Len(body.text) \in Nat
  BY BodiesAssumption, LenProperties DEF TInv, Text
<1>2. Seen \in Text
  <2>1. SubSeq(body.text, 1, pos) \in Text
    <3>1. pos \in 0 .. Len(body.text) /\ 1 \in Nat \ {0}
      BY DEF TInv
    <3>2. QED
      BY <1>1, <3>1, PartIsText
  <2>2. QED
    BY <2>1 DEF Seen
<1> DEFINE seen == Seen
           whole == observe(NewCounter, seen)
<1>3. seen \in Text /\ tc.newlines = Newlines(seen) /\ tc.tail = Suffix(seen)
  BY <1>2 DEF TInv
<1>4. tc.sse => HasData(seen)
  BY DEF TInv
<1> HIDE DEF seen
<1>5. Newlines(seen) \in Nat
  BY <1>3, NewlinesNumber
<1>6. Suffix(seen) \in Text /\ keepTail(<<>>, seen) = Suffix(seen)
  BY <1>3, SuffixIs, KeepTailIs
<1>7. /\ whole.newlines = 0 + Newlines(seen)
      /\ whole.tail = keepTail(<<>>, seen)
      /\ whole.sse = (FALSE \/ HasData(seen))
  BY DEF observe, NewCounter
<1>8. whole.sse \in BOOLEAN /\ (tc.sse => whole.sse)
  BY <1>4, <1>7, Zenon
<1> HIDE DEF whole
<1>9. whole.newlines = tc.newlines
  BY <1>3, <1>5, <1>7
<1>10. whole.tail = tc.tail /\ tc.newlines \in Nat /\ tc.tail \in Text
  BY <1>3, <1>5, <1>6, <1>7
<1>11. QED
  BY <1>8, <1>9, <1>10 DEF whole, seen

\* The estimate from n newlines of a response that is, or is not, taken for
\* a stream of events.
Estimate(sse, n) == IF sse /\ n > 1 THEN n \div 2 ELSE IF n > 0 THEN n ELSE 1

\* Whatever is read, the count can be divided by (proxy.go:129, 295, 303).
THEOREM TokenNeverZero == TSpec => []NeverZero
<1>1. ASSUME TInv
      PROVE  NeverZero
  <2> DEFINE ec == jsonIntField(tc.tail, "ec")
             ct == jsonIntField(tc.tail, "ct")
             n == tc.newlines
  <2>1. n \in Nat
    BY <1>1, WholeIs
  <2>2. n > 1 => n \div 2 > 0
    BY <2>1
  <2>3. count(tc) = CASE Usable(ec) -> ec
                      [] ~Usable(ec) /\ Usable(ct) -> ct
                      [] OTHER -> Estimate(tc.sse, n)
    BY DEF count, Estimate
  <2> HIDE DEF ec, ct, n
  <2>4. Estimate(tc.sse, n) > 0
    BY <2>1, <2>2 DEF Estimate
  <2>5. QED
    BY <2>3, <2>4 DEF NeverZero, Usable
<1>2. QED
  BY <1>1, TokenInvariant, PTL

\* How the response is cut into reads does not change the count, except where
\* no read holds the whole of an event prefix: the estimate is then at most
\* twice the count and one (proxy.go:270).
THEOREM TokenCountIgnoresChunks == TSpec => []CountIgnoresChunks
<1>1. ASSUME TInv
      PROVE  CountIgnoresChunks
  <2> DEFINE whole == observe(NewCounter, Seen)
             ec == jsonIntField(tc.tail, "ec")
             ct == jsonIntField(tc.tail, "ct")
             n == tc.newlines
             C(e) == CASE Usable(ec) -> ec
                       [] ~Usable(ec) /\ Usable(ct) -> ct
                       [] OTHER -> e
  <2>1. /\ whole.newlines = n /\ whole.tail = tc.tail
        /\ whole.sse \in BOOLEAN /\ (tc.sse => whole.sse)
        /\ n \in Nat /\ tc.tail \in Text
    BY <1>1, WholeIs
  <2>2. ec \in Nat \cup {-1} /\ ct \in Nat \cup {-1}
    BY <2>1, FieldNumber
  <2>3. count(tc) = C(Estimate(tc.sse, n))
    BY DEF count, Estimate
  <2> HIDE DEF whole
  <2>4. count(whole) = C(Estimate(whole.sse, n))
    BY <2>1 DEF count, Estimate
  <2> HIDE DEF ec, ct, n
  <2>5. CASE tc.sse = whole.sse
    <3>1. count(tc) = count(whole)
      BY <2>3, <2>4, <2>5
    <3>2. QED
      BY <2>5, <3>1 DEF CountIgnoresChunks, whole, Seen
  <2>6. CASE tc.sse # whole.sse
    <3>1. tc.sse \in BOOLEAN
      BY <1>1 DEF TInv
    <3>2. tc.sse = FALSE /\ whole.sse = TRUE
      BY <2>1, <2>6, <3>1, Zenon
    <3>3. /\ Estimate(FALSE, n) = IF n > 0 THEN n ELSE 1
          /\ Estimate(TRUE, n) = IF n > 1 THEN n \div 2 ELSE IF n > 0 THEN n ELSE 1
      BY DEF Estimate
    <3>4. Estimate(FALSE, n) \in Estimate(TRUE, n) .. 2 * Estimate(TRUE, n) + 1
      <4> DEFINE e == Estimate(FALSE, n)
                 f == Estimate(TRUE, n)
      <4>1. n > 1 => n \div 2 \in Nat /\ n \div 2 <= n /\ n <= 2 * (n \div 2) + 1
        BY <2>1
      <4>2. /\ e = IF n > 0 THEN n ELSE 1
            /\ f = IF n > 1 THEN n \div 2 ELSE IF n > 0 THEN n ELSE 1
        BY <3>3
      <4> HIDE DEF e, f
      <4>3. e \in Nat /\ f \in Nat /\ f <= e /\ e <= 2 * f + 1
        BY <2>1, <4>1, <4>2
      <4>4. e \in f .. 2 * f + 1
        BY <4>3
      <4>5. QED
        BY <4>4 DEF e, f
    <3>5. C(Estimate(FALSE, n)) \in C(Estimate(TRUE, n)) .. 2 * C(Estimate(TRUE, n)) + 1
      <4>1. \A k \in Nat : k \in k .. 2 * k + 1
        OBVIOUS
      <4>2. CASE Usable(ec)
        <5>1. ec \in Nat
          BY <2>2, <4>2 DEF Usable
        <5>2. C(Estimate(FALSE, n)) = ec /\ C(Estimate(TRUE, n)) = ec
          BY <4>2
        <5> HIDE DEF C
        <5>3. QED
          BY <4>1, <5>1, <5>2
      <4>3. CASE ~Usable(ec) /\ Usable(ct)
        <5>1. ct \in Nat
          BY <2>2, <4>3 DEF Usable
        <5>2. C(Estimate(FALSE, n)) = ct /\ C(Estimate(TRUE, n)) = ct
          BY <4>3
        <5> HIDE DEF C
        <5>3. QED
          BY <4>1, <5>1, <5>2
      <4>4. CASE ~Usable(ec) /\ ~Usable(ct)
        <5>1. /\ C(Estimate(FALSE, n)) = Estimate(FALSE, n)
              /\ C(Estimate(TRUE, n)) = Estimate(TRUE, n)
          BY <4>4
        <5> HIDE DEF C
        <5>2. QED
          BY <3>4, <5>1
      <4>5. QED
        BY <4>2, <4>3, <4>4
    <3>6. count(tc) \in count(whole) .. 2 * count(whole) + 1
      BY <2>3, <2>4, <3>2, <3>5
    <3>7. QED
      BY <2>6, <3>6 DEF CountIgnoresChunks, whole, Seen
  <2>7. QED
    BY <2>5, <2>6
<1>2. QED
  BY <1>1, TokenInvariant, PTL

\* The end of the response holds a usable count.
Counted(t) == Usable(jsonIntField(t, "ec")) \/ Usable(jsonIntField(t, "ct"))

\* The fields alone decide: two counters with the same tail agree on the count
\* and, if the engine reports its time, on the speed.
LEMMA FieldsDecide ==
  ASSUME NEW c, NEW d, c.tail = d.tail, Counted(c.tail), NEW w, NEW x
  PROVE  /\ count(c) = count(d)
         /\ jsonIntField(c.tail, "ed") > 0 =>
              result(c, w).perTokenMs = result(d, x).perTokenMs
<1>1. count(c) = count(d)
  <2> DEFINE ec == jsonIntField(c.tail, "ec")
             ct == jsonIntField(c.tail, "ct")
  <2>1. Usable(ec) \/ Usable(ct)
    BY DEF Counted
  <2>2. /\ count(c) = CASE Usable(ec) -> ec
                        [] ~Usable(ec) /\ Usable(ct) -> ct
                        [] OTHER -> Estimate(c.sse, c.newlines)
        /\ count(d) = CASE Usable(ec) -> ec
                        [] ~Usable(ec) /\ Usable(ct) -> ct
                        [] OTHER -> Estimate(d.sse, d.newlines)
    BY DEF count, Estimate
  <2> HIDE DEF ec, ct
  <2>3. QED
    BY <2>1, <2>2
<1>2. ASSUME jsonIntField(c.tail, "ed") > 0
      PROVE  result(c, w).perTokenMs = result(d, x).perTokenMs
  BY <1>1, <1>2 DEF result
<1>3. QED
  BY <1>1, <1>2

\* Read at once, the response gives what its engine reports.
ReadsRight(b) ==
  LET c == observe(NewCounter, b.text)
  IN  /\ b.tokens > 0 => Counted(c.tail) /\ count(c) = b.tokens
      /\ b.ms > 0 => /\ Counted(c.tail) /\ jsonIntField(c.tail, "ed") > 0
                     /\ \A w \in Windows : result(c, w).perTokenMs = b.ms

\* If a response gives the right count and speed when it is read at once, it
\* does so however it is read and however long it took (proxy.go:252, 114-119).
THEOREM TokenExactWhenReported ==
  ASSUME \A b \in Bodies : ReadsRight(b)
  PROVE  TSpec => []ExactWhenReported
<1>1. ASSUME TInv
      PROVE  ExactWhenReported
  <2> SUFFICES ASSUME pos = Len(body.text), ~Streaming
               PROVE  /\ body.tokens > 0 => res.tokens = body.tokens
                      /\ body.ms > 0 => res.perTokenMs = body.ms
    BY DEF ExactWhenReported
  <2> DEFINE c == observe(NewCounter, body.text)
  <2>1. PICK w \in Windows : res = result(tc, w)
    BY <1>1 DEF TInv
  <2>2. c.tail = tc.tail
    <3>1. body.text \in Text
      BY <1>1, BodiesAssumption DEF TInv, Text
    <3>2. Seen = body.text
      BY <3>1, SubSeqFull DEF Seen, Text
    <3>3. observe(NewCounter, Seen).tail = tc.tail
      BY <1>1, WholeIs
    <3>4. QED
      BY <3>2, <3>3
  <2>3. ReadsRight(body)
    BY <1>1 DEF TInv
  <2>4. /\ body.tokens > 0 => Counted(c.tail) /\ count(c) = body.tokens
        /\ body.ms > 0 => /\ Counted(c.tail) /\ jsonIntField(c.tail, "ed") > 0
                          /\ result(c, w).perTokenMs = body.ms
    BY <2>3 DEF ReadsRight
  <2> HIDE DEF c
  <2>5. res.tokens = count(tc)
    BY <2>1 DEF result
  <2>6. ASSUME body.tokens > 0
        PROVE  res.tokens = body.tokens
    <3>1. count(c) = count(tc)
      BY <2>2, <2>4, <2>6, FieldsDecide
    <3>2. QED
      BY <2>4, <2>5, <2>6, <3>1
  <2>7. ASSUME body.ms > 0
        PROVE  res.perTokenMs = body.ms
    <3>1. result(c, w).perTokenMs = result(tc, w).perTokenMs
      BY <2>2, <2>4, <2>7, FieldsDecide
    <3>2. QED
      BY <2>1, <2>4, <2>7, <3>1
  <2>8. QED
    BY <2>6, <2>7
<1>2. QED
  BY <1>1, TokenInvariant, PTL

=============================================================================

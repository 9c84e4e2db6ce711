-------------------------- MODULE SchedulerProofs ---------------------------
(***************************************************************************)
(* The scheduler's choice, for a pool of any size and whatever is read of  *)
(* it: the loop of bestScore against its meaning, and what follows for the *)
(* attempts of one request.                                                *)
(***************************************************************************)
EXTENDS Scheduler, Induction

-----------------------------------------------------------------------------
(***************************************************************************)
(* Induction over the pool.                                                *)
(***************************************************************************)

\* One round of the loop: the best so far, b, meets backend i.
Round(S, i, b) ==
  IF i \in S /\ (b = none \/ expectedMs(i) < expectedMs(b)) THEN i ELSE b

\* f tells the best of the first i backends, for i up to n.
Scan(S, n, f) == f = [i \in 0 .. n |-> IF i = 0 THEN none ELSE Round(S, i, f[i - 1])]

\* The loop runs to its end, whatever the pool.
LEMMA ScanExists ==
  ASSUME NEW S
  PROVE  \A n \in Nat : \E f : Scan(S, n, f)
<1> DEFINE T == {n \in Nat : \E f : Scan(S, n, f)}
<1>1. 0 \in T
  <2>1. Scan(S, 0, [i \in 0 .. 0 |-> none])
    BY DEF Scan
  <2>2. QED
    BY <2>1
<1>2. ASSUME NEW n \in Nat, n \in T
      PROVE  n + 1 \in T
  <2>1. PICK f : Scan(S, n, f)
    BY <1>2
  <2> DEFINE g == [i \in 0 .. n + 1 |-> IF i = n + 1 THEN Round(S, n + 1, f[n]) ELSE f[i]]
  <2>2. \A i \in 0 .. n : f[i] = IF i = 0 THEN none ELSE Round(S, i, f[i - 1])
    <3> DEFINE h == [i \in 0 .. n |-> IF i = 0 THEN none ELSE Round(S, i, f[i - 1])]
    <3>1. f = h
      BY <2>1 DEF Scan
    <3>2. \A i \in 0 .. n : h[i] = IF i = 0 THEN none ELSE Round(S, i, f[i - 1])
      OBVIOUS
    <3> HIDE DEF h
    <3>3. QED
      BY <3>1, <3>2
  <2>3. ASSUME NEW i \in 0 .. n + 1
        PROVE  g[i] = IF i = 0 THEN none ELSE Round(S, i, g[i - 1])
    <3>1. CASE i = n + 1
      <4>1. g[i] = Round(S, n + 1, f[n]) /\ g[i - 1] = f[n] /\ i # 0
        BY <3>1
      <4> HIDE DEF g
      <4>2. QED
        BY <3>1, <4>1
    <3>2. CASE i = 0
      <4>1. g[i] = f[0]
        BY <3>2
      <4> HIDE DEF g
      <4>2. QED
        BY <2>2, <3>2, <4>1
    <3>3. CASE i \in 1 .. n
      <4>1. g[i] = f[i] /\ g[i - 1] = f[i - 1] /\ i # 0 /\ i \in 0 .. n
        BY <3>3
      <4> HIDE DEF g
      <4>2. QED
        BY <2>2, <4>1
    <3>4. QED
      BY <3>1, <3>2, <3>3
  <2>4. Scan(S, n + 1, g)
    <3>1. g = [i \in 0 .. n + 1 |-> g[i]]
      OBVIOUS
    <3> HIDE DEF g
    <3>2. QED
      BY <2>3, <3>1, Zenon DEF Scan
  <2> HIDE DEF g
  <2>5. QED
    BY <2>4
<1> HIDE DEF T
<1>3. Nat \subseteq T
  BY <1>1, <1>2, SetInduction
<1>4. QED
  BY <1>3 DEF T

\* The recursion of bestScore is the loop.
LEMMA BestScan ==
  ASSUME NEW S
  PROVE  \E f : Scan(S, NumBackends, f) /\ bestScore(S) = f[NumBackends]
<1> DEFINE best == CHOOSE f : Scan(S, NumBackends, f)
<1>1. Scan(S, NumBackends, best)
  BY ScanExists, SnapshotsAssumption
<1>2. bestScore(S) = best[NumBackends]
  BY DEF bestScore, Scan, Round
<1> HIDE DEF best
<1>3. QED
  BY <1>1, <1>2

-----------------------------------------------------------------------------
(***************************************************************************)
(* The expected latency.                                                   *)
(***************************************************************************)
PoolOK == pool \in [Backend -> Snapshots]

\* What is read of a backend are numbers.
LEMMA SnapshotNumbers ==
  ASSUME PoolOK, NEW b \in Backend
  PROVE  /\ pool[b].perTokenMs \in Nat /\ pool[b].queueDepth \in Nat
         /\ pool[b].inflight \in Nat /\ pool[b].pct \in 0 .. 100
<1>1. pool[b] \in SnapshotType
  BY SnapshotsAssumption DEF PoolOK
<1>2. QED
  BY <1>1 DEF SnapshotType

\* A request takes some time, and never less on a busier backend.
LEMMA LatencyNumbers ==
  ASSUME PoolOK, NEW b \in Backend
  PROVE  load(b) \in Nat /\ reqMs(b) \in Nat \ {0} /\ load(b) * reqMs(b) \in Nat
<1>1. load(b) \in Nat
  BY SnapshotNumbers DEF load
<1>2. reqMs(b) \in Nat \ {0}
  BY SnapshotNumbers DEF reqMs, expectedTokens, defaultPerTokenMs
<1>3. \A m, n \in Nat : m * n \in Nat
  OBVIOUS
<1>4. QED
  BY <1>1, <1>2, <1>3

\* A score is defined for every backend; on a cold one the model's loading time
\* is part of it.
LEMMA ExpectedNumber ==
  ASSUME PoolOK, NEW b \in Backend
  PROVE  /\ expectedMs(b) \in Nat
         /\ ~isWarm(b) => expectedMs(b) >= coldLoadMs
<1> DEFINE cold == (coldLoadMs * (100 + pool[b].pct)) \div 100
<1>1. CASE isWarm(b)
  <2>1. \A m, n \in Nat : (m + 1) * n \in Nat
    OBVIOUS
  <2>2. QED
    BY <1>1, <2>1, LatencyNumbers DEF expectedMs
<1>2. CASE ~isWarm(b)
  <2>1. cold \in Nat /\ cold >= coldLoadMs
    BY SnapshotNumbers DEF coldLoadMs
  <2>2. expectedMs(b) = cold + load(b) * reqMs(b)
    BY <1>2 DEF expectedMs
  <2> HIDE DEF cold
  <2>3. coldLoadMs \in Nat
    BY DEF coldLoadMs
  <2>4. QED
    BY <2>1, <2>2, <2>3, LatencyNumbers
<1>3. QED
  BY <1>1, <1>2

\* An idle warm backend of a known speed below 98 ms, or of an unknown one, is
\* faster than loading a model.
LEMMA WarmBeatsCold ==
  ASSUME PoolOK, NEW b \in Backend, isWarm(b), load(b) = 0, pool[b].perTokenMs < 98
  PROVE  expectedMs(b) < coldLoadMs
<1>1. expectedMs(b) = reqMs(b)
  BY LatencyNumbers DEF expectedMs
<1>2. reqMs(b) < coldLoadMs
  BY SnapshotNumbers DEF reqMs, expectedTokens, defaultPerTokenMs, coldLoadMs
<1>3. QED
  BY <1>1, <1>2

-----------------------------------------------------------------------------
(***************************************************************************)
(* The loop of bestScore against its meaning.                              *)
(***************************************************************************)

\* b is the best backend of S, none if there is none.
BestOf(S, b) ==
  IF S = {} THEN b = none ELSE b \in S /\ \A c \in S : Better(b, c)

\* A round of the loop finds the best of one backend more.
LEMMA RoundBest ==
  ASSUME PoolOK, NEW S \in SUBSET Backend, NEW i \in Backend, NEW b,
         BestOf(S \cap (1 .. i - 1), b)
  PROVE  BestOf(S \cap (1 .. i), Round(S, i, b))
<1> DEFINE Old == S \cap (1 .. i - 1)
           New == S \cap (1 .. i)
<1>1. /\ i \in Int /\ \A c \in Old : c < i /\ c \in Int /\ c \in Backend
      /\ New = IF i \in S THEN Old \cup {i} ELSE Old
      /\ none \notin Backend
  BY SnapshotsAssumption, NamesAssumption DEF Backend
<1>2. \A c \in Backend : expectedMs(c) \in Int
  BY ExpectedNumber
<1> HIDE DEF Old, New
<1>3. BestOf(Old, b)
  BY DEF Old
<1>4. CASE i \notin S
  BY <1>1, <1>3, <1>4 DEF Round, New
<1>5. CASE i \in S /\ Old = {}
  <2>1. Round(S, i, b) = i /\ New = {i}
    BY <1>1, <1>3, <1>5 DEF Round, BestOf
  <2>2. Better(i, i)
    BY <1>1, <1>2 DEF Better
  <2>3. QED
    BY <2>1, <2>2 DEF BestOf, New
<1>6. CASE i \in S /\ Old # {}
  <2>1. b \in Old /\ b # none /\ \A c \in Old : Better(b, c)
    BY <1>1, <1>3, <1>6 DEF BestOf
  <2>2. CASE expectedMs(i) < expectedMs(b)
    <3>1. Round(S, i, b) = i
      BY <1>6, <2>2 DEF Round
    <3>2. \A c \in Old : Better(i, c)
      BY <1>1, <1>2, <2>1, <2>2 DEF Better
    <3>3. Better(i, i)
      BY <1>1, <1>2 DEF Better
    <3>4. QED
      BY <1>1, <1>6, <3>1, <3>2, <3>3 DEF BestOf, New
  <2>3. CASE ~(expectedMs(i) < expectedMs(b))
    <3>1. Round(S, i, b) = b
      BY <2>1, <2>3 DEF Round
    <3>2. Better(b, i)
      BY <1>1, <1>2, <2>1, <2>3 DEF Better
    <3>3. QED
      BY <1>1, <1>6, <2>1, <3>1, <3>2 DEF BestOf, New
  <2>4. QED
    BY <2>2, <2>3
<1>7. QED
  BY <1>4, <1>5, <1>6

\* bestScore returns the backend of S with the least expected latency, the first
\* of the pool among equals.
LEMMA BestScore ==
  ASSUME PoolOK, NEW S \in SUBSET Backend
  PROVE  BestOf(S, bestScore(S))
<1>1. PICK f : Scan(S, NumBackends, f) /\ bestScore(S) = f[NumBackends]
  BY BestScan
<1>2. \A i \in 0 .. NumBackends : f[i] = IF i = 0 THEN none ELSE Round(S, i, f[i - 1])
  <2> DEFINE h == [i \in 0 .. NumBackends |-> IF i = 0 THEN none ELSE Round(S, i, f[i - 1])]
  <2>1. f = h
    BY <1>1 DEF Scan
  <2>2. \A i \in 0 .. NumBackends : h[i] = IF i = 0 THEN none ELSE Round(S, i, f[i - 1])
    OBVIOUS
  <2> HIDE DEF h
  <2>3. QED
    BY <2>1, <2>2
<1> DEFINE T == {n \in Nat : n <= NumBackends => BestOf(S \cap (1 .. n), f[n])}
<1>3. 0 \in T
  <2>1. S \cap (1 .. 0) = {} /\ f[0] = none
    BY <1>2, SnapshotsAssumption
  <2>2. QED
    BY <2>1 DEF BestOf
<1>4. ASSUME NEW n \in Nat, n \in T
      PROVE  n + 1 \in T
  <2> SUFFICES ASSUME n + 1 <= NumBackends
               PROVE  BestOf(S \cap (1 .. n + 1), f[n + 1])
    OBVIOUS
  <2>1. n + 1 \in Backend /\ n <= NumBackends /\ (n + 1) - 1 = n /\ n + 1 # 0
    BY SnapshotsAssumption DEF Backend
  <2>2. BestOf(S \cap (1 .. n), f[n])
    BY <1>4, <2>1
  <2>3. f[n + 1] = Round(S, n + 1, f[n])
    BY <1>2, <2>1 DEF Backend
  <2>4. BestOf(S \cap (1 .. n + 1), Round(S, n + 1, f[n]))
    BY <2>1, <2>2, RoundBest
  <2>5. QED
    BY <2>3, <2>4
<1> HIDE DEF T
<1>5. NumBackends \in T
  BY <1>3, <1>4, SetInduction, SnapshotsAssumption
<1>6. S \cap (1 .. NumBackends) = S
  BY DEF Backend
<1>7. NumBackends <= NumBackends
  BY SnapshotsAssumption
<1>8. QED
  BY <1>1, <1>5, <1>6, <1>7 DEF T

-----------------------------------------------------------------------------
(***************************************************************************)
(* The attempts of a request.                                              *)
(***************************************************************************)
STypeOK ==
  /\ PoolOK
  /\ sticky \in Backend \cup {none}
  /\ override \in Overrides
  /\ exclude \subseteq Backend
  /\ picked \in Backend \cup {none, error}

SInv == STypeOK /\ OnlyEligible /\ GivesUpLast /\ StickyFirst

Candidates == Available \ exclude

\* The four ways PickExcluding returns: it gives up, follows the plugin, stays
\* with the conversation's backend, or takes the best.
GivesUp(p) == p = error /\ (override = reject \/ \A b \in Candidates : ~isSafe(b))
Follows(p) == p = override /\ p \in Candidates
Stays(p) == p = sticky /\ p \in Candidates /\ isWarm(p) /\ isSafe(p)
Takes(p) ==
  /\ p \in Candidates /\ isSafe(p)
  /\ \A c \in Candidates : isSafe(c) => Better(p, c)

\* PickExcluding returns in one of them.
LEMMA PickCases ==
  ASSUME STypeOK
  PROVE  LET p == PickExcluding IN GivesUp(p) \/ Follows(p) \/ Stays(p) \/ Takes(p)
<1> DEFINE C == Available \ exclude
           G == applyVRAMGuard(C)
<1>1. CASE C = {} \/ override = reject
  <2>1. PickExcluding = error
    BY <1>1 DEF PickExcluding
  <2>2. QED
    BY <1>1, <2>1 DEF GivesUp, Candidates
<1>2. CASE ~(C = {} \/ override = reject) /\ override \in C
  <2>1. PickExcluding = override
    BY <1>2 DEF PickExcluding
  <2>2. QED
    BY <1>2, <2>1 DEF Follows, Candidates
<1>3. CASE ~(C = {} \/ override = reject) /\ override \notin C
  <2>1. CASE affinityPick(C) # none
    <3>1. PickExcluding = affinityPick(C)
      BY <1>3, <2>1 DEF PickExcluding
    <3>2. affinityPick(C) = sticky /\ sticky \in C /\ isWarm(sticky) /\ isSafe(sticky)
      BY <2>1 DEF affinityPick
    <3>3. QED
      BY <3>1, <3>2 DEF Stays, Candidates
  <2>2. CASE affinityPick(C) = none
    <3>1. PickExcluding = pick(C)
      BY <1>3, <2>2 DEF PickExcluding
    <3>2. CASE G = {}
      <4>1. PickExcluding = error
        BY <3>1, <3>2 DEF pick
      <4>2. \A b \in C : ~isSafe(b)
        BY <3>2 DEF applyVRAMGuard
      <4>3. QED
        BY <4>1, <4>2 DEF GivesUp, Candidates
    <3>3. CASE G # {}
      <4>1. PickExcluding = bestScore(G)
        BY <3>1, <3>3 DEF pick
      <4>2. G \in SUBSET Backend
        BY DEF applyVRAMGuard, Available
      <4>3. BestOf(G, bestScore(G))
        BY <4>2, BestScore DEF STypeOK
      <4>4. PickExcluding \in G /\ \A c \in G : Better(PickExcluding, c)
        BY <3>3, <4>1, <4>3 DEF BestOf
      <4>5. QED
        BY <4>4 DEF Takes, Candidates, applyVRAMGuard
    <3>4. QED
      BY <3>2, <3>3
  <2>3. QED
    BY <2>1, <2>2
<1>4. QED
  BY <1>1, <1>2, <1>3

\* A backend that holds the conversation, and may, is not passed over.
LEMMA PickSticky ==
  ASSUME STypeOK, sticky \in Candidates, isWarm(sticky), isSafe(sticky), override = none
  PROVE  PickExcluding = sticky
<1>1. sticky \in Backend /\ none \notin Backend /\ none # reject
  BY NamesAssumption DEF Candidates, Available
<1>2. override \notin Available \ exclude
  BY <1>1 DEF Available
<1>3. affinityPick(Available \ exclude) = sticky /\ sticky # none
  BY <1>1 DEF affinityPick, Candidates
<1>4. QED
  BY <1>1, <1>2, <1>3 DEF PickExcluding, Candidates

\* An attempt picks an eligible backend or gives up last.
LEMMA AttemptInv == ASSUME SInv, Attempt PROVE SInv'
<1> DEFINE p == PickExcluding
<1>1. /\ STypeOK /\ picked' = p /\ UNCHANGED <<pool, sticky, override>>
      /\ exclude' = IF picked' = error THEN exclude ELSE exclude \cup {picked'}
  BY DEF SInv, Attempt
<1>2. GivesUp(p) \/ Follows(p) \/ Stays(p) \/ Takes(p)
  BY <1>1, PickCases
<1>3. Available' = Available /\ \A b : (isSafe(b)' <=> isSafe(b)) /\ (isWarm(b)' <=> isWarm(b))
  BY <1>1 DEF Available, hasCapacity, isSafe, isWarm
<1>4. p = error \/ (p \in Available \ exclude /\ p \in Backend /\ p # error)
  BY <1>2, NamesAssumption
     DEF GivesUp, Follows, Stays, Takes, Candidates, Available
<1> HIDE DEF p
<1>5. STypeOK'
  BY <1>1, <1>4 DEF STypeOK, PoolOK
<1>6. OnlyEligible'
  <2> SUFFICES ASSUME picked' \in Backend
               PROVE  picked' \in Available /\ (picked' # override => isSafe(picked'))
    BY <1>1, <1>3 DEF OnlyEligible, isSafe
  <2>1. p \in Available \ exclude
    BY <1>1, <1>4, NamesAssumption
  <2>2. p # override => isSafe(p)
    BY <1>1, <1>2, NamesAssumption DEF GivesUp, Follows, Stays, Takes
  <2>3. QED
    BY <1>1, <2>1, <2>2
<1>7. GivesUpLast'
  <2> SUFFICES ASSUME picked' = error, override # reject
               PROVE  \A b \in Available : isSafe(b) => b \in exclude
    BY <1>1, <1>3 DEF GivesUpLast
  <2>1. GivesUp(p)
    BY <1>1, <1>2, NamesAssumption DEF Follows, Stays, Takes, Candidates, Available
  <2>2. QED
    BY <2>1 DEF GivesUp, Candidates
<1>8. StickyFirst'
  <2> SUFFICES ASSUME sticky \in Available, isWarm(sticky), isSafe(sticky), override = none,
                      exclude' # {}
               PROVE  sticky \in exclude'
    BY <1>1, <1>3 DEF StickyFirst, isWarm, isSafe
  <2>1. CASE sticky \in exclude
    BY <1>1, <2>1
  <2>2. CASE sticky \notin exclude
    <3>1. p = sticky
      BY <1>1, <2>2, PickSticky DEF p, Candidates
    <3>2. sticky \in Backend
      BY DEF Available
    <3>3. QED
      BY <1>1, <3>1, <3>2, NamesAssumption
  <2>3. QED
    BY <2>1, <2>2
<1>9. QED
  BY <1>5, <1>6, <1>7, <1>8 DEF SInv

\* Every step preserves the invariant.
LEMMA SNextInv == ASSUME SInv, [SNext]_svars PROVE SInv'
<1>1. CASE NextRequest
  <2>1. /\ picked' = none /\ exclude' = {} /\ UNCHANGED <<pool, sticky, override>>
    BY <1>1 DEF NextRequest
  <2>2. STypeOK'
    BY <2>1 DEF SInv, STypeOK, PoolOK
  <2>3. OnlyEligible' /\ GivesUpLast' /\ StickyFirst'
    BY <2>1, NamesAssumption DEF OnlyEligible, GivesUpLast, StickyFirst
  <2>4. QED
    BY <2>2, <2>3 DEF SInv
<1>2. CASE UNCHANGED svars
  BY <1>2 DEF svars, SInv, STypeOK, PoolOK, OnlyEligible, GivesUpLast, StickyFirst,
              Available, hasCapacity, isSafe, isWarm
<1>3. QED
  BY <1>1, <1>2, AttemptInv DEF SNext

\* The inductive invariant holds throughout.
THEOREM SchedulerInvariant == SSpec => []SInv
<1>1. SInit => SInv
  BY NamesAssumption
     DEF SInit, SInv, STypeOK, PoolOK, OnlyEligible, GivesUpLast, StickyFirst
<1>2. SInv /\ [SNext]_svars => SInv'
  BY SNextInv
<1>3. QED
  BY <1>1, <1>2, PTL DEF SSpec

\* "refuses to route to a backend near its memory ceiling" (README.md:38): what
\* the scheduler picks is up, serves the model, has a slot and is below the
\* guard, unless the plugin named it.
THEOREM SchedulerOnlyEligible == SSpec => []OnlyEligible
<1>1. SInv => OnlyEligible
  BY DEF SInv
<1>2. QED
  BY <1>1, SchedulerInvariant, PTL

\* The proxy gives up only after every eligible backend (proxy.go:78-107).
THEOREM SchedulerGivesUpLast == SSpec => []GivesUpLast
<1>1. SInv => GivesUpLast
  BY DEF SInv
<1>2. QED
  BY <1>1, SchedulerInvariant, PTL

\* A warm, safe and free backend that holds the conversation is tried first.
THEOREM SchedulerStickyFirst == SSpec => []StickyFirst
<1>1. SInv => StickyFirst
  BY DEF SInv
<1>2. QED
  BY <1>1, SchedulerInvariant, PTL

\* Among the eligible backends not tried yet the scheduler takes the one with
\* the least expected latency, the first of the pool among equals.
THEOREM SchedulerTakesTheBest == SSpec => TakesTheBest
<1> DEFINE Best ==
      picked' \in Backend \ {override, sticky} =>
        \A c \in Available \ exclude : isSafe(c) => Better(picked', c)
<1>1. SInv /\ [SNext]_svars => [Best]_svars
  <2> SUFFICES ASSUME SInv, SNext, picked' \in Backend \ {override, sticky},
                      NEW c \in Available \ exclude, isSafe(c)
               PROVE  Better(picked', c)
    OBVIOUS
  <2>1. Attempt
    BY NamesAssumption DEF SNext, NextRequest
  <2>2. picked' = PickExcluding
    BY <2>1 DEF Attempt
  <2>3. Takes(PickExcluding)
    BY <2>2, PickCases, NamesAssumption DEF SInv, GivesUp, Follows, Stays
  <2>4. QED
    BY <2>2, <2>3 DEF Takes, Candidates
<1>2. QED
  BY <1>1, SchedulerInvariant, PTL DEF SSpec, TakesTheBest

\* A cold backend is picked only if no eligible backend that has the model is
\* idle and generates a token in less than 98 ms: the load penalty outweighs
\* every such latency, whatever the pool.
THEOREM SchedulerFastWarmWins == SSpec => FastWarmWins
<1> DEFINE Warm ==
      picked' \in Backend \ {override} /\ ~isWarm(picked') =>
        \A b \in Available \ exclude :
          ~(isWarm(b) /\ isSafe(b) /\ load(b) = 0 /\ pool[b].perTokenMs < 98)
<1>1. SInv /\ [SNext]_svars => [Warm]_svars
  <2> SUFFICES ASSUME SInv, SNext, picked' \in Backend \ {override}, ~isWarm(picked'),
                      NEW b \in Available \ exclude,
                      isWarm(b), isSafe(b), load(b) = 0, pool[b].perTokenMs < 98
               PROVE  FALSE
    OBVIOUS
  <2>1. Attempt
    BY NamesAssumption DEF SNext, NextRequest
  <2>2. PICK p \in Backend : p = PickExcluding /\ p = picked' /\ p # override /\ ~isWarm(p)
    BY <2>1 DEF Attempt
  <2>3. Takes(p)
    BY <2>2, PickCases, NamesAssumption DEF SInv, GivesUp, Follows, Stays
  <2>4. PoolOK /\ b \in Backend
    BY DEF SInv, STypeOK, Available
  <2>5. /\ expectedMs(b) \in Nat /\ expectedMs(b) < coldLoadMs
        /\ expectedMs(p) \in Nat /\ expectedMs(p) >= coldLoadMs /\ coldLoadMs \in Nat
    BY <2>2, <2>4, ExpectedNumber, WarmBeatsCold DEF coldLoadMs
  <2>6. Better(p, b)
    BY <2>3 DEF Takes, Candidates
  <2>7. QED
    BY <2>5, <2>6 DEF Better
<1>2. QED
  BY <1>1, SchedulerInvariant, PTL DEF SSpec, FastWarmWins

=============================================================================

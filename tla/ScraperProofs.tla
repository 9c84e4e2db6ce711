--------------------------- MODULE ScraperProofs ----------------------------
(***************************************************************************)
(* Safety of the scraper, for any number of overlapping scrapes, any       *)
(* backend and any models: the limit stays in 0 .. 32, never goes away     *)
(* once there is one, and fits the VRAM it was computed for.               *)
(***************************************************************************)
EXTENDS Scraper, SequenceTheorems, Induction

-----------------------------------------------------------------------------
(***************************************************************************)
(* Sums.                                                                   *)
(***************************************************************************)

El(s) == CHOOSE x \in s : TRUE

\* The sum of a finite set, as the fold of MapThenSumSet defines it, is a number.
LEMMA FoldNumber ==
  ASSUME NEW M, IsFiniteSet(M), NEW w \in [M -> Nat]
  PROVE  LET sum == CHOOSE f : f = [s \in SUBSET M |->
                      IF s = {} THEN 0 ELSE w[El(s)] + f[s \ {El(s)}]]
         IN  sum[M] \in Nat
<1> DEFINE IsSum(f) == f = [s \in SUBSET M |->
                         IF s = {} THEN 0 ELSE w[El(s)] + f[s \ {El(s)}]]
           sum == CHOOSE f : IsSum(f)
           el == [s \in SUBSET M |-> El(s)]
           op == [p \in M \X Nat |-> w[p[1]] + p[2]]
<1>1. Names(M, el) /\ op \in [M \X Nat -> Nat]
  BY DEF El, Names
<1>2. PICK g \in [SUBSET M -> Nat] : IsFoldOver(M, 0, el, op, g)
  <2> HIDE DEF el, op
  <2>1. QED
    BY <1>1, FoldExists
<1>3. ASSUME NEW s \in SUBSET M
      PROVE  g[s] = IF s = {} THEN 0 ELSE w[El(s)] + g[s \ {El(s)}]
  <2>1. CASE s = {}
    BY <1>2, <2>1 DEF IsFoldOver
  <2>2. CASE s # {}
    <3>1. El(s) \in M /\ g[s \ {El(s)}] \in Nat
      BY <2>2 DEF El
    <3>2. g[s] = op[<<el[s], g[s \ {el[s]}]>>]
      <4> HIDE DEF el, op
      <4>1. QED
        BY <1>2, <2>2 DEF IsFoldOver
    <3>3. QED
      BY <2>2, <3>1, <3>2
  <2>3. QED
    BY <2>1, <2>2
<1>4. IsSum(g)
  BY <1>3
<1>5. IsSum(sum)
  BY <1>4
<1> HIDE DEF sum
<1>6. ASSUME NEW s \in SUBSET M
      PROVE  sum[s] = IF s = {} THEN 0 ELSE w[El(s)] + sum[s \ {El(s)}]
  <2> DEFINE h == [t \in SUBSET M |-> IF t = {} THEN 0 ELSE w[El(t)] + sum[t \ {El(t)}]]
  <2>1. sum = h
    BY <1>5
  <2>2. h[s] = IF s = {} THEN 0 ELSE w[El(s)] + sum[s \ {El(s)}]
    OBVIOUS
  <2> HIDE DEF h
  <2>3. QED
    BY <2>1, <2>2
<1>7. sum[M] = g[M]
  <2>1. sum[{}] = g[{}]
    BY <1>3, <1>6
  <2>2. \A s \in SUBSET M :
          s # {} /\ sum[s \ {el[s]}] = g[s \ {el[s]}] => sum[s] = g[s]
    BY <1>3, <1>6
  <2> HIDE DEF el
  <2>3. FoldAlike(M, el, sum, g)
    BY <2>1, <2>2 DEF FoldAlike
  <2>4. QED
    BY <1>1, <2>3, FoldUnique
<1>8. sum[M] \in Nat
  BY <1>7
<1>9. QED
  BY <1>8 DEF sum

\* The memory the models take is a number.
LEMMA SumNumbers ==
  ASSUME NEW M, IsFiniteSet(M), \A m \in M : m.vram \in Nat /\ m.size \in Nat
  PROVE  sumVRAM(M) \in Nat /\ sumSize(M) \in Nat
<1>1. sumVRAM(M) \in Nat
  <2> DEFINE w == [m \in M |-> m.vram]
             a == CHOOSE f : f = [s \in SUBSET M |->
                    IF s = {} THEN 0 ELSE w[El(s)] + f[s \ {El(s)}]]
             b == CHOOSE f : f = [s \in SUBSET M |->
                    IF s = {} THEN 0 ELSE El(s).vram + f[s \ {El(s)}]]
  <2>1. w \in [M -> Nat]
    OBVIOUS
  <2>2. a[M] \in Nat
    BY <2>1, FoldNumber
  <2>3. \A f : [s \in SUBSET M |-> IF s = {} THEN 0 ELSE w[El(s)] + f[s \ {El(s)}]]
             = [s \in SUBSET M |-> IF s = {} THEN 0 ELSE El(s).vram + f[s \ {El(s)}]]
    BY DEF El
  <2>4. a = b
    BY <2>3
  <2>5. sumVRAM(M) = b[M]
    BY DEF sumVRAM, MapThenSumSet, MapThenFoldSet, El
  <2>6. QED
    BY <2>2, <2>4, <2>5
<1>2. sumSize(M) \in Nat
  <2> DEFINE w == [m \in M |-> m.size]
             a == CHOOSE f : f = [s \in SUBSET M |->
                    IF s = {} THEN 0 ELSE w[El(s)] + f[s \ {El(s)}]]
             b == CHOOSE f : f = [s \in SUBSET M |->
                    IF s = {} THEN 0 ELSE El(s).size + f[s \ {El(s)}]]
  <2>1. w \in [M -> Nat]
    OBVIOUS
  <2>2. a[M] \in Nat
    BY <2>1, FoldNumber
  <2>3. \A f : [s \in SUBSET M |-> IF s = {} THEN 0 ELSE w[El(s)] + f[s \ {El(s)}]]
             = [s \in SUBSET M |-> IF s = {} THEN 0 ELSE El(s).size + f[s \ {El(s)}]]
    BY DEF El
  <2>4. a = b
    BY <2>3
  <2>5. sumSize(M) = b[M]
    BY DEF sumSize, MapThenSumSet, MapThenFoldSet, El
  <2>6. QED
    BY <2>2, <2>4, <2>5
<1>3. QED
  BY <1>1, <1>2

-----------------------------------------------------------------------------
(***************************************************************************)
(* The limit.                                                              *)
(***************************************************************************)
Resident(M) == IsFiniteSet(M) /\ \A m \in M : m.name \in Name /\ m.vram \in Nat /\ m.size \in Nat

\* A quotient of natural numbers.
LEMMA Quotient ==
  /\ \A a \in Int, b \in Nat \ {0} : a \div b \in Int
  /\ \A a \in Nat, b \in Nat \ {0} : a \div b \in Nat
  OBVIOUS

\* The largest model.
LEMMA LargestBounds ==
  ASSUME NEW M, Resident(M), M # {}
  PROVE  /\ largest(M) \in Nat
         /\ \A m \in M : footprint(m) \in Nat /\ footprint(m) <= largest(M)
<1> DEFINE F == {footprint(m) : m \in M}
<1>1. F \in SUBSET Nat /\ F # {} /\ \A m \in M : footprint(m) \in F
  BY DEF footprint, Resident
<1>2. IsFiniteSet(F)
  <2> DEFINE f == [m \in M |-> footprint(m)]
  <2>1. f \in [M -> F] /\ \A y \in F : \E m \in M : f[m] = y
    OBVIOUS
  <2> HIDE DEF f, F
  <2>2. f \in Surjection(M, F)
    BY <2>1 DEF Surjection
  <2>3. QED
    BY <2>2, FS_Surjection DEF Resident
<1>3. largest(M) = Max(F)
  BY DEF largest
<1> HIDE DEF F
<1>4. Max(F) \in F /\ \A y \in F : Max(F) >= y
  BY <1>1, <1>2, MaxOfFinite
<1>5. QED
  BY <1>1, <1>3, <1>4

\* The memory in use and the largest model.
LEMMA MemoryNumbers ==
  ASSUME NEW M, Resident(M)
  PROVE  usedBytes(M) \in Nat /\ (M # {} => largest(M) \in Nat)
<1>1. sumVRAM(M) \in Nat /\ sumSize(M) \in Nat
  BY SumNumbers DEF Resident
<1>2. usedBytes(M) \in Nat
  BY <1>1 DEF usedBytes
<1>3. QED
  BY <1>2, LargestBounds

\* A limit that autoConcurrent computes is a limit: 1 to 32 slots.
LEMMA SizedBounds ==
  ASSUME host.vramTotalMB \in Nat, NEW M, Resident(M), M # {}
  PROVE  sized(M) \in 1 .. 32
<1> DEFINE kv == kvPerRequest(largest(M))
           n == freeBytes(M) \div kv
           slots == clamp(n)
<1>1. usedBytes(M) \in Nat /\ largest(M) \in Nat
  BY MemoryNumbers
<1>2. freeBytes(M) \in Int
  BY <1>1 DEF freeBytes, MB
<1>3. kv \in Nat \ {0}
  BY <1>1 DEF kvPerRequest, MB
<1> HIDE DEF kv
<1>4. n \in Int
  BY <1>2, <1>3, Quotient
<1> HIDE DEF n
<1>5. slots \in 1 .. 32
  <2> DEFINE low == Min({32, n})
  <2>1. low \in Int /\ low <= 32
    <3>1. low = IF 32 <= n THEN 32 ELSE n
      BY <1>4, MaxMinOfTwo, 32 \in Int
    <3> HIDE DEF low
    <3>2. QED
      BY <1>4, <3>1
  <2> HIDE DEF low
  <2>2. Max({1, low}) = IF 1 >= low THEN 1 ELSE low
    BY <2>1, MaxMinOfTwo DEF low
  <2>3. slots = Max({1, low})
    BY DEF slots, clamp, low
  <2>4. QED
    BY <2>1, <2>2, <2>3 DEF low
<1> HIDE DEF slots
<1>6. halved(slots) \in 1 .. 32
  <2>1. slots \div 2 \in Int /\ slots \div 2 <= 32
    BY <1>5
  <2>2. QED
    BY <2>1, MaxMinOfTwo DEF halved
<1>7. sized(M) \in {1, 2, 4, halved(slots), slots}
  BY DEF sized, slots, n, kv
<1>8. QED
  BY <1>5, <1>6, <1>7

\* n slots of b bytes fit into a bytes if n is at most the quotient.
LEMMA SlotsOfBytes ==
  ASSUME NEW a \in Nat, NEW b \in Nat \ {0}, NEW n \in Nat, n <= a \div b,
         NEW c \in Nat, c <= b
  PROVE  n * c <= a
<1>1. a \div b \in Nat /\ (a \div b) * b <= a
  OBVIOUS
<1>2. n * b <= (a \div b) * b
  BY <1>1
<1>3. n * c <= n * b
  OBVIOUS
<1>4. n * c \in Nat /\ n * b \in Nat /\ (a \div b) * b \in Nat
  BY <1>1
<1>5. QED
  BY <1>1, <1>2, <1>3, <1>4

\* The slots that the models M are given beyond the first fit into the memory
\* that they leave free, at a tenth of any of them each.
Fits(n, M) ==
  n > 1 => \A m \in M :
    n * (footprint(m) \div 10) <= host.vramTotalMB * MB - usedBytes(M)

\* The limit computed for models that take memory fits.
LEMMA SizedFits ==
  ASSUME host.vramTotalMB \in Nat \ {0}, NEW M, Resident(M),
         NEW m0 \in M, footprint(m0) > 0
  PROVE  Fits(sized(M), M)
<1> DEFINE big == largest(M)
           kv == kvPerRequest(big)
           free == freeBytes(M)
           n == free \div kv
           slots == clamp(n)
<1>1. /\ usedBytes(M) \in Nat /\ big \in Nat
      /\ \A m \in M : footprint(m) \in Nat /\ footprint(m) <= big
  BY MemoryNumbers, LargestBounds
<1>2. big > 0
  BY <1>1
<1>3. free \in Int /\ free = host.vramTotalMB * MB - usedBytes(M)
  BY <1>1 DEF freeBytes, MB
<1>4. kv \in Nat \ {0} /\ big \div 10 <= kv
  <2>1. kv = IF big \div 10 = 0 THEN 256 * MB ELSE big \div 10
    BY DEF kvPerRequest
  <2> HIDE DEF kv, big
  <2>2. big \div 10 \in Nat
    BY <1>1
  <2>3. QED
    BY <2>1, <2>2 DEF MB
<1>5. sized(M) = IF free <= 0 THEN 1 ELSE IF isCPU(M) THEN halved(slots) ELSE slots
  <2>1. ~(host.vramTotalMB <= 0) /\ ~(big <= 0)
    BY <1>1, <1>2
  <2>2. QED
    BY <2>1 DEF sized
<1> HIDE DEF kv, free, big
<1>6. n \in Int
  BY <1>3, <1>4, Quotient
<1> HIDE DEF n
<1>7. slots \in Nat /\ (slots > 1 => slots <= n)
  <2> DEFINE low == Min({32, n})
  <2>1. low \in Int /\ low <= n
    <3>1. low = IF 32 <= n THEN 32 ELSE n
      BY <1>6, MaxMinOfTwo, 32 \in Int
    <3> HIDE DEF low
    <3>2. QED
      BY <1>6, <3>1
  <2> HIDE DEF low
  <2>2. Max({1, low}) = IF 1 >= low THEN 1 ELSE low
    BY <2>1, MaxMinOfTwo
  <2>3. slots = Max({1, low})
    BY DEF slots, clamp, low
  <2>4. QED
    BY <1>6, <2>1, <2>2, <2>3
<1> HIDE DEF slots
<1>8. halved(slots) \in Nat /\ (halved(slots) > 1 => halved(slots) <= slots)
  <2>1. slots \div 2 \in Int /\ slots \div 2 <= slots
    BY <1>7
  <2>2. halved(slots) = IF slots \div 2 >= 1 THEN slots \div 2 ELSE 1
    BY <2>1, MaxMinOfTwo, 1 \in Int DEF halved
  <2>3. QED
    BY <1>7, <2>1, <2>2
<1>9. sized(M) \in Nat /\ (sized(M) > 1 => free > 0 /\ sized(M) <= n)
  <2>1. CASE free <= 0
    BY <1>5, <2>1
  <2>2. CASE free > 0 /\ isCPU(M)
    <3>1. sized(M) = halved(slots)
      BY <1>3, <1>5, <2>2
    <3>2. QED
      BY <1>6, <1>7, <1>8, <2>2, <3>1
  <2>3. CASE free > 0 /\ ~isCPU(M)
    <3>1. sized(M) = slots
      BY <1>3, <1>5, <2>3
    <3>2. QED
      BY <1>6, <1>7, <2>3, <3>1
  <2>4. QED
    BY <1>3, <2>1, <2>2, <2>3
<1>10. ASSUME sized(M) > 1, NEW m \in M
       PROVE  sized(M) * (footprint(m) \div 10) <= free
  <2>1. free \in Nat /\ sized(M) <= free \div kv
    BY <1>3, <1>9, <1>10 DEF n
  <2>2. footprint(m) \in Nat /\ footprint(m) <= big
    BY <1>1
  <2>3. footprint(m) \div 10 \in Nat /\ footprint(m) \div 10 <= big \div 10 /\ big \div 10 \in Nat
    BY <1>1, <2>2
  <2>4. footprint(m) \div 10 <= kv
    BY <1>4, <2>3
  <2>5. QED
    BY <1>4, <1>9, <2>1, <2>3, <2>4, SlotsOfBytes
<1>11. QED
  BY <1>3, <1>10 DEF Fits

-----------------------------------------------------------------------------
(***************************************************************************)
(* Types.                                                                  *)
(***************************************************************************)

\* What the configuration and the reports of a backend are made of.
LEMMA HostFacts ==
  ASSUME ScTypeOK
  PROVE  /\ host.maxConcurrent \in Nat /\ host.vramTotalMB \in Nat
         /\ host.models \in SUBSET Name /\ host.labels \in {<<>>, <<NaN>>}
         /\ \A t \in host.reports :
              Resident(t.resident) /\ t.usage \in Nat /\ t.waiting \in Nat
<1>1. host \in HostType /\ \A t \in host.reports : IsFiniteSet(t.resident)
  BY HostsAssumption DEF ScTypeOK
<1>2. /\ host.maxConcurrent \in Nat /\ host.vramTotalMB \in Nat
      /\ host.models \in SUBSET Name /\ host.labels \in {<<>>, <<NaN>>}
      /\ host.reports \subseteq Report
  BY <1>1 DEF HostType
<1>3. \A t \in Report : /\ t.usage \in Nat /\ t.waiting \in Nat
                        /\ \A m \in t.resident : m.name \in Name /\ m.vram \in Nat /\ m.size \in Nat
  BY DEF Report
<1>4. QED
  BY <1>1, <1>2, <1>3 DEF Resident

\* What a scrape of Ollama stores.
LEMMA OllamaStateType ==
  ASSUME ScTypeOK, NEW M, Resident(M)
  PROVE  OllamaState(M) \in BackendState
<1> DEFINE n == 100 * (usedBytes(M) \div MB)
           d == host.vramTotalMB
<1>1. n \in Nat
  BY MemoryNumbers DEF MB
<1>2. d \in Nat
  BY HostFacts
<1> HIDE DEF n
<1>3. d > 0 => n \div d \in Nat
  BY <1>1, <1>2, Quotient
<1>4. LoadedModels(M) \in SUBSET Name
  BY DEF LoadedModels, Resident
<1>5. QED
  BY <1>3, <1>4 DEF OllamaState, BackendState, n

\* The value of a metric line is read back as it was written.
LEMMA MetricIs ==
  ASSUME ScTypeOK, NEW v \in Nat
  PROVE  Metric(v) = v
<1> DEFINE f == Line(v)
<1>1. f \in Seq(Int) /\ Len(f) >= 2 /\ f[Len(f)] = v
  <2> DEFINE t == <<NaN>> \o host.labels
  <2>1. <<NaN>> \in Seq(Int) /\ host.labels \in Seq(Int) /\ <<v>> \in Seq(Int)
    <3>1. <<NaN>> \in Seq(Int) /\ <<v>> \in Seq(Int) /\ <<>> \in Seq(Int)
      BY DEF NaN
    <3>2. QED
      BY <3>1, HostFacts
  <2>2. t \in Seq(Int) /\ Len(t) >= 1
    BY <2>1, ConcatProperties
  <2> HIDE DEF t
  <2>3. Line(v) = t \o <<v>>
    BY DEF Line, t
  <2>4. f \in Seq(Int) /\ Len(f) = Len(t) + 1 /\ f[Len(t) + 1] = v
    BY <2>1, <2>2, <2>3, ConcatProperties
  <2>5. QED
    BY <2>2, <2>4
<1> HIDE DEF f
<1>2. parsePromLine(f) = v
  BY <1>1 DEF parsePromLine, NaN
<1>3. Max({0, v}) = v
  BY MaxMinOfTwo, 0 \in Int
<1>4. QED
  BY <1>2, <1>3 DEF Metric, f

\* The scraper starts without state and limit.
LEMMA ScInitType == ASSUME ScInit PROVE ScTypeOK
<1>1. Zero \in BackendState
  BY DEF Zero, BackendState
<1>2. QED
  BY <1>1 DEF ScInit, ScTypeOK

\* Every step of a scrape, in any order with those of others, keeps the types.
LEMMA ScNextType == ASSUME ScTypeOK, [ScNext]_svars PROVE ScTypeOK'
<1> USE DEF Goto, env
<1>0. Zero \in BackendState
  BY DEF Zero, BackendState
<1>1. ASSUME NEW j \in Job, PsAnswer(j) \/ PsError(j)
      PROVE  ScTypeOK'
  <2>1. PICK M \in {{}, truth.resident} : PsDecoded(j, M)
    BY <1>1 DEF PsAnswer, PsError
  <2>2. Resident(M)
    BY HostFacts, FS_EmptySet DEF ScTypeOK, Resident
  <2>3. OllamaState(M) \in BackendState
    BY <2>2, OllamaStateType
  <2>4. QED
    BY <2>1, <2>3 DEF PsDecoded, ScTypeOK
<1>2. ASSUME NEW j \in Job, PsFails(j) \/ MetricsFail(j) \/ Check(j) \/ Launch(j)
      PROVE  ScTypeOK'
  BY <1>2 DEF PsFails, MetricsFail, Check, Launch, ScTypeOK
<1>3. ASSUME NEW j \in Job, Seed(j) \/ Tune(j)
      PROVE  ScTypeOK'
  BY <1>3 DEF Seed, Tune, ScTypeOK, defaultColdConcurrent
<1>4. ASSUME NEW j \in Job, Size(j)
      PROVE  ScTypeOK'
  <2>1. ASSUME ps[j] # {}
        PROVE  sized(ps[j]) \in 1 .. 32
    <3>1. Resident(ps[j])
      BY <2>1, HostFacts DEF ScTypeOK
    <3>2. QED
      BY <2>1, <3>1, HostFacts, SizedBounds
  <2>2. autoConcurrent' \in 0 .. 32
    BY <1>4, <2>1 DEF Size, ScTypeOK
  <2>3. QED
    BY <1>4, <2>2 DEF Size, ScTypeOK
<1>5. ASSUME NEW j \in Job, MetricsAnswer(j)
      PROVE  ScTypeOK'
  <2> DEFINE u == Metric(truth.usage)
             w == Metric(truth.waiting)
  <2>1. u \in Nat /\ w \in Nat
    BY HostFacts, MetricIs DEF ScTypeOK
  <2>2. state' = [state EXCEPT ![j].pct = u, ![j].queue = w]
    BY <1>5 DEF MetricsAnswer
  <2> HIDE DEF u, w
  <2>3. state' \in [Job -> BackendState]
    BY <2>1, <2>2 DEF ScTypeOK, BackendState
  <2>4. QED
    BY <1>5, <2>3 DEF MetricsAnswer, ScTypeOK
<1>6. ASSUME NEW j \in Job, ModelsAnswer(j) \/ ModelsFail(j)
      PROVE  ScTypeOK'
  <2>1. {m.name : m \in truth.resident} \in SUBSET Name /\ host.models \in SUBSET Name
    BY HostFacts DEF ScTypeOK, Resident
  <2>2. PICK N \in SUBSET Name : state' = [state EXCEPT ![j].models = N]
    BY <1>6, <2>1 DEF ModelsAnswer, ModelsFail
  <2>3. state' \in [Job -> BackendState]
    BY <2>2 DEF ScTypeOK, BackendState
  <2>4. QED
    BY <1>6, <2>3 DEF ModelsAnswer, ModelsFail, ScTypeOK
<1>7. ASSUME NEW j \in Job, Store(j)
      PROVE  ScTypeOK'
  BY <1>0, <1>7 DEF Store, ScTypeOK
<1>8. ASSUME NEW t \in host.reports, Change(t)
      PROVE  ScTypeOK'
  BY <1>8 DEF Change, ScTypeOK
<1>9. CASE UNCHANGED svars
  BY <1>9 DEF svars, ScTypeOK
<1>10. QED
  BY <1>1, <1>2, <1>3, <1>4, <1>5, <1>6, <1>7, <1>8, <1>9
     DEF ScNext, Scrape, Answer, Failure

-----------------------------------------------------------------------------
(***************************************************************************)
(* The theorems.                                                           *)
(***************************************************************************)

\* The auto-tuned limit is within 0 .. 32 and the stored state well formed,
\* however the scrapes overlap (scraper.go:44-57, 158-197).
THEOREM ScraperTypeOK == ScSpec => []ScTypeOK
<1>1. ScInit => ScTypeOK
  BY ScInitType
<1>2. ScTypeOK /\ [ScNext]_svars => ScTypeOK'
  BY ScNextType
<1>3. QED
  BY <1>1, <1>2, PTL DEF ScSpec

\* "must never be left unlimited" (scraper.go:90-92): a limit, once it is there,
\* never goes away, whatever models come and go and however the scrapes overlap.
THEOREM ScraperStaysCapped == ScSpec => StaysCapped
<1> DEFINE Kept == effectiveConcurrent > 0 => effectiveConcurrent' > 0
<1>1. ScTypeOK /\ [ScNext]_svars => [Kept]_svars
  <2> SUFFICES ASSUME ScTypeOK, ScNext, effectiveConcurrent > 0
               PROVE  effectiveConcurrent' > 0
    OBVIOUS
  <2>1. host' = host /\ host.maxConcurrent \in Nat /\ autoConcurrent \in Nat
    <3>1. host' = host
      BY DEF ScNext, Scrape, Failure, Launch, Answer, PsDecoded, PsAnswer, PsError, PsFails, Check, Seed, Size,
             MetricsAnswer, MetricsFail, ModelsAnswer, ModelsFail, Tune, Store, Change, env
    <3>2. QED
      BY <3>1, HostFacts DEF ScTypeOK
  <2>2. autoConcurrent' > 0 \/ autoConcurrent' = autoConcurrent
    <3>1. ASSUME NEW j \in Job, Size(j)
          PROVE  autoConcurrent' > 0 \/ autoConcurrent' = autoConcurrent
      <4>1. CASE ps[j] = {}
        BY <3>1, <4>1 DEF Size
      <4>2. CASE ps[j] # {}
        <5>1. Resident(ps[j])
          BY <4>2, HostFacts DEF ScTypeOK
        <5>2. sized(ps[j]) \in 1 .. 32
          BY <4>2, <5>1, HostFacts, SizedBounds
        <5>3. autoConcurrent' \in {sized(ps[j]), autoConcurrent}
          BY <3>1 DEF Size
        <5>4. QED
          BY <5>2, <5>3
      <4>3. QED
        BY <4>1, <4>2
    <3>2. ASSUME NEW j \in Job, Seed(j) \/ Tune(j)
          PROVE  autoConcurrent' > 0 \/ autoConcurrent' = autoConcurrent
      BY <3>2 DEF Seed, Tune, defaultColdConcurrent
    <3>3. QED
      BY <3>1, <3>2
         DEF ScNext, Scrape, Failure, Launch, Answer, PsDecoded, PsAnswer, PsError, PsFails, Check,
             MetricsAnswer, MetricsFail, ModelsAnswer, ModelsFail, Store, Change
  <2>3. QED
    BY <2>1, <2>2 DEF effectiveConcurrent
<1>2. QED
  BY <1>1, ScraperTypeOK, PTL DEF ScSpec, StaysCapped

\* Whatever the scrapes that overlap it, the step that sizes a backend leaves a
\* limit of 1 to 32 slots that fit the memory which the models it has read leave
\* free: what SlotsFit says of a calm backend, of every sizing (scraper.go:158-160).
SizingFits ==
  [][\A j \in Job :
       (/\ pc[j] = "size" /\ pc'[j] = "store"
        /\ host.maxConcurrent = 0 /\ host.vramTotalMB > 0
        /\ \E m \in ps[j] : footprint(m) > 0)
         => autoConcurrent' \in 1 .. 32 /\ Fits(autoConcurrent', ps[j])]_svars

\* Every limit that autoConcurrent computes fits the VRAM it was computed for.
THEOREM ScraperSizingFits == ScSpec => SizingFits
<1> DEFINE Sizes(j) == /\ pc[j] = "size" /\ pc'[j] = "store"
                       /\ host.maxConcurrent = 0 /\ host.vramTotalMB > 0
                       /\ \E m \in ps[j] : footprint(m) > 0
           Good(j) == autoConcurrent' \in 1 .. 32 /\ Fits(autoConcurrent', ps[j])
<1>1. ScTypeOK /\ [ScNext]_svars => [\A j \in Job : Sizes(j) => Good(j)]_svars
  <2> SUFFICES ASSUME ScTypeOK, ScNext, NEW j \in Job, Sizes(j)
               PROVE  Good(j)
    OBVIOUS
  <2>1. Size(j)
    <3>1. pc = [i \in Job |-> pc[i]]
      BY DEF ScTypeOK
    <3>2. PICK k \in Job : Launch(k) \/ Scrape(k)
      BY DEF ScNext, Change
    <3>3. \A i \in Job : i # k => pc'[i] = pc[i]
      BY <3>1, <3>2
         DEF Launch, Scrape, Answer, PsDecoded, PsAnswer, PsError, PsFails, Check, Seed, Size, MetricsAnswer,
             MetricsFail, ModelsAnswer, ModelsFail, Tune, Store, Failure, Goto
    <3>4. k = j
      BY <3>3
    <3>5. QED
      BY <3>2, <3>4
         DEF Launch, Scrape, Answer, PsDecoded, PsAnswer, PsError, PsFails, Check, Seed, MetricsAnswer,
             MetricsFail, ModelsAnswer, ModelsFail, Tune, Store, Failure
  <2> DEFINE M == ps[j]
  <2>2. PICK m0 \in M : footprint(m0) > 0
    OBVIOUS
  <2>3. autoConcurrent' = sized(M)
    BY <2>1, <2>2 DEF Size
  <2>4. Resident(M) /\ M # {}
    BY <2>2, HostFacts DEF ScTypeOK
  <2>5. host.vramTotalMB \in Nat \ {0}
    BY HostFacts
  <2> HIDE DEF M
  <2>6. sized(M) \in 1 .. 32 /\ Fits(sized(M), M)
    BY <2>2, <2>4, <2>5, SizedBounds, SizedFits
  <2>7. QED
    BY <2>3, <2>6 DEF M
<1>2. QED
  BY <1>1, ScraperTypeOK, PTL DEF ScSpec, SizingFits

=============================================================================

--------------------------- MODULE CountersProofs ---------------------------
(***************************************************************************)
(* The compare-and-swap loops of backend.go are linearizable, for any      *)
(* number of callers: a successful swap, an addition and a load that finds *)
(* the counter at the limit are the moments at which tryReserve acts, a    *)
(* successful swap the one at which RecordPerTokenMs does.                 *)
(***************************************************************************)
EXTENDS BackendCounters, FiniteSetTheorems, TLAPS

-----------------------------------------------------------------------------
(***************************************************************************)
(* The inductive invariant.                                                *)
(***************************************************************************)
InReserve == {"add", "load", "swap"}
InRecord == {"rload", "rswap"}

HeldBy == {c \in Caller : pc[c] = "held"}

\* The counter is the number of callers that hold a slot.
HeldCounted == inflight = Cardinality(HeldBy)

\* The limit a caller has read: none for the plain addition, else one that the
\* value it is about to swap is below.
LimitKept ==
  \A c \in Caller :
    /\ pc[c] \in {"load", "swap"} => limit[c] > 0
    /\ pc[c] \notin {"load", "swap"} => limit[c] = 0
    /\ pc[c] = "swap" => cur[c] < limit[c]

\* A caller that records has a sample.
SampleKept ==
  \A c \in Caller : IF pc[c] \in InRecord THEN ms[c] \in Samples ELSE ms[c] = 0

BInv == BTypeOK /\ HeldCounted /\ LimitKept /\ SampleKept

\* The limit in force is a number.
LEMMA EffectiveNat == ASSUME BTypeOK PROVE Atomic!effectiveConcurrent \in Nat
  BY CountersAssumption DEF BTypeOK, Atomic!effectiveConcurrent

\* The average of two numbers is a number, between the two, positive, and less
\* than 1 off the exact one.
LEMMA AverageBetween ==
  ASSUME NEW old \in Nat, NEW s \in Nat \ {0}
  PROVE  LET new == Atomic!Average(old, s)
         IN  /\ new \in Nat
             /\ IF old = 0 THEN new = s
                ELSE /\ 5 * new \in (4 * old + s - 4) .. (4 * old + s)
                     /\ old <= new \/ s <= new
                     /\ new <= old \/ new <= s
             /\ new > 0
  BY DEF Atomic!Average

\* The callers that hold a slot are finitely many.
LEMMA HeldFinite == IsFiniteSet(HeldBy) /\ Cardinality(HeldBy) \in Nat
<1>1. HeldBy \in SUBSET Caller
  BY DEF HeldBy
<1>2. QED
  BY <1>1, CountersAssumption, FS_Subset, FS_CardinalityType

-----------------------------------------------------------------------------
(***************************************************************************)
(* The counter.                                                            *)
(***************************************************************************)

\* A step of a caller that neither takes nor returns a slot.
LEMMA HeldKept ==
  ASSUME BTypeOK, HeldCounted, NEW c \in Caller, NEW l \in PC \ {"held"},
         pc[c] # "held", Goto(c, l), inflight' = inflight
  PROVE  HeldCounted'
<1>1. HeldBy' = HeldBy
  BY DEF HeldBy, Goto, BTypeOK
<1>2. QED
  BY <1>1 DEF HeldCounted

\* A caller takes a slot.
LEMMA HeldTaken ==
  ASSUME BTypeOK, HeldCounted, NEW c \in Caller,
         pc[c] # "held", Goto(c, "held"), inflight' = inflight + 1
  PROVE  HeldCounted'
<1>1. HeldBy' = HeldBy \cup {c} /\ c \notin HeldBy
  BY DEF HeldBy, Goto, BTypeOK
<1>2. Cardinality(HeldBy \cup {c}) = Cardinality(HeldBy) + 1
  BY <1>1, HeldFinite, FS_AddElement
<1>3. QED
  BY <1>1, <1>2 DEF HeldCounted

\* A caller returns its slot; the counter was positive.
LEMMA HeldReturned ==
  ASSUME BTypeOK, HeldCounted, NEW c \in Caller, NEW l \in PC \ {"held"},
         pc[c] = "held", Goto(c, l), inflight' = inflight - 1
  PROVE  HeldCounted' /\ inflight' \in Nat
<1>1. HeldBy' = HeldBy \ {c} /\ c \in HeldBy
  BY DEF HeldBy, Goto, BTypeOK
<1>2. Cardinality(HeldBy \ {c}) = Cardinality(HeldBy) - 1
  BY <1>1, HeldFinite, FS_RemoveElement
<1>3. Cardinality(HeldBy \ {c}) \in Nat
  BY <1>1, HeldFinite, FS_RemoveElement, FS_CardinalityType
<1>4. QED
  BY <1>1, <1>2, <1>3 DEF HeldCounted

-----------------------------------------------------------------------------
(***************************************************************************)
(* Every step preserves the invariant.                                     *)
(***************************************************************************)

\* The invariant holds of a backend without requests.
LEMMA BInitInv == ASSUME BInit PROVE BInv
<1>1. BTypeOK /\ LimitKept /\ SampleKept
  BY DEF BInit, BTypeOK, LimitKept, SampleKept, PC, InRecord
<1>2. HeldBy = {}
  BY DEF BInit, HeldBy
<1>3. HeldCounted
  BY <1>2, FS_EmptySet DEF BInit, HeldCounted
<1>4. QED
  BY <1>1, <1>3 DEF BInv

\* tryReserve.
LEMMA ReserveInv ==
  ASSUME BInv, NEW c \in Caller,
         ReadLimit(c) \/ Add(c) \/ Load(c) \/ Swap(c) \/ SwapFails(c)
  PROVE  BInv'
<1> USE DEF BInv, Goto, PC, InRecord, shared
<1> DEFINE e == Atomic!effectiveConcurrent
<1>1. CASE ReadLimit(c)
  <2>1. e \in Nat
    BY EffectiveNat
  <2> HIDE DEF e
  <2>2. PICK l \in {"add", "load"} : /\ Goto(c, l)
                                     /\ l = "add" => e = 0
                                     /\ l = "load" => e > 0
    <3>1. CASE e <= 0
      BY <1>1, <2>1, <3>1 DEF ReadLimit, e
    <3>2. CASE ~(e <= 0)
      BY <1>1, <2>1, <3>2 DEF ReadLimit, e
    <3>3. QED
      BY <3>1, <3>2
  <2>3. limit' = [limit EXCEPT ![c] = e] /\ UNCHANGED <<shared, cur, ms>> /\ pc[c] = "idle"
    BY <1>1 DEF ReadLimit, e
  <2>4. BTypeOK'
    BY <2>1, <2>2, <2>3 DEF BTypeOK
  <2>5. HeldCounted'
    BY <2>2, <2>3, HeldKept
  <2>6. LimitKept' /\ SampleKept'
    BY <2>1, <2>2, <2>3 DEF BTypeOK, LimitKept, SampleKept
  <2>7. QED
    BY <2>4, <2>5, <2>6
<1>2. CASE Add(c)
  <2>1. BTypeOK' /\ LimitKept' /\ SampleKept'
    BY <1>2 DEF Add, BTypeOK, LimitKept, SampleKept
  <2>2. HeldCounted'
    BY <1>2, HeldTaken DEF Add
  <2>3. QED
    BY <2>1, <2>2
<1>3. CASE Load(c)
  <2>1. BTypeOK'
    BY <1>3 DEF Load, BTypeOK
  <2>2. LimitKept' /\ SampleKept'
    BY <1>3 DEF Load, BTypeOK, LimitKept, SampleKept
  <2>3. HeldCounted'
    BY <1>3, HeldKept DEF Load
  <2>4. QED
    BY <2>1, <2>2, <2>3
<1>4. CASE Swap(c)
  <2>1. BTypeOK' /\ LimitKept' /\ SampleKept'
    BY <1>4 DEF Swap, BTypeOK, LimitKept, SampleKept
  <2>2. HeldCounted'
    BY <1>4, HeldTaken DEF Swap, Unmoved
  <2>3. QED
    BY <2>1, <2>2
<1>5. CASE SwapFails(c)
  <2>1. BTypeOK' /\ LimitKept' /\ SampleKept'
    BY <1>5 DEF SwapFails, BTypeOK, LimitKept, SampleKept
  <2>2. HeldCounted'
    BY <1>5, HeldKept DEF SwapFails
  <2>3. QED
    BY <2>1, <2>2
<1>6. QED
  BY <1>1, <1>2, <1>3, <1>4, <1>5

\* decInflight and RecordPerTokenMs.
LEMMA RecordInv ==
  ASSUME BInv, NEW c \in Caller,
         \/ \E n \in Samples \cup {0} : decInflight(c, n)
         \/ RecordLoad(c) \/ RecordSwap(c) \/ RecordSwapFails(c)
  PROVE  BInv'
<1> USE DEF BInv, Goto, PC, InRecord, shared
<1>1. ASSUME NEW n \in Samples \cup {0}, decInflight(c, n)
      PROVE  BInv'
  <2>1. PICK l \in {"rload", "idle"} : /\ Goto(c, l)
                                       /\ l = "rload" => n \in Samples
                                       /\ l = "idle" => n = 0
    <3>1. n = 0 \/ (n \in Samples /\ n > 0)
      BY CountersAssumption
    <3>2. CASE n = 0
      BY <1>1, <3>2 DEF decInflight
    <3>3. CASE n \in Samples /\ n > 0
      BY <1>1, <3>3 DEF decInflight
    <3>4. QED
      BY <3>1, <3>2, <3>3
  <2>2. /\ pc[c] = "held" /\ inflight' = inflight - 1 /\ ms' = [ms EXCEPT ![c] = n]
        /\ UNCHANGED <<perTokenMs, autoConcurrent, limit, cur>>
    BY <1>1 DEF decInflight
  <2>3. HeldCounted' /\ inflight' \in Nat
    BY <2>1, <2>2, HeldReturned
  <2>4. BTypeOK' /\ LimitKept' /\ SampleKept'
    BY <2>1, <2>2, <2>3 DEF BTypeOK, LimitKept, SampleKept
  <2>5. QED
    BY <2>3, <2>4
<1>2. CASE RecordLoad(c)
  <2>1. BTypeOK' /\ LimitKept' /\ SampleKept'
    BY <1>2 DEF RecordLoad, BTypeOK, LimitKept, SampleKept
  <2>2. HeldCounted'
    BY <1>2, HeldKept DEF RecordLoad
  <2>3. QED
    BY <2>1, <2>2
<1>3. CASE RecordSwap(c)
  <2>1. perTokenMs' \in Nat
    <3>1. cur[c] \in Nat /\ ms[c] \in Nat \ {0}
      BY <1>3, CountersAssumption DEF RecordSwap, BTypeOK, SampleKept
    <3>2. QED
      BY <1>3, <3>1, AverageBetween DEF RecordSwap
  <2>2. BTypeOK' /\ LimitKept' /\ SampleKept'
    BY <1>3, <2>1 DEF RecordSwap, BTypeOK, LimitKept, SampleKept
  <2>3. HeldCounted'
    BY <1>3, HeldKept DEF RecordSwap
  <2>4. QED
    BY <2>2, <2>3
<1>4. CASE RecordSwapFails(c)
  <2>1. BTypeOK' /\ LimitKept' /\ SampleKept'
    BY <1>4 DEF RecordSwapFails, BTypeOK, LimitKept, SampleKept
  <2>2. HeldCounted'
    BY <1>4, HeldKept DEF RecordSwapFails
  <2>3. QED
    BY <2>1, <2>2
<1>5. QED
  BY <1>1, <1>2, <1>3, <1>4

\* Every step preserves the invariant.
LEMMA BNextInv == ASSUME BInv, [BNext]_vars PROVE BInv'
<1>1. ASSUME NEW n \in AutoLimits, SetAutoConcurrent(n)
      PROVE  BInv'
  BY <1>1 DEF SetAutoConcurrent, BInv, BTypeOK, HeldCounted, HeldBy, LimitKept, SampleKept
<1>2. CASE UNCHANGED vars
  BY <1>2 DEF vars, shared, BInv, BTypeOK, HeldCounted, HeldBy, LimitKept, SampleKept
<1>3. QED
  BY <1>1, <1>2, ReserveInv, RecordInv DEF BNext, Loop

\* The inductive invariant holds throughout.
THEOREM CountersInvariant == BSpec => []BInv
<1>1. BInit => BInv
  BY BInitInv
<1>2. BInv /\ [BNext]_vars => BInv'
  BY BNextInv
<1>3. QED
  BY <1>1, <1>2, PTL DEF BSpec

\* The counters and the callers' locals keep their types; Inflight and
\* PerTokenMs never go negative (backend.go:29).
THEOREM CountersTypeOK == BSpec => []BTypeOK
<1>1. BInv => BTypeOK
  BY DEF BInv
<1>2. QED
  BY <1>1, CountersInvariant, PTL

-----------------------------------------------------------------------------
(***************************************************************************)
(* The refinement of AtomicCounters.                                       *)
(***************************************************************************)
OpOf(l) == CASE l \in InReserve -> "reserve" [] l \in InRecord -> "record" [] OTHER -> l

\* A step of a caller, seen from AtomicCounters.
LEMMA OpStep ==
  ASSUME BTypeOK, NEW c \in Caller, NEW l \in PC, Goto(c, l)
  PROVE  Op' = [Op EXCEPT ![c] = OpOf(l)] /\ Op[c] = OpOf(pc[c])
<1>1. \A d \in Caller : Op[d] = OpOf(pc[d]) /\ Op'[d] = OpOf(pc'[d])
  BY DEF Op, OpOf, InReserve, InRecord
<1>2. \A d \in Caller : pc'[d] = IF d = c THEN l ELSE pc[d]
  BY DEF BTypeOK, Goto
<1>3. Op = [d \in Caller |-> Op[d]] /\ Op' = [d \in Caller |-> Op'[d]]
  BY DEF Op
<1> HIDE DEF Op
<1>4. QED
  BY <1>1, <1>2, <1>3

\* The names of the operations.
LEMMA OpNames ==
  /\ OpOf("idle") = "idle" /\ OpOf("held") = "held"
  /\ OpOf("add") = "reserve" /\ OpOf("load") = "reserve" /\ OpOf("swap") = "reserve"
  /\ OpOf("rload") = "record" /\ OpOf("rswap") = "record"
  BY DEF OpOf, InReserve, InRecord

\* A caller that stays within one operation does nothing AtomicCounters sees.
LEMMA SameOp ==
  ASSUME BTypeOK, NEW c \in Caller, NEW l \in PC, Goto(c, l), OpOf(l) = OpOf(pc[c]),
         UNCHANGED <<shared, limit, ms>>
  PROVE  UNCHANGED Atomic!avars
<1>1. Op' = Op
  <2>1. Op' = [Op EXCEPT ![c] = Op[c]]
    BY OpStep
  <2>2. Op = [d \in Caller |-> Op[d]]
    BY DEF Op
  <2> HIDE DEF Op
  <2>3. QED
    BY <2>1, <2>2
<1>2. QED
  BY <1>1 DEF Atomic!avars, shared

\* tryReserve takes effect when it adds, swaps or finds the counter at the limit.
LEMMA ReserveAtomic ==
  ASSUME BInv, NEW c \in Caller,
         ReadLimit(c) \/ Add(c) \/ Load(c) \/ Swap(c) \/ SwapFails(c)
  PROVE  Atomic!Call(c) \/ Atomic!tryReserve(c) \/ UNCHANGED Atomic!avars
<1> USE DEF BInv, PC
<1> DEFINE e == Atomic!effectiveConcurrent
<1>1. CASE ReadLimit(c)
  <2> HIDE DEF e
  <2>1. PICK l \in {"add", "load"} : Goto(c, l)
    BY <1>1 DEF ReadLimit, e
  <2>2. Op[c] = "idle" /\ Op' = [Op EXCEPT ![c] = "reserve"]
    BY <1>1, <2>1, OpStep, OpNames DEF ReadLimit
  <2> HIDE DEF Op
  <2>3. QED
    BY <1>1, <2>2 DEF ReadLimit, Atomic!Call, shared
<1>2. CASE Add(c)
  <2>1. Op[c] = "reserve" /\ Op' = [Op EXCEPT ![c] = "held"]
    BY <1>2, OpStep, OpNames DEF Add
  <2>2. limit[c] <= 0 /\ limit' = [limit EXCEPT ![c] = 0]
    BY <1>2 DEF Add, LimitKept, BTypeOK
  <2>3. inflight' = inflight + 1 /\ UNCHANGED <<perTokenMs, autoConcurrent, ms>>
    BY <1>2 DEF Add
  <2> HIDE DEF Op
  <2>4. QED
    BY <2>1, <2>2, <2>3 DEF Atomic!tryReserve
<1>3. CASE Load(c)
  <2>1. CASE inflight >= limit[c]
    <3>1. Goto(c, "idle") /\ pc[c] = "load" /\ limit' = [limit EXCEPT ![c] = 0]
      BY <1>3, <2>1 DEF Load
    <3>2. Op[c] = "reserve" /\ Op' = [Op EXCEPT ![c] = "idle"]
      BY <3>1, OpStep, OpNames
    <3>3. ~(limit[c] <= 0 \/ inflight < limit[c])
      BY <2>1, <3>1 DEF LimitKept, BTypeOK
    <3> HIDE DEF Op
    <3>4. QED
      BY <1>3, <3>1, <3>2, <3>3 DEF Load, Atomic!tryReserve, shared
  <2>2. CASE ~(inflight >= limit[c])
    BY <1>3, <2>2, SameOp, OpNames DEF Load
  <2>3. QED
    BY <2>1, <2>2
<1>4. CASE Swap(c)
  <2>1. Op[c] = "reserve" /\ Op' = [Op EXCEPT ![c] = "held"]
    BY <1>4, OpStep, OpNames DEF Swap
  <2>2. inflight' = inflight + 1 /\ inflight < limit[c]
    BY <1>4 DEF Swap, Unmoved, LimitKept
  <2> HIDE DEF Op
  <2>3. QED
    BY <1>4, <2>1, <2>2 DEF Swap, Atomic!tryReserve
<1>5. CASE SwapFails(c)
  BY <1>5, SameOp, OpNames DEF SwapFails
<1>6. QED
  BY <1>1, <1>2, <1>3, <1>4, <1>5

\* RecordPerTokenMs takes effect when it swaps.
LEMMA RecordAtomic ==
  ASSUME BInv, NEW c \in Caller,
         \/ \E n \in Samples \cup {0} : decInflight(c, n)
         \/ RecordLoad(c) \/ RecordSwap(c) \/ RecordSwapFails(c)
  PROVE  \/ \E n \in Samples \cup {0} : Atomic!decInflight(c, n)
         \/ Atomic!RecordPerTokenMs(c) \/ UNCHANGED Atomic!avars
<1> USE DEF BInv, PC
<1>1. ASSUME NEW n \in Samples \cup {0}, decInflight(c, n)
      PROVE  Atomic!decInflight(c, n)
  <2>1. CASE n > 0
    <3>1. Op[c] = "held" /\ Op' = [Op EXCEPT ![c] = "record"]
      BY <1>1, <2>1, OpStep, OpNames DEF decInflight
    <3> HIDE DEF Op
    <3>2. QED
      BY <1>1, <2>1, <3>1 DEF decInflight, Atomic!decInflight
  <2>2. CASE ~(n > 0)
    <3>1. Op[c] = "held" /\ Op' = [Op EXCEPT ![c] = "idle"]
      BY <1>1, <2>2, OpStep, OpNames DEF decInflight
    <3> HIDE DEF Op
    <3>2. QED
      BY <1>1, <2>2, <3>1 DEF decInflight, Atomic!decInflight
  <2>3. QED
    BY <2>1, <2>2
<1>2. CASE RecordLoad(c)
  BY <1>2, SameOp, OpNames DEF RecordLoad
<1>3. CASE RecordSwap(c)
  <2>1. Op[c] = "record" /\ Op' = [Op EXCEPT ![c] = "idle"]
    BY <1>3, OpStep, OpNames DEF RecordSwap
  <2> HIDE DEF Op
  <2>2. QED
    BY <1>3, <2>1 DEF RecordSwap, Unmoved, Atomic!RecordPerTokenMs
<1>4. CASE RecordSwapFails(c)
  BY <1>4, SameOp, OpNames DEF RecordSwapFails
<1>5. QED
  BY <1>1, <1>2, <1>3, <1>4

\* Both loops are linearizable (backend.go:76-80 and 106): the counters with
\* their compare-and-swap loops implement AtomicCounters.
THEOREM CountersImplementAtomic == BSpec => ImplementsAtomic
<1>1. BInit => Atomic!Init
  BY DEF BInit, Atomic!Init, Op
<1>2. BInv /\ [BNext]_vars => [Atomic!Next]_Atomic!avars
  <2> SUFFICES ASSUME BInv, [BNext]_vars
               PROVE  [Atomic!Next]_Atomic!avars
    OBVIOUS
  <2>1. ASSUME NEW n \in AutoLimits, SetAutoConcurrent(n)
        PROVE  Atomic!SetAutoConcurrent(n)
    BY <2>1 DEF SetAutoConcurrent, Atomic!SetAutoConcurrent, Op
  <2>2. CASE UNCHANGED vars
    BY <2>2 DEF vars, shared, Atomic!avars, Op
  <2> HIDE DEF Op
  <2>3. QED
    BY <2>1, <2>2, ReserveAtomic, RecordAtomic DEF BNext, Loop, Atomic!Next
<1>3. QED
  BY <1>1, <1>2, CountersInvariant, PTL DEF BSpec, ImplementsAtomic, Atomic!Spec

\* Every change of perTokenMs is the moving average for a sample some caller is
\* recording, less than 1 ms off, between the old value and the sample, and
\* never 0, "no requests yet" (backend.go:104, 114, 123).
THEOREM CountersSpeedTracks == BSpec => SpeedTracks
<1> DEFINE Tracks ==
      perTokenMs' # perTokenMs =>
       \E c \in Caller :
         LET old == perTokenMs
             new == perTokenMs'
         IN  /\ pc[c] = "rswap" /\ pc'[c] = "idle"
             /\ IF old = 0 THEN new = ms[c]
                ELSE /\ 5 * new \in (4 * old + ms[c] - 4) .. (4 * old + ms[c])
                     /\ old <= new \/ ms[c] <= new
                     /\ new <= old \/ new <= ms[c]
             /\ new > 0
<1>1. BInv /\ [BNext]_vars => [Tracks]_vars
  <2> SUFFICES ASSUME BInv, [BNext]_vars
               PROVE  Tracks
    OBVIOUS
  <2>1. ASSUME NEW c \in Caller, RecordSwap(c)
        PROVE  Tracks
    <3>1. pc[c] = "rswap" /\ pc'[c] = "idle"
      BY <2>1 DEF RecordSwap, Goto, BInv, BTypeOK
    <3>2. perTokenMs \in Nat /\ ms[c] \in Nat \ {0}
      BY <2>1, CountersAssumption DEF RecordSwap, BInv, BTypeOK, SampleKept, InRecord
    <3>3. perTokenMs' = Atomic!Average(perTokenMs, ms[c])
      BY <2>1 DEF RecordSwap, Unmoved
    <3>4. QED
      BY <3>1, <3>2, <3>3, AverageBetween
  <2>2. CASE UNCHANGED perTokenMs
    BY <2>2
  <2>3. ASSUME NEW c \in Caller,
               \/ ReadLimit(c) \/ Add(c) \/ Load(c) \/ Swap(c) \/ SwapFails(c)
               \/ RecordLoad(c) \/ RecordSwapFails(c)
               \/ \E n \in Samples \cup {0} : decInflight(c, n)
        PROVE  UNCHANGED perTokenMs
    BY <2>3 DEF ReadLimit, Add, Load, Swap, SwapFails, RecordLoad, RecordSwapFails,
                decInflight, shared
  <2>4. ASSUME NEW n \in AutoLimits, SetAutoConcurrent(n)
        PROVE  UNCHANGED perTokenMs
    BY <2>4 DEF SetAutoConcurrent
  <2>5. CASE UNCHANGED vars
    BY <2>5 DEF vars, shared
  <2> HIDE DEF Tracks
  <2>6. QED
    BY <2>1, <2>2, <2>3, <2>4, <2>5 DEF BNext, Loop
<1>2. SpeedTracks <=> [][Tracks]_vars
  BY PTL DEF SpeedTracks
<1> HIDE DEF Tracks
<1>3. QED
  BY <1>1, <1>2, CountersInvariant, PTL DEF BSpec

\* The average is unset or lies between the bounds of the samples, whatever the
\* interleaving of the recordings: rounding down never takes it below the least
\* (backend.go:104-115).
THEOREM CountersSpeedBetween ==
  ASSUME NEW lo \in Nat \ {0}, NEW hi \in Nat, Samples \subseteq lo .. hi
  PROVE  BSpec => [](perTokenMs = 0 \/ perTokenMs \in lo .. hi)
<1> DEFINE Between == perTokenMs = 0 \/ perTokenMs \in lo .. hi
           Moves == perTokenMs' # perTokenMs =>
             \E c \in Caller :
               LET old == perTokenMs
                   new == perTokenMs'
               IN  /\ pc[c] = "rswap" /\ pc'[c] = "idle"
                   /\ IF old = 0 THEN new = ms[c]
                      ELSE /\ 5 * new \in (4 * old + ms[c] - 4) .. (4 * old + ms[c])
                           /\ old <= new \/ ms[c] <= new
                           /\ new <= old \/ new <= ms[c]
                   /\ new > 0
<1>1. BInit => Between
  BY DEF BInit
<1>2. BInv /\ BInv' /\ Between /\ [Moves]_vars => Between'
  <2> SUFFICES ASSUME BInv, BInv', Between, [Moves]_vars, perTokenMs' # perTokenMs
               PROVE  Between'
    OBVIOUS
  <2>1. PICK c \in Caller :
          /\ pc[c] = "rswap"
          /\ IF perTokenMs = 0 THEN perTokenMs' = ms[c]
             ELSE /\ perTokenMs <= perTokenMs' \/ ms[c] <= perTokenMs'
                  /\ perTokenMs' <= perTokenMs \/ perTokenMs' <= ms[c]
    BY DEF vars, shared
  <2>2. ms[c] \in lo .. hi
    BY <2>1 DEF BInv, SampleKept, InRecord
  <2>3. perTokenMs \in Nat /\ perTokenMs' \in Nat
    BY DEF BInv, BTypeOK
  <2>4. QED
    BY <2>1, <2>2, <2>3
<1>3. SpeedTracks <=> [][Moves]_vars
  BY PTL DEF SpeedTracks
<1> HIDE DEF Moves
<1>4. QED
  BY <1>1, <1>2, <1>3, CountersInvariant, CountersSpeedTracks, PTL DEF BSpec

=============================================================================

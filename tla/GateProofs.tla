----------------------------- MODULE GateProofs -----------------------------
(***************************************************************************)
(* Invariance proofs for Gate, for every set of requests, every limit and  *)
(* every sequence of capacities.                                           *)
(***************************************************************************)
EXTENDS Gate, FiniteSetTheorems, SequenceTheorems, TLAPS

-----------------------------------------------------------------------------
(***************************************************************************)
(* The queue operations.                                                   *)
(***************************************************************************)

\* Cutting a place out of a queue leaves a queue that is one shorter.
LEMMA CutProperties ==
  ASSUME NEW q \in Seq(Request), NEW k \in 1 .. Len(q)
  PROVE  /\ Cut(q, k) \in Seq(Request)
         /\ Len(Cut(q, k)) = Len(q) - 1
         /\ \A j \in 1 .. Len(q) - 1 :
              Cut(q, k)[j] = IF j < k THEN q[j] ELSE q[j + 1]
BY DEF Cut

\* Remove cuts out exactly the one place that holds r.
LEMMA RemoveIsCut ==
  ASSUME NEW q \in Seq(Request), NEW r,
         \A i, j \in 1 .. Len(q) : q[i] = q[j] => i = j,
         NEW k \in 1 .. Len(q), q[k] = r
  PROVE  Remove(q, r) = Cut(q, k)
<1> DEFINE At(i) == q[i] = r /\ \A j \in 1 .. i - 1 : q[j] # r
<1>1. At(k)
  OBVIOUS
<1>2. (CHOOSE i \in 1 .. Len(q) : At(i)) = k
  BY <1>1
<1>3. QED
  BY <1>1, <1>2 DEF Remove

-----------------------------------------------------------------------------
(***************************************************************************)
(* The inductive invariant.  SlotsAccounted is not inductive by itself: a  *)
(* hand-off adds a slot owner only if the head of the queue owns none yet, *)
(* which is QueueDiscipline, and the fast path must not admit a request    *)
(* that was already woken, which is ReadyWaits.  NoStrandedWaiter needs    *)
(* the limits that requests carry to the lock to be positive, LimitRead.   *)
(***************************************************************************)

\* Only a request blocked in Acquire has a closed channel to look at.
ReadyWaits == \A r \in ready : pc[r] \in {"waiting", "cancelling"}

\* A limit carried to the lock is one the gate had, and is positive.
LimitRead ==
  \A r \in Request :
    pc[r] = "lock" => Enabled /\ lim[r] > 0 /\ lim[r] \in limit

\* A disabled gate keeps nobody waiting and has no slot to return.
DisabledIdle ==
  ~Enabled => \A r \in Request : pc[r] \in {"idle", "holding"}

IInv ==
  /\ TypeOK
  /\ ReadyWaits
  /\ LimitRead
  /\ DisabledIdle
  /\ SlotsAccounted
  /\ QueueDiscipline
  /\ NoStrandedWaiter
  /\ QueueBounded
  /\ InflightBounded

\* The three tiers, by name.
LEMMA Tiers == Priority = {0, 1, 2}
BY DEF Priority, numPriorities

\* limit() returns an integer, positive exactly when the gate is enabled.
LEMMA LimitEnabled ==
  /\ limit # {} /\ limit \subseteq Int
  /\ \A l \in limit : l > 0 <=> Enabled
<1>0. MaxInt32 \in Int /\ MaxInt32 > 0
  BY SMT DEF MaxInt32
<1>1. CASE HasLimitFn
  <2>1. limit = {IF n > 0 THEN n ELSE MaxInt32 : n \in Capacities}
    BY <1>1 DEF limit
  <2>2. limit # {}
    BY <2>1, CapacitiesAssumption
  <2>3. \A l \in limit : l \in Int /\ l > 0
    BY <1>0, <2>1, CapacitiesAssumption
  <2>4. QED
    BY <1>1, <2>2, <2>3 DEF Enabled
<1>2. CASE ~HasLimitFn
  BY <1>2, MaxInflightAssumption DEF limit, Enabled
<1>3. QED
  BY <1>1, <1>2

\* Somebody waits exactly when some tier's queue is not empty.
LEMMA QueuedTiers ==
  ASSUME queues \in [Priority -> Seq(Request)]
  PROVE  /\ totalQueued \in Nat
         /\ totalQueued > 0 <=> \E p \in Priority : queues[p] # <<>>
<1>1. \A p \in Priority : /\ Len(queues[p]) \in Nat
                          /\ Len(queues[p]) > 0 <=> queues[p] # <<>>
  BY LenProperties, EmptySeq
<1>2. QED
  BY <1>1, Tiers DEF totalQueued

\* The tier Release serves exists and is the most urgent one.
LEMMA NextTierProperties ==
  ASSUME WaitingTiers # {}
  PROVE  NextTier \in WaitingTiers /\ \A q \in WaitingTiers : NextTier <= q
<1>1. \E p \in WaitingTiers : \A q \in WaitingTiers : p <= q
  BY Tiers DEF WaitingTiers
<1>2. QED
  BY <1>1 DEF NextTier

\* The slot owners are a finite set.
LEMMA HoldersFinite ==
  ASSUME TypeOK
  PROVE  IsFiniteSet(Holders) /\ Cardinality(Holders) \in Nat
<1>1. Holders \in SUBSET Request
  BY DEF Holders, TypeOK
<1>2. QED
  BY <1>1, RequestAssumption, FS_Subset, FS_CardinalityType

\* The invariant holds of a new gate (NewGate, gate.go:60-62).
LEMMA InitIInv == ASSUME Init PROVE IInv
<1>1. TypeOK
  BY Tiers, EmptySeq, MaxInflightAssumption DEF Init, TypeOK, PC
<1>2. Holders = {} /\ inflight = 0 /\ totalQueued = 0
  BY Tiers, EmptySeq DEF Init, Holders, totalQueued
<1>3. SlotsAccounted
  BY <1>2, FS_EmptySet DEF SlotsAccounted
<1>4. QueueDiscipline
  <2>1. \A p \in Priority : Len(queues[p]) = 0
    BY EmptySeq DEF Init
  <2>2. \A r \in Request : ~Unwoken(r)
    BY DEF Init, Unwoken
  <2>3. QED
    BY <2>1, <2>2 DEF QueueDiscipline
<1>5. NoStrandedWaiter
  BY <1>2 DEF NoStrandedWaiter
<1>6. QueueBounded
  BY EmptySeq, limitsAssumption DEF Init, QueueBounded
<1>7. InflightBounded
  <2>1. PICK l \in limit : TRUE
    BY LimitEnabled
  <2>2. Enabled => 0 <= l
    BY LimitEnabled
  <2>3. QED
    BY <1>2, <2>2 DEF InflightBounded
<1>8. ReadyWaits /\ LimitRead /\ DisabledIdle
  BY DEF Init, ReadyWaits, LimitRead, DisabledIdle
<1>9. QED
  BY <1>1, <1>3, <1>4, <1>5, <1>6, <1>7, <1>8 DEF IInv

-----------------------------------------------------------------------------
(***************************************************************************)
(* Preservation.  The steps that neither touch the queues nor move a slot  *)
(* are alike: they keep the slot owners and the unwoken waiters.           *)
(***************************************************************************)

\* A step that keeps the counter, the queues, the slot owners and the unwoken
\* waiters keeps everything the invariant says of them.
LEMMA QuietStep ==
  ASSUME IInv, inflight' = inflight, queues' = queues, Holders' = Holders,
         \A r \in Request : /\ Unwoken(r)' <=> Unwoken(r)
                            /\ Unwoken(r) => prio'[r] = prio[r]
  PROVE  /\ SlotsAccounted' /\ QueueDiscipline' /\ NoStrandedWaiter'
         /\ QueueBounded' /\ InflightBounded'
<1>1. SlotsAccounted' /\ NoStrandedWaiter' /\ QueueBounded' /\ InflightBounded'
  BY DEF IInv, SlotsAccounted, NoStrandedWaiter, QueueBounded, InflightBounded,
         totalQueued, Enabled, limit
<1>2. \A p \in Priority : \A i \in 1 .. Len(queues[p]) : queues[p][i] \in Request
  BY ElementOfSeq DEF IInv, TypeOK
<1>3. QueueDiscipline'
  BY <1>2 DEF IInv, QueueDiscipline
<1>4. QED
  BY <1>1, <1>3

\* A disabled gate has nobody waiting.
LEMMA DisabledEmpty ==
  ASSUME IInv, ~Enabled
  PROVE  /\ \A q \in Request : ~Unwoken(q)
         /\ \A p \in Priority : queues[p] = <<>>
         /\ totalQueued = 0
<1>1. \A q \in Request : ~Unwoken(q)
  BY DEF IInv, DisabledIdle, Unwoken
<1>2. \A p \in Priority : queues[p] = <<>>
  <2> SUFFICES ASSUME NEW p \in Priority, queues[p] # <<>>
               PROVE  FALSE
    OBVIOUS
  <2>1. queues[p] \in Seq(Request) /\ 1 \in 1 .. Len(queues[p])
    BY EmptySeq, LenProperties DEF IInv, TypeOK
  <2>2. queues[p][1] \in Request /\ Unwoken(queues[p][1])
    BY <2>1, ElementOfSeq DEF IInv, QueueDiscipline
  <2>3. QED
    BY <1>1, <2>2
<1>3. totalQueued = 0
  BY <1>2, QueuedTiers DEF IInv, TypeOK
<1>4. QED
  BY <1>1, <1>2, <1>3

\* Acquire's read of the limit preserves the invariant.
LEMMA AcquireIInv ==
  ASSUME IInv, NEW r \in Request, NEW p \in Priority,
         NEW l \in limit, Acquire(r, p, l)
  PROVE  IInv'
<1>0. l \in Int /\ (l > 0 <=> Enabled)
  BY LimitEnabled
<1>1. r \notin ready
  BY DEF IInv, ReadyWaits, Acquire
<1>2. UNCHANGED <<inflight, queues, ready>>
  BY DEF Acquire
<1>3. Enabled' = Enabled /\ limit' = limit
  BY DEF Enabled, limit
<1>4. CASE ~Enabled
  <2>1. /\ pc' = [pc EXCEPT ![r] = "holding"] /\ lim' = [lim EXCEPT ![r] = 0]
        /\ prio' = [prio EXCEPT ![r] = p]
    BY <1>0, <1>4 DEF Acquire, Return
  <2>2. TypeOK'
    BY <2>1 DEF IInv, TypeOK, Acquire, PC
  <2>3. ReadyWaits' /\ LimitRead' /\ DisabledIdle'
    BY <1>1, <1>2, <1>3, <2>1 DEF IInv, TypeOK, ReadyWaits, LimitRead, DisabledIdle
  <2>4. SlotsAccounted' /\ InflightBounded'
    BY <1>2, <1>3, <1>4 DEF IInv, SlotsAccounted, InflightBounded
  <2>5. \A q \in Request : ~Unwoken(q)'
    BY <1>2, <2>1, DisabledEmpty, <1>4 DEF IInv, TypeOK, Unwoken
  <2>6. \A q \in Priority : Len(queues[q]) = 0
    BY <1>4, DisabledEmpty, EmptySeq
  <2>7. QueueDiscipline'
    BY <1>2, <2>5, <2>6 DEF QueueDiscipline
  <2>8. NoStrandedWaiter' /\ QueueBounded'
    <3>1. totalQueued' = 0
      BY <1>2, <1>4, DisabledEmpty DEF totalQueued
    <3>2. QED
      BY <1>2, <3>1 DEF IInv, NoStrandedWaiter, QueueBounded
  <2>9. QED
    BY <2>2, <2>3, <2>4, <2>7, <2>8 DEF IInv
<1>5. CASE Enabled
  <2>1. /\ pc' = [pc EXCEPT ![r] = "lock"] /\ lim' = [lim EXCEPT ![r] = l]
        /\ prio' = [prio EXCEPT ![r] = p]
    BY <1>0, <1>5 DEF Acquire
  <2>2. TypeOK'
    BY <1>0, <2>1 DEF IInv, TypeOK, Acquire, PC
  <2>3. ReadyWaits' /\ LimitRead' /\ DisabledIdle'
    BY <1>0, <1>1, <1>2, <1>3, <1>5, <2>1
       DEF IInv, TypeOK, ReadyWaits, LimitRead, DisabledIdle
  <2>4. Holders' = Holders
    BY <1>2, <2>1 DEF IInv, TypeOK, Holders, Acquire
  <2>5. \A q \in Request : /\ Unwoken(q)' <=> Unwoken(q)
                           /\ Unwoken(q) => prio'[q] = prio[q]
    BY <1>2, <2>1 DEF IInv, TypeOK, Unwoken, Acquire
  <2>6. QED
    BY <1>2, <2>2, <2>3, <2>4, <2>5, QuietStep DEF IInv
<1>6. QED
  BY <1>4, <1>5

\* The fast path adds one slot owner and counts it.
LEMMA AdmitIInv ==
  ASSUME IInv, NEW r \in Request, Admit(r)
  PROVE  IInv'
<1>1. TypeOK'
  BY DEF IInv, TypeOK, Admit, Return, PC
<1>2. r \notin ready /\ r \notin Holders /\ Enabled
  BY DEF IInv, ReadyWaits, LimitRead, Holders, Admit
<1>3. ReadyWaits' /\ LimitRead' /\ DisabledIdle'
  BY <1>2 DEF IInv, ReadyWaits, LimitRead, DisabledIdle, Admit, Return, TypeOK,
              Enabled, limit
<1>4. Holders' = Holders \cup {r}
  BY DEF IInv, TypeOK, Holders, Admit, Return
<1>5. SlotsAccounted'
  <2>1. Cardinality(Holders \cup {r}) = Cardinality(Holders) + 1
    BY <1>2, HoldersFinite, FS_AddElement DEF IInv
  <2>2. QED
    BY <1>2, <1>4, <2>1 DEF IInv, SlotsAccounted, Admit, Enabled
<1>6. QueueDiscipline'
  <2>1. \A q \in Request : /\ Unwoken(q)' <=> Unwoken(q)
                           /\ prio'[q] = prio[q]
    BY DEF IInv, TypeOK, Unwoken, Admit, Return
  <2>2. \A p \in Priority : \A i \in 1 .. Len(queues[p]) : queues[p][i] \in Request
    BY ElementOfSeq DEF IInv, TypeOK
  <2>3. QED
    BY <2>1, <2>2 DEF IInv, QueueDiscipline, Admit
<1>7. NoStrandedWaiter' /\ QueueBounded'
  BY <1>4 DEF IInv, NoStrandedWaiter, QueueBounded, totalQueued, Admit
<1>8. InflightBounded'
  <2>1. lim[r] \in limit /\ inflight + 1 <= lim[r]
    BY DEF IInv, TypeOK, LimitRead, Admit, FastPath
  <2>2. QED
    BY <2>1 DEF InflightBounded, Admit, limit
<1>9. QED
  BY <1>1, <1>3, <1>5, <1>6, <1>7, <1>8 DEF IInv

\* A rejected request leaves no trace.
LEMMA RejectIInv ==
  ASSUME IInv, NEW r \in Request, Reject(r)
  PROVE  IInv'
<1>1. TypeOK'
  BY Tiers DEF IInv, TypeOK, Reject, Leave, Return, PC
<1>2. ReadyWaits' /\ LimitRead' /\ DisabledIdle'
  BY DEF IInv, ReadyWaits, LimitRead, DisabledIdle, Reject, Leave, Return, TypeOK,
         Enabled, limit
<1>3. Holders' = Holders /\ inflight' = inflight /\ queues' = queues
  BY DEF IInv, TypeOK, Holders, Reject, Leave, Return
<1>4. \A q \in Request : /\ Unwoken(q)' <=> Unwoken(q)
                         /\ Unwoken(q) => prio'[q] = prio[q]
  BY DEF IInv, TypeOK, Unwoken, Reject, Leave, Return
<1>5. QED
  BY <1>1, <1>2, <1>3, <1>4, QuietStep DEF IInv

\* A woken waiter already owned its slot.
LEMMA WokenIInv ==
  ASSUME IInv, NEW r \in Request, Woken(r)
  PROVE  IInv'
<1>1. TypeOK'
  BY DEF IInv, TypeOK, Woken, PC
<1>2. ReadyWaits' /\ LimitRead' /\ DisabledIdle'
  BY DEF IInv, ReadyWaits, LimitRead, DisabledIdle, Woken, TypeOK, Enabled,
         limit
<1>3. Holders' = Holders /\ inflight' = inflight /\ queues' = queues
  BY DEF IInv, TypeOK, Holders, Woken
<1>4. \A q \in Request : /\ Unwoken(q)' <=> Unwoken(q)
                         /\ Unwoken(q) => prio'[q] = prio[q]
  BY DEF IInv, TypeOK, Unwoken, Woken
<1>5. QED
  BY <1>1, <1>2, <1>3, <1>4, QuietStep DEF IInv

\* Noticing the cancelled context changes nothing but the program counter.
LEMMA CtxDoneIInv ==
  ASSUME IInv, NEW r \in Request, CtxDone(r)
  PROVE  IInv'
<1>1. TypeOK'
  BY DEF IInv, TypeOK, CtxDone, PC
<1>2. ReadyWaits' /\ LimitRead' /\ DisabledIdle'
  BY DEF IInv, ReadyWaits, LimitRead, DisabledIdle, CtxDone, TypeOK, Enabled,
         limit
<1>3. Holders' = Holders /\ inflight' = inflight /\ queues' = queues
  BY DEF IInv, TypeOK, Holders, CtxDone
<1>4. \A q \in Request : /\ Unwoken(q)' <=> Unwoken(q)
                         /\ Unwoken(q) => prio'[q] = prio[q]
  BY DEF IInv, TypeOK, Unwoken, CtxDone
<1>5. QED
  BY <1>1, <1>2, <1>3, <1>4, QuietStep DEF IInv

\* A cancelled request that was woken keeps owning the slot until its Release.
LEMMA CancelWokenIInv ==
  ASSUME IInv, NEW r \in Request, CancelWoken(r)
  PROVE  IInv'
<1>1. TypeOK'
  BY DEF IInv, TypeOK, CancelWoken, PC
<1>2. ReadyWaits' /\ LimitRead' /\ DisabledIdle'
  BY DEF IInv, ReadyWaits, LimitRead, DisabledIdle, CancelWoken, TypeOK, Enabled,
         limit
<1>3. Holders' = Holders /\ inflight' = inflight /\ queues' = queues
  BY DEF IInv, TypeOK, Holders, CancelWoken
<1>4. \A q \in Request : /\ Unwoken(q)' <=> Unwoken(q)
                         /\ Unwoken(q) => prio'[q] = prio[q]
  BY DEF IInv, TypeOK, Unwoken, CancelWoken
<1>5. QED
  BY <1>1, <1>2, <1>3, <1>4, QuietStep DEF IInv

\* The environment's steps do not touch the gate.
LEMMA EnvironmentIInv ==
  ASSUME IInv, \/ UNCHANGED vars
               \/ \E r \in Request : Disconnect(r)
  PROVE  IInv'
<1>1. TypeOK'
  BY DEF IInv, TypeOK, Disconnect, vars
<1>2. UNCHANGED <<inflight, queues, ready, pc, prio, lim>>
  BY DEF Disconnect, vars
<1>3. ReadyWaits' /\ LimitRead' /\ DisabledIdle'
  BY <1>2 DEF IInv, ReadyWaits, LimitRead, DisabledIdle, Enabled, limit
<1>4. Holders' = Holders
  BY <1>2 DEF Holders
<1>5. \A q \in Request : /\ Unwoken(q)' <=> Unwoken(q)
                         /\ Unwoken(q) => prio'[q] = prio[q]
  BY <1>2 DEF Unwoken
<1>6. QED
  BY <1>1, <1>2, <1>3, <1>4, <1>5, QuietStep DEF IInv

-----------------------------------------------------------------------------
(***************************************************************************)
(* The steps that change a queue.                                          *)
(***************************************************************************)

\* A request that joins its tier's queue: the queue grows at its end, and
\* somebody owns a slot, because the limit the request carries is positive.
LEMMA EnqueueIInv ==
  ASSUME IInv, NEW r \in Request, Enqueue(r)
  PROVE  IInv'
<1> DEFINE t == prio[r]
           q == queues[t]
<1>1. t \in Priority /\ q \in Seq(Request) /\ Len(q) \in Nat
  BY LenProperties DEF IInv, TypeOK
<1>2. /\ Append(q, r) \in Seq(Request)
      /\ Len(Append(q, r)) = Len(q) + 1
      /\ \A i \in 1 .. Len(q) : Append(q, r)[i] = q[i]
      /\ Append(q, r)[Len(q) + 1] = r
  BY <1>1, AppendProperties
<1>3. /\ queues' = [queues EXCEPT ![t] = Append(q, r)]
      /\ pc' = [pc EXCEPT ![r] = "waiting"] /\ lim' = [lim EXCEPT ![r] = 0]
      /\ UNCHANGED <<inflight, ready, prio, cancelled>>
      /\ pc[r] = "lock"
  BY DEF Enqueue, Return
<1>4. TypeOK'
  BY <1>1, <1>2, <1>3 DEF IInv, TypeOK, PC
<1>5. Enabled /\ lim[r] > 0 /\ r \notin ready
  BY <1>3 DEF IInv, LimitRead, ReadyWaits
<1>6. Enabled' = Enabled /\ limit' = limit
  BY DEF Enabled, limit
<1>7. ReadyWaits' /\ LimitRead' /\ DisabledIdle'
  BY <1>3, <1>5, <1>6 DEF IInv, TypeOK, ReadyWaits, LimitRead, DisabledIdle
<1>8. Holders' = Holders
  BY <1>3 DEF IInv, TypeOK, Holders
<1>9. SlotsAccounted' /\ InflightBounded'
  BY <1>3, <1>6, <1>8 DEF IInv, SlotsAccounted, InflightBounded
<1>10. /\ ~Unwoken(r) /\ Unwoken(r)'
       /\ \A x \in Request \ {r} : Unwoken(x)' <=> Unwoken(x)
  BY <1>3, <1>5 DEF IInv, TypeOK, Unwoken
<1>11. /\ queues'[t] = Append(q, r)
       /\ \A p \in Priority \ {t} : queues'[p] = queues[p]
  BY <1>1, <1>3 DEF IInv, TypeOK
<1>12. \A p \in Priority : \A i \in 1 .. Len(queues[p]) :
         /\ queues[p][i] \in Request \ {r}
         /\ Unwoken(queues[p][i]) /\ prio[queues[p][i]] = p
  BY <1>10, ElementOfSeq DEF IInv, TypeOK, QueueDiscipline
<1>13. QueueDiscipline'
  <2>1. ASSUME NEW p \in Priority, NEW i \in 1 .. Len(queues'[p])
        PROVE  (Unwoken(queues[p][i]) /\ prio[queues[p][i]] = p)'
    <3>1. CASE p = t /\ i = Len(q) + 1
      <4>1. queues'[p][i] = r
        BY <1>2, <1>11, <3>1
      <4>2. QED
        BY <1>3, <1>10, <3>1, <4>1 DEF Unwoken
    <3>2. CASE ~(p = t /\ i = Len(q) + 1)
      <4>1. i \in 1 .. Len(queues[p]) /\ queues'[p][i] = queues[p][i]
        <5>1. CASE p # t
          BY <1>11, <2>1, <5>1
        <5>2. CASE p = t
          <6> DEFINE n == Len(q)
          <6>1. n \in Nat /\ Len(queues'[p]) = n + 1 /\ i # n + 1
            BY <1>1, <1>2, <1>11, <3>2, <5>2
          <6>2. \A a \in 1 .. n : queues'[p][a] = q[a]
            BY <1>2, <1>11, <5>2
          <6> HIDE DEF n
          <6>3. i \in 1 .. n
            BY <2>1, <6>1, SMT
          <6>4. QED
            BY <5>2, <6>2, <6>3 DEF n
        <5>3. QED
          BY <5>1, <5>2
      <4>2. QED
        BY <1>3, <1>10, <1>12, <4>1 DEF Unwoken
    <3>3. QED
      BY <3>1, <3>2
  <2>2. ASSUME NEW x \in Request, Unwoken(x)'
        PROVE  \E i \in 1 .. Len(queues'[prio'[x]]) : queues'[prio'[x]][i] = x
    <3>1. CASE x = r
      BY <1>1, <1>2, <1>3, <1>11, <3>1
    <3>2. CASE x # r
      <4>1. prio[x] \in Priority /\ Unwoken(x)
        BY <1>10, <2>2, <3>2 DEF IInv, TypeOK
      <4>2. PICK i \in 1 .. Len(queues[prio[x]]) : queues[prio[x]][i] = x
        BY <4>1 DEF IInv, QueueDiscipline
      <4>3. CASE prio[x] = t
        BY <1>1, <1>2, <1>3, <1>11, <4>2, <4>3
      <4>4. CASE prio[x] # t
        BY <1>3, <1>11, <4>1, <4>2, <4>4
      <4>5. QED
        BY <4>3, <4>4
    <3>3. QED
      BY <3>1, <3>2
  <2>3. ASSUME NEW p \in Priority, NEW i \in 1 .. Len(queues'[p]),
               NEW j \in 1 .. Len(queues'[p]), queues'[p][i] = queues'[p][j]
        PROVE  i = j
    <3>1. CASE p # t
      BY <1>11, <2>3, <3>1 DEF IInv, QueueDiscipline
    <3>2. CASE p = t
      <4>1. \A a, b \in 1 .. Len(q) : q[a] = q[b] => a = b
        BY <1>1 DEF IInv, QueueDiscipline
      <4>2. \A a \in 1 .. Len(q) : q[a] # r
        BY <1>1, <1>12
      <4> DEFINE n == Len(q)
      <4>0. n \in Nat /\ Len(queues'[p]) = n + 1
        BY <1>1, <1>2, <1>11, <3>2, LenProperties
      <4> HIDE DEF n
      <4>3. /\ i \in 1 .. n \/ i = n + 1
            /\ j \in 1 .. n \/ j = n + 1
        BY <2>3, <4>0, SMT
      <4> USE DEF n
      <4>4. QED
        BY <1>2, <1>11, <2>3, <3>2, <4>1, <4>2, <4>3
    <3>3. QED
      BY <3>1, <3>2
  <2>4. QED
    BY <2>1, <2>2, <2>3 DEF QueueDiscipline
<1>14. NoStrandedWaiter'
  <2>1. inflight > 0 \/ totalQueued > 0
    <3>1. lim[r] \in Int /\ inflight \in Nat /\ totalQueued \in Nat
      BY QueuedTiers DEF IInv, TypeOK
    <3>2. ~(inflight < lim[r] /\ totalQueued = 0)
      BY DEF Enqueue, FastPath
    <3>3. QED
      BY <1>5, <3>1, <3>2
  <2>2. CASE inflight > 0
    BY <1>5, <1>8, <2>2, FS_EmptySet DEF IInv, SlotsAccounted, NoStrandedWaiter
  <2>3. CASE totalQueued > 0
    BY <1>8, <2>3 DEF IInv, NoStrandedWaiter
  <2>4. QED
    BY <2>1, <2>2, <2>3
<1>15. QueueBounded'
  <2>1. limits[t] > 0 => Len(q) + 1 <= limits[t]
    BY <1>1, limitsAssumption DEF Enqueue, QueueFull
  <2>2. QED
    BY <1>2, <1>11, <2>1 DEF IInv, QueueBounded
<1>16. QED
  BY <1>4, <1>7, <1>9, <1>13, <1>14, <1>15 DEF IInv

\* Taking one place out of one tier's queue, the place of the only request that
\* stops waiting, keeps the queues in order.
LEMMA DequeueDiscipline ==
  ASSUME IInv, NEW t \in Priority, NEW k \in 1 .. Len(queues[t]),
         \A p \in Priority \ {t} : queues'[p] = queues[p],
         queues'[t] \in Seq(Request),
         Len(queues'[t]) = Len(queues[t]) - 1,
         \A j \in 1 .. Len(queues[t]) - 1 :
           queues'[t][j] = IF j < k THEN queues[t][j] ELSE queues[t][j + 1],
         \A x \in Request : Unwoken(x)' <=> Unwoken(x) /\ x # queues[t][k],
         \A x \in Request : Unwoken(x)' => prio'[x] = prio[x]
  PROVE  QueueDiscipline' /\ QueueBounded'
<1>1. \A p \in Priority : Len(queues[p]) \in Nat
  BY LenProperties DEF IInv, TypeOK
<1>2. \A p \in Priority : \A i \in 1 .. Len(queues[p]) : queues[p][i] \in Request
  BY ElementOfSeq DEF IInv, TypeOK
<1>3. ASSUME NEW p \in Priority, NEW i \in 1 .. Len(queues'[p])
      PROVE  (Unwoken(queues[p][i]) /\ prio[queues[p][i]] = p)'
  <2>1. CASE p # t
    <3>1. i \in 1 .. Len(queues[p]) /\ queues'[p][i] = queues[p][i]
      BY <1>3, <2>1
    <3>2. Unwoken(queues[p][i]) /\ prio[queues[p][i]] = p /\ prio[queues[t][k]] = t
      BY <3>1 DEF IInv, QueueDiscipline
    <3>3. queues[p][i] \in Request /\ queues[p][i] # queues[t][k]
      BY <1>2, <2>1, <3>1, <3>2
    <3>4. QED
      BY <3>1, <3>2, <3>3 DEF Unwoken
  <2>2. CASE p = t
    <3>1. PICK j \in 1 .. Len(queues[t]) : j # k /\ queues'[t][i] = queues[t][j]
      <4>1. i \in 1 .. Len(queues[t]) - 1
        BY <1>3, <2>2
      <4>2. CASE i < k
        BY <1>1, <4>1, <4>2
      <4>3. CASE ~(i < k)
        BY <1>1, <4>1, <4>3
      <4>4. QED
        BY <4>2, <4>3
    <3>2. Unwoken(queues[t][j]) /\ prio[queues[t][j]] = t /\ queues[t][j] # queues[t][k]
      BY <3>1 DEF IInv, QueueDiscipline
    <3>3. QED
      BY <1>2, <2>2, <3>1, <3>2 DEF Unwoken
  <2>3. QED
    BY <2>1, <2>2
<1>4. ASSUME NEW x \in Request, Unwoken(x)'
      PROVE  \E i \in 1 .. Len(queues'[prio'[x]]) : queues'[prio'[x]][i] = x
  <2>1. prio[x] \in Priority /\ Unwoken(x) /\ x # queues[t][k] /\ prio'[x] = prio[x]
    BY <1>4 DEF IInv, TypeOK
  <2>2. PICK i \in 1 .. Len(queues[prio[x]]) : queues[prio[x]][i] = x
    BY <2>1 DEF IInv, QueueDiscipline
  <2>3. CASE prio[x] # t
    BY <2>1, <2>2, <2>3
  <2>4. CASE prio[x] = t /\ i < k
    <3>1. i \in 1 .. Len(queues[t]) - 1 /\ i \in 1 .. Len(queues'[t])
      BY <1>1, <2>2, <2>4
    <3>2. QED
      BY <2>1, <2>2, <2>4, <3>1
  <2>5. CASE prio[x] = t /\ i > k
    <3>1. i - 1 \in 1 .. Len(queues[t]) - 1 /\ i - 1 \in 1 .. Len(queues'[t])
      BY <1>1, <2>2, <2>5
    <3>2. queues'[t][i - 1] = queues[t][i]
      BY <1>1, <3>1, <2>5, <2>2
    <3>3. QED
      BY <2>1, <2>2, <2>5, <3>1, <3>2
  <2>6. QED
    BY <1>1, <2>1, <2>2, <2>3, <2>4, <2>5
<1>5. ASSUME NEW p \in Priority, NEW i \in 1 .. Len(queues'[p]),
             NEW j \in 1 .. Len(queues'[p]), queues'[p][i] = queues'[p][j]
      PROVE  i = j
  <2>1. CASE p # t
    BY <1>5, <2>1 DEF IInv, QueueDiscipline
  <2>2. CASE p = t
    <3>1. \A a, b \in 1 .. Len(queues[t]) : queues[t][a] = queues[t][b] => a = b
      BY DEF IInv, QueueDiscipline
    <3>2. i \in 1 .. Len(queues[t]) - 1 /\ j \in 1 .. Len(queues[t]) - 1
      BY <1>5, <2>2
    <3>3. QED
      BY <1>1, <1>5, <2>2, <3>1, <3>2
  <2>3. QED
    BY <2>1, <2>2
<1>6. QueueDiscipline'
  BY <1>3, <1>4, <1>5 DEF QueueDiscipline
<1>7. QueueBounded'
  <2>1. \A p \in Priority : Len(queues'[p]) \in Nat /\ Len(queues'[p]) <= Len(queues[p])
    BY <1>1, LenProperties
  <2>2. \A p \in Priority : limits[p] \in Int /\ limits[p]' = limits[p]
    BY limitsAssumption
  <2>3. QED
    BY <1>1, <2>1, <2>2 DEF IInv, QueueBounded
<1>8. QED
  BY <1>6, <1>7

\* A cancelled waiter that was not woken leaves the queue and nothing behind.
LEMMA CancelRemoveIInv ==
  ASSUME IInv, NEW r \in Request, CancelRemove(r)
  PROVE  IInv'
<1> DEFINE t == prio[r]
           q == queues[t]
<1>1. t \in Priority /\ q \in Seq(Request) /\ Unwoken(r)
  BY DEF IInv, TypeOK, CancelRemove, Unwoken
<1>2. /\ queues' = [queues EXCEPT ![t] = Remove(q, r)]
      /\ pc' = [pc EXCEPT ![r] = "idle"] /\ lim' = [lim EXCEPT ![r] = 0]
      /\ prio' = [prio EXCEPT ![r] = 0]
      /\ cancelled' = [cancelled EXCEPT ![r] = FALSE]
      /\ UNCHANGED <<inflight, ready>>
      /\ pc[r] = "cancelling" /\ r \notin ready
  BY DEF CancelRemove, Leave, Return
<1>3. PICK k \in 1 .. Len(q) : q[k] = r
  BY <1>1 DEF IInv, QueueDiscipline
<1>4. \A i, j \in 1 .. Len(q) : q[i] = q[j] => i = j
  BY <1>1 DEF IInv, QueueDiscipline
<1>5. Remove(q, r) = Cut(q, k)
  BY <1>1, <1>3, <1>4, RemoveIsCut
<1>6. /\ Remove(q, r) \in Seq(Request)
      /\ Len(Remove(q, r)) = Len(q) - 1
      /\ \A j \in 1 .. Len(q) - 1 :
           Remove(q, r)[j] = IF j < k THEN q[j] ELSE q[j + 1]
  BY <1>1, <1>5, CutProperties
<1>7. TypeOK'
  <2>1. queues' \in [Priority -> Seq(Request)]
    BY <1>1, <1>2, <1>6 DEF IInv, TypeOK
  <2>2. pc' \in [Request -> PC] /\ prio' \in [Request -> Priority]
    BY <1>2, Tiers DEF IInv, TypeOK, PC
  <2>3. QED
    BY <1>2, <2>1, <2>2 DEF IInv, TypeOK
<1>8. Enabled' = Enabled /\ limit' = limit
  BY DEF Enabled, limit
<1>9. ReadyWaits' /\ LimitRead' /\ DisabledIdle'
  BY <1>2, <1>8 DEF IInv, TypeOK, ReadyWaits, LimitRead, DisabledIdle
<1>10. Holders' = Holders
  BY <1>2 DEF IInv, TypeOK, Holders
<1>11. SlotsAccounted' /\ InflightBounded'
  BY <1>2, <1>8, <1>10 DEF IInv, SlotsAccounted, InflightBounded
<1>12. /\ queues'[t] = Remove(q, r)
       /\ \A p \in Priority \ {t} : queues'[p] = queues[p]
  BY <1>1, <1>2 DEF IInv, TypeOK
<1>13. \A x \in Request : /\ Unwoken(x)' <=> Unwoken(x) /\ x # q[k]
                          /\ Unwoken(x)' => prio'[x] = prio[x]
  BY <1>2, <1>3 DEF IInv, TypeOK, Unwoken
<1>14. QueueDiscipline' /\ QueueBounded'
  <2>1. /\ queues'[t] \in Seq(Request) /\ Len(queues'[t]) = Len(queues[t]) - 1
        /\ \A j \in 1 .. Len(queues[t]) - 1 :
             queues'[t][j] = IF j < k THEN queues[t][j] ELSE queues[t][j + 1]
    BY <1>6, <1>12
  <2>2. k \in 1 .. Len(queues[t])
    OBVIOUS
  <2>3. /\ \A x \in Request : Unwoken(x)' <=> Unwoken(x) /\ x # queues[t][k]
        /\ \A x \in Request : Unwoken(x)' => prio'[x] = prio[x]
    BY <1>13
  <2>4. t \in Priority /\ \A p \in Priority \ {t} : queues'[p] = queues[p]
    BY <1>1, <1>12
  <2> HIDE DEF t
  <2>5. QED
    BY <2>1, <2>2, <2>3, <2>4, DequeueDiscipline, Zenon
<1>15. NoStrandedWaiter'
  <2>1. q # <<>>
    BY <1>1, <1>3, EmptySeq
  <2>2. totalQueued > 0
    BY <1>1, <2>1, QueuedTiers DEF IInv, TypeOK
  <2>3. QED
    BY <1>10, <2>2 DEF IInv, NoStrandedWaiter
<1>16. QED
  BY <1>7, <1>9, <1>11, <1>14, <1>15 DEF IInv

\* A Release with nobody waiting frees the slot; one with waiters passes it
\* to the head of the most urgent queue, who owned none.
LEMMA ReleaseIInv ==
  ASSUME IInv, NEW r \in Request, NEW l \in limit, Release(r, l)
  PROVE  IInv'
<1>1. /\ pc[r] \in {"holding", "returning"}
      /\ pc' = [pc EXCEPT ![r] = "idle"] /\ lim' = [lim EXCEPT ![r] = 0]
      /\ prio' = [prio EXCEPT ![r] = 0]
      /\ cancelled' = [cancelled EXCEPT ![r] = FALSE]
  BY DEF Release, Leave, Return
<1>2. r \in Holders /\ r \notin ready /\ ~Unwoken(r)
  BY <1>1 DEF IInv, Holders, ReadyWaits, Unwoken
<1>3. Enabled' = Enabled /\ limit' = limit
  BY DEF Enabled, limit
<1>4. l \in Int /\ (l > 0 <=> Enabled)
  BY LimitEnabled
<1>5. LimitRead' /\ DisabledIdle'
  BY <1>1, <1>3 DEF IInv, TypeOK, LimitRead, DisabledIdle
<1>6. CASE ~Enabled
  <2>1. UNCHANGED <<inflight, queues, ready>>
    BY <1>4, <1>6 DEF Release, ReturnSlotIfEnabled
  <2>2. TypeOK'
    BY <1>1, <2>1, Tiers DEF IInv, TypeOK, PC
  <2>3. ReadyWaits' /\ SlotsAccounted' /\ InflightBounded' /\ QueueBounded'
    BY <1>1, <1>2, <1>3, <1>6, <2>1
       DEF IInv, TypeOK, ReadyWaits, SlotsAccounted, InflightBounded, QueueBounded
  <2>4. \A q \in Priority : Len(queues[q]) = 0
    BY <1>6, DisabledEmpty, EmptySeq
  <2>5. \A x \in Request : ~Unwoken(x)'
    BY <1>1, <1>6, <2>1, DisabledEmpty DEF IInv, TypeOK, Unwoken
  <2>6. QueueDiscipline'
    BY <2>1, <2>4, <2>5 DEF QueueDiscipline
  <2>7. NoStrandedWaiter'
    <3>1. totalQueued' = 0
      BY <1>6, <2>1, DisabledEmpty DEF totalQueued
    <3>2. QED
      BY <3>1 DEF NoStrandedWaiter
  <2>8. QED
    BY <1>5, <2>2, <2>3, <2>6, <2>7 DEF IInv
<1>7. CASE Enabled /\ WaitingTiers = {}
  <2>1. inflight' = inflight - 1 /\ UNCHANGED <<queues, ready>>
    BY <1>4, <1>7 DEF Release, ReturnSlotIfEnabled, ReturnSlot, Free
  <2>2. Holders' = Holders \ {r}
    BY <1>1, <1>2, <2>1 DEF IInv, TypeOK, Holders
  <2>3. Cardinality(Holders \ {r}) = Cardinality(Holders) - 1
    BY <1>2, HoldersFinite, FS_RemoveElement DEF IInv
  <2>4. SlotsAccounted'
    BY <1>3, <1>7, <2>1, <2>2, <2>3 DEF IInv, SlotsAccounted
  <2>5. IsFiniteSet(Holders \ {r}) /\ Cardinality(Holders \ {r}) \in Nat
    BY HoldersFinite, FS_RemoveElement, FS_CardinalityType DEF IInv
  <2>6. inflight' \in Nat
    BY <1>3, <1>7, <2>2, <2>4, <2>5 DEF SlotsAccounted
  <2>7. TypeOK'
    BY <1>1, <2>1, <2>6, Tiers DEF IInv, TypeOK, PC
  <2>8. ReadyWaits' /\ QueueBounded'
    BY <1>1, <1>2, <2>1 DEF IInv, TypeOK, ReadyWaits, QueueBounded
  <2>9. InflightBounded'
    <3>1. PICK n \in limit : inflight <= n
      BY <1>7 DEF IInv, InflightBounded
    <3>2. n \in Int
      BY LimitEnabled
    <3>3. inflight' <= n
      BY <2>1, <3>1, <3>2 DEF IInv, TypeOK
    <3>4. QED
      BY <1>3, <3>3 DEF InflightBounded
  <2>10. QueueDiscipline'
    <3>1. \A x \in Request : /\ Unwoken(x)' <=> Unwoken(x)
                             /\ Unwoken(x) => prio'[x] = prio[x]
      BY <1>1, <1>2, <2>1 DEF IInv, TypeOK, Unwoken
    <3>2. \A p \in Priority : \A i \in 1 .. Len(queues[p]) : queues[p][i] \in Request
      BY ElementOfSeq DEF IInv, TypeOK
    <3>3. QED
      BY <2>1, <3>1, <3>2 DEF IInv, QueueDiscipline
  <2>11. NoStrandedWaiter'
    <3>1. ~(totalQueued > 0)
      BY <1>7, QueuedTiers DEF IInv, TypeOK, WaitingTiers
    <3>2. QED
      BY <2>1, <3>1 DEF NoStrandedWaiter, totalQueued
  <2>12. QED
    BY <1>5, <2>4, <2>7, <2>8, <2>9, <2>10, <2>11 DEF IInv
<1>8. CASE Enabled /\ WaitingTiers # {}
  <2> DEFINE t == NextTier
             q == queues[t]
             h == Head(q)
  <2>1. t \in Priority /\ q \in Seq(Request) /\ q # <<>>
    BY <1>8, NextTierProperties DEF IInv, TypeOK, WaitingTiers
  <2>2. /\ queues' = [queues EXCEPT ![t] = Tail(q)]
        /\ ready' = ready \cup {h}
        /\ inflight' = (inflight - 1) + 1
    BY <1>4, <1>8 DEF Release, ReturnSlotIfEnabled, ReturnSlot, HandOff
  <2>3. inflight' = inflight
    BY <2>2 DEF IInv, TypeOK
  <2>4. /\ 1 \in 1 .. Len(q) /\ h = q[1]
        /\ Tail(q) \in Seq(Request) /\ Len(Tail(q)) = Len(q) - 1
        /\ \A j \in 1 .. Len(Tail(q)) : Tail(q)[j] = q[j + 1]
    BY <2>1, HeadTailProperties, EmptySeq, LenProperties
  <2>5. h \in Request /\ Unwoken(h)
    BY <2>1, <2>4, ElementOfSeq DEF IInv, QueueDiscipline
  <2>6. h # r /\ h \notin Holders
    BY <1>1, <1>2, <2>5 DEF Unwoken, Holders
  <2>7. TypeOK'
    <3>1. queues' \in [Priority -> Seq(Request)] /\ ready' \subseteq Request
      BY <2>2, <2>4, <2>5 DEF IInv, TypeOK
    <3>2. QED
      BY <1>1, <2>3, <3>1, Tiers DEF IInv, TypeOK, PC
  <2>8. Holders' = (Holders \ {r}) \cup {h}
    BY <1>1, <1>2, <2>2, <2>6 DEF IInv, TypeOK, Holders
  <2>9. SlotsAccounted'
    <3>1. /\ IsFiniteSet(Holders) /\ IsFiniteSet(Holders \ {r})
          /\ Cardinality(Holders) \in Nat
          /\ Cardinality(Holders \ {r}) = Cardinality(Holders) - 1
      BY <1>2, HoldersFinite, FS_RemoveElement DEF IInv
    <3>2. Cardinality((Holders \ {r}) \cup {h}) = Cardinality(Holders \ {r}) + 1
      BY <2>6, <3>1, FS_AddElement
    <3>3. QED
      BY <1>3, <2>3, <2>8, <3>1, <3>2 DEF IInv, SlotsAccounted
  <2>10. ReadyWaits'
    BY <1>1, <1>2, <2>2, <2>5, <2>6 DEF IInv, TypeOK, ReadyWaits, Unwoken
  <2>11. InflightBounded'
    BY <1>3, <2>3 DEF IInv, InflightBounded
  <2>12. /\ queues'[t] = Tail(q)
         /\ \A p \in Priority \ {t} : queues'[p] = queues[p]
    BY <2>1, <2>2 DEF IInv, TypeOK
  <2>13. \A x \in Request : /\ Unwoken(x)' <=> Unwoken(x) /\ x # q[1]
                            /\ Unwoken(x)' => prio'[x] = prio[x]
    BY <1>1, <1>2, <2>2, <2>4, <2>5 DEF IInv, TypeOK, Unwoken
  <2>14. /\ queues'[t] \in Seq(Request) /\ Len(queues'[t]) = Len(queues[t]) - 1
         /\ \A j \in 1 .. Len(queues[t]) - 1 :
              queues'[t][j] = IF j < 1 THEN queues[t][j] ELSE queues[t][j + 1]
    BY <2>4, <2>12
  <2>15. QueueDiscipline' /\ QueueBounded'
    <3>1. 1 \in 1 .. Len(queues[t])
      BY <2>4
    <3>2. /\ \A x \in Request : Unwoken(x)' <=> Unwoken(x) /\ x # queues[t][1]
          /\ \A x \in Request : Unwoken(x)' => prio'[x] = prio[x]
      BY <2>13
    <3>3. t \in Priority /\ \A p \in Priority \ {t} : queues'[p] = queues[p]
      BY <2>1, <2>12
    <3> HIDE DEF t
    <3>4. QED
      BY <2>14, <3>1, <3>2, <3>3, DequeueDiscipline, Zenon
  <2>16. NoStrandedWaiter'
    BY <2>8 DEF NoStrandedWaiter
  <2>17. QED
    BY <1>5, <2>7, <2>9, <2>10, <2>11, <2>15, <2>16 DEF IInv
<1>9. QED
  BY <1>6, <1>7, <1>8

-----------------------------------------------------------------------------
(***************************************************************************)
(* The theorems.                                                           *)
(***************************************************************************)

\* Every step of the gate preserves the invariant.
LEMMA NextIInv ==
  ASSUME IInv, [Next]_vars
  PROVE  IInv'
<1>1. CASE UNCHANGED vars
  BY <1>1, EnvironmentIInv
<1>2. ASSUME NEW r \in Request, Step(r)
      PROVE  IInv'
  <2>1. ASSUME NEW p \in Priority, NEW l \in limit, Acquire(r, p, l)
        PROVE  IInv'
    BY <2>1, AcquireIInv
  <2>2. CASE Admit(r)
    BY <2>2, AdmitIInv
  <2>3. CASE Reject(r)
    BY <2>3, RejectIInv
  <2>4. CASE Enqueue(r)
    BY <2>4, EnqueueIInv
  <2>5. CASE Woken(r)
    BY <2>5, WokenIInv
  <2>6. CASE CtxDone(r)
    BY <2>6, CtxDoneIInv
  <2>7. CASE CancelWoken(r)
    BY <2>7, CancelWokenIInv
  <2>8. CASE CancelRemove(r)
    BY <2>8, CancelRemoveIInv
  <2>9. ASSUME NEW l \in limit, Release(r, l)
        PROVE  IInv'
    BY <2>9, ReleaseIInv
  <2>10. CASE Disconnect(r)
    BY <2>10, EnvironmentIInv
  <2>11. QED
    BY <1>2, <2>1, <2>2, <2>3, <2>4, <2>5, <2>6, <2>7, <2>8, <2>9, <2>10 DEF Step
<1>3. QED
  BY <1>1, <1>2 DEF Next

\* The inductive invariant holds throughout: for every number of requests,
\* every queue limit and every sequence of capacities.
THEOREM GateInvariant == Spec => []IInv
<1>1. Init => IInv
  BY InitIInv
<1>2. IInv /\ [Next]_vars => IInv'
  BY NextIInv
<1>3. QED
  BY <1>1, <1>2, PTL DEF Spec

\* The gate's variables keep their types; in particular inflight never goes
\* negative, the drift gate.go:126-129 warns of.
THEOREM GateTypeOK == Spec => []TypeOK
<1>1. IInv => TypeOK
  BY DEF IInv
<1>2. QED
  BY <1>1, GateInvariant, PTL

\* inflight is exactly the number of slot owners (gate.go:56).
THEOREM GateSlotsAccounted == Spec => []SlotsAccounted
<1>1. IInv => SlotsAccounted
  BY DEF IInv
<1>2. QED
  BY <1>1, GateInvariant, PTL

\* The queues hold exactly the unwoken waiters (gate.go:57).
THEOREM GateQueueDiscipline == Spec => []QueueDiscipline
<1>1. IInv => QueueDiscipline
  BY DEF IInv
<1>2. QED
  BY <1>1, GateInvariant, PTL

\* No wake-up is lost: a waiter always has a slot owner ahead of it whose
\* Release will wake somebody (gate.go:147-165).
THEOREM GateNoStrandedWaiter == Spec => []NoStrandedWaiter
<1>1. IInv => NoStrandedWaiter
  BY DEF IInv
<1>2. QED
  BY <1>1, GateInvariant, PTL

\* Queue lengths and the number of dispatched requests respect their limits
\* (gate.go:99 and 106).
THEOREM GateBounds == Spec => []WithinLimits
<1>1. IInv => WithinLimits
  BY DEF IInv, WithinLimits
<1>2. QED
  BY <1>1, GateInvariant, PTL

\* When some request waits, the fast path is closed.
LEMMA WaiterClosesFastPath ==
  ASSUME IInv, NEW w \in Request, Unwoken(w)
  PROVE  totalQueued > 0 /\ prio[w] \in WaitingTiers
<1>1. prio[w] \in Priority /\ queues[prio[w]] \in Seq(Request)
  BY DEF IInv, TypeOK
<1>2. PICK i \in 1 .. Len(queues[prio[w]]) : queues[prio[w]][i] = w
  BY DEF IInv, QueueDiscipline
<1>3. queues[prio[w]] # <<>>
  BY <1>1, <1>2, EmptySeq
<1>4. QED
  BY <1>1, <1>3, QueuedTiers DEF IInv, TypeOK, WaitingTiers

\* Only the fast path, a disabled gate and a hand-off make a new slot owner, and
\* each of them finds nobody ahead of it.
LEMMA NewOwnerFirstInLine ==
  ASSUME IInv, [Next]_vars, NEW r \in Holders' \ Holders
  PROVE  FirstInLine(r)
<1>1. SUFFICES ASSUME NEW w \in Request \ {r}, Unwoken(w)
               PROVE  prio[r] < prio[w] \/ (prio[r] = prio[w] /\ Before(r, w))
  BY DEF FirstInLine
<1>2. totalQueued > 0 /\ prio[w] \in WaitingTiers
  BY <1>1, WaiterClosesFastPath
<1>3. \A l \in limit : l \in Int /\ l > 0
  BY <1>1, LimitEnabled, DisabledEmpty
<1>4. PICK x \in Request : Step(x)
  BY DEF Next, vars, Holders
<1>5. ~Admit(x)
  BY <1>2, QueuedTiers DEF IInv, TypeOK, Admit, FastPath
<1>6. ~\E p \in Priority, l \in limit : Acquire(x, p, l)
  BY <1>3 DEF IInv, TypeOK, Holders, Acquire
<1>7. ~(Reject(x) \/ Enqueue(x) \/ Woken(x) \/ CtxDone(x) \/ CancelWoken(x)
          \/ CancelRemove(x) \/ Disconnect(x))
  BY DEF IInv, TypeOK, Holders, Reject, Enqueue, Woken, CtxDone, CancelWoken,
         CancelRemove, Disconnect, Leave, Return
<1>8. PICK l \in limit : Release(x, l)
  BY <1>4, <1>5, <1>6, <1>7 DEF Step
<1>9. HandOff
  BY <1>2, <1>3, <1>8 DEF Release, ReturnSlotIfEnabled, ReturnSlot
<1> DEFINE t == NextTier
           q == queues[t]
<1>10. /\ t \in Priority /\ q \in Seq(Request) /\ q # <<>>
       /\ t <= prio[w]
  BY <1>2, NextTierProperties DEF IInv, TypeOK, WaitingTiers
<1>11. r = Head(q)
  BY <1>8, <1>9 DEF IInv, TypeOK, Holders, Release, Leave, Return, HandOff
<1>12. 1 \in 1 .. Len(q) /\ r = q[1]
  BY <1>10, <1>11, EmptySeq, LenProperties
<1>13. prio[r] = t
  BY <1>10, <1>12 DEF IInv, QueueDiscipline
<1>14. CASE prio[w] = t
  <2>1. PICK j \in 1 .. Len(q) : q[j] = w
    BY <1>1, <1>14 DEF IInv, QueueDiscipline
  <2>2. 1 < j
    <3>1. j # 1
      BY <1>1, <1>12, <2>1
    <3>2. Len(q) \in Nat
      BY <1>10, LenProperties
    <3>3. QED
      BY <2>1, <3>1, <3>2
  <2>3. Before(r, w)
    <3> HIDE DEF t
    <3> QED
      BY <1>12, <1>13, <2>1, <2>2 DEF Before
  <2>4. QED
    BY <1>13, <1>14, <2>3
<1>15. CASE prio[w] # t
  <2>1. prio[w] \in Int /\ t \in Int
    BY <1>2, <1>10, Tiers DEF WaitingTiers
  <2>2. t < prio[w]
    <3> HIDE DEF t
    <3> QED
      BY <1>10, <1>15, <2>1
  <2>3. QED
    BY <1>13, <2>2
<1>16. QED
  BY <1>14, <1>15

\* Slots are granted in priority order, first come first served within a tier
\* (gate.go:98-103 and 156-163).
THEOREM GatePriorityOrder == Spec => PriorityOrder
<1>1. IInv /\ [Next]_vars => [\A r \in Holders' \ Holders : FirstInLine(r)]_vars
  BY NewOwnerFirstInLine
<1>2. QED
  BY <1>1, GateInvariant, PTL DEF Spec, PriorityOrder

=============================================================================

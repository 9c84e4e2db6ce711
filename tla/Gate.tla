-------------------------------- MODULE Gate --------------------------------
(***************************************************************************)
(* The admission gate of gate.go: at most `limit` requests are dispatched  *)
(* at a time, the others wait in one FIFO queue per priority tier.         *)
(*                                                                         *)
(* A request is a goroutine running ServeHTTP.  Every step below is one    *)
(* critical section of Gate.mu or one atomic event outside it, so the      *)
(* windows the code really has are interleaving points: between reading    *)
(* the limit and taking the lock, between a closed `ready` channel and the *)
(* waiter that selects on it, between ctx.Done and the lock, and between   *)
(* "we were woken while cancelled" and the Release that returns the slot.  *)
(***************************************************************************)
EXTENDS Integers, Sequences, FiniteSets

CONSTANTS
  Request,      \* the request goroutines
  HasLimitFn,   \* limitFn # nil: main.go sets it, some tests do not
  MaxInflight,  \* maxInflight, the static limit
  limits,       \* queue-length limit of each tier; <= 0 means no limit
  Capacities    \* what limitFn, the live sum of backend capacity, may return

numPriorities == 3
Priority == 0 .. numPriorities - 1      \* Interactive, Batch, Background
MaxInt32 == 2147483647

ASSUME RequestAssumption == IsFiniteSet(Request)
ASSUME HasLimitFnAssumption == HasLimitFn \in BOOLEAN
ASSUME MaxInflightAssumption == MaxInflight \in Int
ASSUME limitsAssumption == limits \in [Priority -> Int]
ASSUME CapacitiesAssumption == Capacities # {} /\ Capacities \subseteq Nat

VARIABLES
  inflight,   \* Gate.inflight
  queues,     \* Gate.queues, each waiter standing for its ready channel
  ready,      \* the waiters whose ready channel has been closed
  pc,         \* where each request is
  prio,       \* the priority it asked with
  lim,        \* its local `limit` between the read and the lock
  cancelled   \* its context is done: the client disconnected

vars == <<inflight, queues, ready, pc, prio, lim, cancelled>>

(***************************************************************************)
(* idle       not in the gate       waiting     blocked in the select      *)
(* lock       limit read, no lock   cancelling  took <-ctx.Done(), no lock *)
(* holding    Acquire returned true returning   woken too late, to Release *)
(***************************************************************************)
PC == {"idle", "lock", "waiting", "cancelling", "holding", "returning"}

TypeOK ==
  /\ inflight \in Nat
  /\ queues \in [Priority -> Seq(Request)]
  /\ ready \subseteq Request
  /\ pc \in [Request -> PC]
  /\ prio \in [Request -> Priority]
  /\ lim \in [Request -> Int]
  /\ cancelled \in [Request -> BOOLEAN]

Init ==
  /\ inflight = 0
  /\ queues = [p \in Priority |-> <<>>]
  /\ ready = {}
  /\ pc = [r \in Request |-> "idle"]
  /\ prio = [r \in Request |-> 0]
  /\ lim = [r \in Request |-> 0]
  /\ cancelled = [r \in Request |-> FALSE]

-----------------------------------------------------------------------------
(***************************************************************************)
(* Helpers.                                                                *)
(***************************************************************************)

\* What limit() may return.  limitFn sums over backends that other goroutines
\* change meanwhile, so each call may see another value.
limit ==
  IF HasLimitFn THEN {IF n > 0 THEN n ELSE MaxInt32 : n \in Capacities}
                ELSE {MaxInflight}

totalQueued == Len(queues[0]) + Len(queues[1]) + Len(queues[2])

FastPath_Barging(r) == inflight < lim[r]
FastPath_OffByOne(r) == inflight <= lim[r] /\ totalQueued = 0
FastPath(r) == inflight < lim[r] /\ totalQueued = 0

QueueFull_OffByOne(p) == limits[p] > 0 /\ Len(queues[p]) > limits[p]
QueueFull(p) == limits[p] > 0 /\ Len(queues[p]) >= limits[p]

\* append(q[:i], q[i+1:]...): the queue without its i-th place.
Cut(q, i) == [j \in 1 .. Len(q) - 1 |-> IF j < i THEN q[j] ELSE q[j + 1]]

\* A cancelled waiter leaves its channel in the queue.
Remove_LeftBehind(q, r) == q

\* The search of lines 134-139: cut the first place that holds r, if any.
Remove(q, r) ==
  LET At(i) == q[i] = r /\ \A j \in 1 .. i - 1 : q[j] # r
  IN  IF \E i \in 1 .. Len(q) : At(i)
      THEN Cut(q, CHOOSE i \in 1 .. Len(q) : At(i))
      ELSE q

WaitingTiers == {p \in Priority : queues[p] # <<>>}
NextTier_Lowest == CHOOSE p \in WaitingTiers : \A q \in WaitingTiers : q <= p
NextTier == CHOOSE p \in WaitingTiers : \A q \in WaitingTiers : p <= q

\* Acquire has returned: the request leaves the gate's code.
Return(r, to) ==
  /\ pc' = [pc EXCEPT ![r] = to]
  /\ lim' = [lim EXCEPT ![r] = 0]

Leave(r) ==
  /\ Return(r, "idle")
  /\ prio' = [prio EXCEPT ![r] = 0]
  /\ cancelled' = [cancelled EXCEPT ![r] = FALSE]

-----------------------------------------------------------------------------
(***************************************************************************)
(* Acquire.                                                                *)
(***************************************************************************)

\* Lines 90-96: the limit is read before the lock; <= 0 admits unconditionally.
Acquire(r, p, l) ==
  /\ pc[r] = "idle"
  /\ prio' = [prio EXCEPT ![r] = p]
  /\ IF l <= 0
     THEN Return(r, "holding")
     ELSE /\ pc' = [pc EXCEPT ![r] = "lock"]
          /\ lim' = [lim EXCEPT ![r] = l]
  /\ UNCHANGED <<inflight, queues, ready, cancelled>>

\* Lines 98-103: capacity is free and nobody is waiting.
Admit(r) ==
  /\ pc[r] = "lock"
  /\ FastPath(r)
  /\ inflight' = inflight + 1
  /\ Return(r, "holding")
  /\ UNCHANGED <<queues, ready, prio, cancelled>>

\* Lines 105-109: this tier's queue is full.
Reject(r) ==
  /\ pc[r] = "lock"
  /\ ~FastPath(r)
  /\ QueueFull(prio[r])
  /\ Leave(r)
  /\ UNCHANGED <<inflight, queues, ready>>

\* Lines 111-113: join the tier's queue.
Enqueue(r) ==
  /\ pc[r] = "lock"
  /\ ~FastPath(r)
  /\ ~QueueFull(prio[r])
  /\ queues' = [queues EXCEPT ![prio[r]] = Append(@, r)]
  /\ Return(r, "waiting")
  /\ UNCHANGED <<inflight, ready, prio, cancelled>>

\* Lines 116-118: the select sees the closed channel; the slot is ours.
Woken(r) ==
  /\ pc[r] = "waiting"
  /\ r \in ready
  /\ ready' = ready \ {r}
  /\ pc' = [pc EXCEPT ![r] = "holding"]
  /\ UNCHANGED <<inflight, queues, prio, lim, cancelled>>

\* A waiter that does not watch its context.
CtxDone_Ignored(r) == FALSE

\* Line 119: the select takes ctx.Done; it may do so even if ready is closed.
CtxDone(r) ==
  /\ pc[r] = "waiting"
  /\ cancelled[r]
  /\ pc' = [pc EXCEPT ![r] = "cancelling"]
  /\ UNCHANGED <<inflight, queues, ready, prio, lim, cancelled>>

\* Lines 123-131, with the double decrement the comment there warns of.
CancelWoken_DoubleDecrement(r) ==
  /\ pc[r] = "cancelling"
  /\ r \in ready
  /\ ready' = ready \ {r}
  /\ inflight' = inflight - 1
  /\ pc' = [pc EXCEPT ![r] = "returning"]
  /\ UNCHANGED <<queues, prio, lim, cancelled>>

\* Lines 123-131: woken just as the context was cancelled; Release follows,
\* after the lock is dropped.
CancelWoken(r) ==
  /\ pc[r] = "cancelling"
  /\ r \in ready
  /\ ready' = ready \ {r}
  /\ pc' = [pc EXCEPT ![r] = "returning"]
  /\ UNCHANGED <<inflight, queues, prio, lim, cancelled>>

\* Lines 132-142: not yet woken; leave the queue and return false.
CancelRemove(r) ==
  /\ pc[r] = "cancelling"
  /\ r \notin ready
  /\ queues' = [queues EXCEPT ![prio[r]] = Remove(@, r)]
  /\ Leave(r)
  /\ UNCHANGED <<inflight, ready>>

-----------------------------------------------------------------------------
(***************************************************************************)
(* Release, lines 147-165.  `limit() <= 0` only holds for a static gate    *)
(* that is disabled; then nothing was counted and nothing is returned.     *)
(***************************************************************************)
HandOff ==
  /\ queues' = [queues EXCEPT ![NextTier] = Tail(@)]
  /\ ready' = ready \cup {Head(queues[NextTier])}
  /\ inflight' = (inflight - 1) + 1

Free ==
  /\ inflight' = inflight - 1
  /\ UNCHANGED <<queues, ready>>

ReturnSlot_NoHandOff == Free
ReturnSlot == IF WaitingTiers # {} THEN HandOff ELSE Free

ReturnSlotIfEnabled_Unchecked(l) == ReturnSlot
ReturnSlotIfEnabled(l) ==
  IF l <= 0 THEN UNCHANGED <<inflight, queues, ready>> ELSE ReturnSlot

Release(r, l) ==
  /\ pc[r] \in {"holding", "returning"}
  /\ ReturnSlotIfEnabled(l)
  /\ Leave(r)

-----------------------------------------------------------------------------
(***************************************************************************)
(* The environment: a client goes away at any moment of its request.       *)
(***************************************************************************)
Disconnect(r) ==
  /\ pc[r] # "idle"
  /\ ~cancelled[r]
  /\ cancelled' = [cancelled EXCEPT ![r] = TRUE]
  /\ UNCHANGED <<inflight, queues, ready, pc, prio, lim>>

Step(r) ==
  \/ \E p \in Priority, l \in limit : Acquire(r, p, l)
  \/ Admit(r) \/ Reject(r) \/ Enqueue(r)
  \/ Woken(r) \/ CtxDone(r) \/ CancelWoken(r) \/ CancelRemove(r)
  \/ \E l \in limit : Release(r, l)
  \/ Disconnect(r)

Next == \E r \in Request : Step(r)

Spec == Init /\ [][Next]_vars

(***************************************************************************)
(* Fairness: Go schedules every runnable goroutine and sync.Mutex does not *)
(* starve, so each step of a request that stays enabled is taken.  Release *)
(* is fair because ServeHTTP returns; a client owes us neither an arrival  *)
(* nor a disconnect.                                                       *)
(***************************************************************************)
Fairness ==
  \A r \in Request :
    /\ WF_vars(Admit(r) \/ Reject(r) \/ Enqueue(r))
    /\ WF_vars(Woken(r) \/ CtxDone(r))
    /\ WF_vars(CancelWoken(r) \/ CancelRemove(r))
    /\ WF_vars(\E l \in limit : Release(r, l))

FairSpec == Spec /\ Fairness

-----------------------------------------------------------------------------
(***************************************************************************)
(* Properties.                                                             *)
(***************************************************************************)

Enabled == HasLimitFn \/ MaxInflight > 0

\* The requests that own a slot: dispatched, about to give the slot back, or
\* handed one by a Release they have not noticed yet.
Holders == {r \in Request : pc[r] \in {"holding", "returning"}} \cup ready

\* The requests blocked in Acquire that no Release has picked.
Unwoken(r) == pc[r] \in {"waiting", "cancelling"} /\ r \notin ready

\* Every slot is counted exactly once: whatever the order of Release, wake-up,
\* disconnect and the lock, inflight (gate.go:56) is the number of requests
\* that own a slot, so it never drifts and never goes negative.  A disabled
\* gate counts nothing.
SlotsAccounted == inflight = IF Enabled THEN Cardinality(Holders) ELSE 0

\* Each blocked request is in the queue of its own tier, once, and nothing
\* else is in a queue: a cancelled waiter leaves no channel behind that a
\* Release would hand a slot to (gate.go:119-142).
QueueDiscipline ==
  /\ \A p \in Priority : \A i \in 1 .. Len(queues[p]) :
       Unwoken(queues[p][i]) /\ prio[queues[p][i]] = p
  /\ \A r \in Request : Unwoken(r) =>
       \E i \in 1 .. Len(queues[prio[r]]) : queues[prio[r]][i] = r
  /\ \A p \in Priority : \A i, j \in 1 .. Len(queues[p]) :
       queues[p][i] = queues[p][j] => i = j

\* No lost wake-up: whenever a request waits, some request owns a slot and
\* will call Release, the only thing that wakes a waiter (gate.go:147-165).
NoStrandedWaiter == totalQueued > 0 => Holders # {}

\* Admission control: no tier's queue outgrows its limit (gate.go:105-109).
QueueBounded ==
  \A p \in Priority : limits[p] > 0 => Len(queues[p]) <= limits[p]

\* The gate never dispatches more than the largest limit in force at some
\* time; for a static gate this is maxInflight itself, a hard cap that
\* hand-offs and cancellations keep.
InflightBounded == Enabled => \E l \in limit : inflight <= l

\* Both bounds of the gate, on waiting and on dispatched requests, hold together
\* in every state (gate.go:99 and 106).
WithinLimits == QueueBounded /\ InflightBounded

Before(r, w) ==
  \E i, j \in 1 .. Len(queues[prio[r]]) :
    i < j /\ queues[prio[r]][i] = r /\ queues[prio[r]][j] = w

\* No request that waits is of a higher tier than r, or ahead of r in its tier.
FirstInLine(r) ==
  \A w \in Request \ {r} :
    Unwoken(w) => prio[r] < prio[w] \/ (prio[r] = prio[w] /\ Before(r, w))

\* A slot goes to the longest-waiting request of the highest tier: neither a
\* new arrival nor a hand-off overtakes a waiter of a higher tier or one that
\* is ahead in the same tier (gate.go:98-103 and 156-163).
PriorityOrder == [][\A r \in Holders' \ Holders : FirstInLine(r)]_vars

\* Under fairness an interactive request does not wait for ever, whatever the
\* other tiers do.  (A lower tier may starve: that is the design.)
InteractiveServed ==
  \A r \in Request :
    (pc[r] = "waiting" /\ prio[r] = 0) ~> (pc[r] # "waiting")

\* Under fairness a client that disconnects while its request is in Acquire
\* gets the goroutine back: no cancelled request stays blocked or keeps a slot
\* on the way out (gate.go:119-143).
CancelledLeaves ==
  \A r \in Request :
    (cancelled[r] /\ pc[r] # "holding") ~> (pc[r] \in {"idle", "holding"})

(***************************************************************************)
(* What main.go:46-50 says of the gate: "it engages for priority ordering  *)
(* exactly when all backends are full - never rejecting while a backend is *)
(* free, never admitting past real capacity".                              *)
(***************************************************************************)

\* A request is rejected only if the gate is full by the limit it has read.
RejectsOnlyWhenFull ==
  [][\A r \in Request :
       (pc[r] = "lock" /\ pc'[r] = "idle") => inflight >= lim[r]]_vars

=============================================================================

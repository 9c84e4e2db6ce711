------------------------------- MODULE Router -------------------------------
(***************************************************************************)
(* The life of a request, ServeHTTP of proxy.go: through the admission     *)
(* gate, then pick a backend, reserve a slot on it, forward, stream the    *)
(* answer, learn from it, release.  It composes Gate with the counters of  *)
(* backend.go, the candidate selection of scheduler.go and the             *)
(* conversation store; the health loop, the scraper and the clients are    *)
(* the environment.                                                        *)
(*                                                                         *)
(* The code takes no lock across these parts, so each read of a shared     *)
(* value is a step: TotalConcurrency and Available visit one backend per   *)
(* step, a selection is used after other requests have moved, and the      *)
(* limit that tryReserve compares with may be stale.                       *)
(*                                                                         *)
(* Scores are abstract here: queue depth and speed are overwritten at any  *)
(* time, so the best-scored backend is any safe candidate.                 *)
(***************************************************************************)
EXTENDS Gate

CONSTANTS
  NumBackends,     \* the pool is 1 .. NumBackends, in configuration order
  Model,           \* the model names, normalized
  Conversation,    \* the X-Conversation-Id values
  none,            \* the empty id, and "no backend"
  maxConcurrent,   \* Backend.maxConcurrent, from the configuration; 0 = auto
  Models,          \* Backend.Models; {} accepts every model
  MaxLimit,        \* no concurrency limit is larger
  AutoLimits,      \* what the scraper may compute for autoConcurrent
  ScrapedStates,   \* what the scraper may store of a backend
  HealthReports,   \* what the health loop may find: a subset of {"up", "down"}
  Inputs           \* the requests clients send: model, conversation, priority

Backend == 1 .. NumBackends
State == [warm : SUBSET Model, safe : BOOLEAN]   \* BackendState, as routing sees it

ASSUME PoolAssumption ==
  /\ NumBackends \in Nat \ {0} /\ MaxLimit \in Nat
  /\ maxConcurrent \in [Backend -> 0 .. MaxLimit]
  /\ Models \in [Backend -> SUBSET Model]
  /\ AutoLimits \subseteq 0 .. MaxLimit
  /\ ScrapedStates \subseteq State
  /\ HealthReports \subseteq {"up", "down"}
ASSUME InputsAssumption ==
  /\ Inputs \subseteq [model : Model, conversationID : Conversation \cup {none},
                       priority : Priority]
  /\ none \notin Conversation /\ none \notin Backend
\* main.go:45-51 builds the gate with SetLimitFunc(pool.TotalConcurrency).
ASSUME GateAssumption ==
  HasLimitFn = TRUE /\ Capacities = 0 .. NumBackends * MaxLimit

VARIABLES
  stage,           \* where each request is in ServeHTTP
  req,             \* its clientRequest
  scan,            \* the next backend of its loop over the pool
  sum,             \* `total`, while it runs TotalConcurrency
  candidates,      \* `out`, while it runs Available
  tried,           \* `tried`
  target,          \* `backend`
  bound,           \* the limit it read in tryReserve
  resp,            \* how its backend answered
  status, autoConcurrent, binflight,   \* of each backend
  store,           \* StateStore
  conv             \* ConversationStore, expired entries left out

requestVars == <<stage, req, scan, sum, candidates, tried, target, bound, resp>>
backendVars == <<status, autoConcurrent, binflight, store, conv>>
rvars == <<vars, requestVars, backendVars>>

(***************************************************************************)
(* idle     no request           limit    in TotalConcurrency, for Acquire *)
(* gate     in Gate.Acquire      pick     in PickExcluding                 *)
(* reserve  picked               cas      limit read, in tryReserve        *)
(* forward  slot reserved        stream   headers received                 *)
(* record   slot returned        leaving  returned: the deferred Release   *)
(***************************************************************************)
Stage == {"idle", "limit", "gate", "pick", "reserve", "cas", "forward",
          "stream", "record", "leaving"}

NoRequest == [model |-> none, conversationID |-> none, priority |-> 0]

RTypeOK ==
  /\ stage \in [Request -> Stage]
  /\ req \in [Request -> Inputs \cup {NoRequest}]
  /\ scan \in [Request -> 1 .. NumBackends + 1]
  /\ sum \in [Request -> Capacities]
  /\ candidates \in [Request -> SUBSET Backend]
  /\ tried \in [Request -> SUBSET Backend]
  /\ target \in [Request -> Backend \cup {none}]
  /\ bound \in [Request -> 0 .. MaxLimit]
  /\ resp \in [Request -> {"none", "ok", "error", "cut"}]
  /\ status \in [Backend -> {"up", "down"}]
  /\ autoConcurrent \in [Backend -> 0 .. MaxLimit]
  /\ binflight \in [Backend -> Nat]
  /\ store \in [Backend -> State]
  /\ conv \in [Conversation -> Backend \cup {none}]

\* NewBackendPool starts every backend down, without limit or state; the first
\* request finds it there or wherever the health loop and the scraper have
\* brought it.
RInit ==
  /\ Init
  /\ stage = [r \in Request |-> "idle"]
  /\ req = [r \in Request |-> NoRequest]
  /\ scan = [r \in Request |-> 1]
  /\ sum = [r \in Request |-> 0]
  /\ candidates = [r \in Request |-> {}]
  /\ tried = [r \in Request |-> {}]
  /\ target = [r \in Request |-> none]
  /\ bound = [r \in Request |-> 0]
  /\ resp = [r \in Request |-> "none"]
  /\ status \in [Backend -> HealthReports]
  /\ autoConcurrent \in [Backend -> AutoLimits]
  /\ binflight = [b \in Backend |-> 0]
  /\ store \in [Backend -> ScrapedStates]
  /\ conv = [c \in Conversation |-> none]

-----------------------------------------------------------------------------
(***************************************************************************)
(* backend.go and scheduler.go: what a request reads of a backend.         *)
(***************************************************************************)
effectiveConcurrent(b) ==
  IF maxConcurrent[b] > 0 THEN maxConcurrent[b] ELSE autoConcurrent[b]

hasCapacity(b) ==
  effectiveConcurrent(b) <= 0 \/ binflight[b] < effectiveConcurrent(b)

\* A pool that does not look at the models.
supportsModel_Any(b, m) == TRUE
supportsModel(b, m) == Models[b] = {} \/ m \in Models[b]

isWarm(b, m) == m \in store[b].warm
isSafe(b) == store[b].safe

\* affinityPick: the conversation's backend, if it is still worth it.
Sticky(r, C) ==
  {b \in C : /\ req[r].conversationID # none
             /\ b = conv[req[r].conversationID]
             /\ isWarm(b, req[r].model)
             /\ isSafe(b)}

\* What PickExcluding may return from the candidates C: the sticky backend, or
\* else one that passes the VRAM guard.
Picks(r, C) == IF Sticky(r, C) # {} THEN Sticky(r, C) ELSE {b \in C : isSafe(b)}

-----------------------------------------------------------------------------
(***************************************************************************)
(* Steps that move a request and leave the gate alone.  A local variable   *)
(* is cleared as soon as the code is done with it.                         *)
(***************************************************************************)
Goto(r, s) == stage' = [stage EXCEPT ![r] = s]

\* proxy.go:54-64.  An unreadable body returns 413 here, with nothing changed.
Arrive(r, in) ==
  /\ stage[r] = "idle"
  /\ Goto(r, "limit")
  /\ req' = [req EXCEPT ![r] = in]
  /\ UNCHANGED <<vars, scan, sum, candidates, tried, target, bound, resp, backendVars>>

\* One round of the loop in TotalConcurrency (backend.go:237-250).
SumLimit(r) ==
  LET b == scan[r]
      up == status[b] = "up"
      unlimited == up /\ effectiveConcurrent(b) <= 0
  IN  /\ stage[r] = "limit"
      /\ b <= NumBackends
      /\ scan' = [scan EXCEPT ![r] = IF unlimited THEN NumBackends + 1 ELSE b + 1]
      /\ sum' = [sum EXCEPT ![r] = IF unlimited THEN 0
                                   ELSE @ + IF up THEN effectiveConcurrent(b) ELSE 0]
      /\ UNCHANGED <<vars, stage, req, candidates, tried, target, bound, resp,
                     backendVars>>

\* One round of the loop in Available (backend.go:218-226).
Visit(r) ==
  LET b == scan[r]
  IN  /\ stage[r] = "pick"
      /\ b <= NumBackends
      /\ scan' = [scan EXCEPT ![r] = b + 1]
      /\ candidates' = [candidates EXCEPT ![r] =
           IF status[b] = "up" /\ supportsModel(b, req[r].model) /\ hasCapacity(b)
           THEN @ \cup {b} ELSE @]
      /\ UNCHANGED <<vars, stage, req, sum, tried, target, bound, resp, backendVars>>

\* Available has returned; PickExcluding is done with its result.
Visited(r) ==
  /\ stage[r] = "pick" /\ scan[r] = NumBackends + 1
  /\ scan' = [scan EXCEPT ![r] = 1]
  /\ candidates' = [candidates EXCEPT ![r] = {}]

\* The filter of PickExcluding, and a request that forgets what it has tried.
Untried_Forgetful(r) == candidates[r]
Untried(r) == candidates[r] \ tried[r]

\* The rest of PickExcluding (scheduler.go:95-118) and proxy.go:85.  The stores
\* are read here once; the code reads them for each candidate, without a lock.
Choose(r) ==
  /\ Visited(r)
  /\ \E b \in Picks(r, Untried(r)) :
       /\ target' = [target EXCEPT ![r] = b]
       /\ tried' = [tried EXCEPT ![r] = @ \cup {b}]
  /\ Goto(r, "reserve")
  /\ UNCHANGED <<vars, req, sum, bound, resp, backendVars>>

\* proxy.go:80-84: nothing to pick, or only backends near their VRAM limit.
NoBackend(r) ==
  /\ Visited(r)
  /\ Picks(r, Untried(r)) = {}
  /\ Goto(r, "leaving")
  /\ tried' = [tried EXCEPT ![r] = {}]
  /\ UNCHANGED <<vars, req, sum, target, bound, resp, backendVars>>

\* tryReserve, backend.go:82: the limit is read first.
ReadLimit(r) ==
  /\ stage[r] = "reserve"
  /\ bound' = [bound EXCEPT ![r] = effectiveConcurrent(target[r])]
  /\ Goto(r, "cas")
  /\ UNCHANGED <<vars, req, scan, sum, candidates, tried, target, resp, backendVars>>

\* The test of backend.go:83-91, and a tryReserve that trusts hasCapacity.
BelowLimit_Trusting(r) == TRUE
BelowLimit(r) == bound[r] <= 0 \/ binflight[target[r]] < bound[r]

\* tryReserve, backend.go:83-95: the compare-and-swap succeeds.
Reserve(r) ==
  /\ stage[r] = "cas"
  /\ BelowLimit(r)
  /\ binflight' = [binflight EXCEPT ![target[r]] = @ + 1]
  /\ bound' = [bound EXCEPT ![r] = 0]
  /\ Goto(r, "forward")
  /\ UNCHANGED <<vars, req, scan, sum, candidates, tried, target, resp,
                 status, autoConcurrent, store, conv>>

\* tryReserve, backend.go:89-91, and proxy.go:91-93: the race is lost.
ReserveFails(r) ==
  /\ stage[r] = "cas"
  /\ ~BelowLimit(r)
  /\ bound' = [bound EXCEPT ![r] = 0]
  /\ target' = [target EXCEPT ![r] = none]
  /\ Goto(r, "pick")
  /\ UNCHANGED <<vars, req, scan, sum, candidates, tried, resp, backendVars>>

\* proxy.go:94 and 109: the response headers have arrived.
Forward(r, answer) ==
  /\ stage[r] = "forward"
  /\ Goto(r, "stream")
  /\ tried' = [tried EXCEPT ![r] = {}]
  /\ resp' = [resp EXCEPT ![r] = answer]
  /\ UNCHANGED <<vars, req, scan, sum, candidates, target, bound, backendVars>>

\* decInflight, backend.go:49, and two slips: forgotten, and done twice.
decInflight_Lost(r) == UNCHANGED binflight
decInflight_Twice(r) == binflight' = [binflight EXCEPT ![target[r]] = @ - 2]
decInflight(r) == binflight' = [binflight EXCEPT ![target[r]] = @ - 1]

\* proxy.go:100-107: no retry for a client that is gone.
RetryUnlessGone(r) ==
  /\ Goto(r, IF cancelled[r] THEN "leaving" ELSE "pick")
  /\ tried' = [tried EXCEPT ![r] = IF cancelled[r] THEN {} ELSE @]
  /\ target' = [target EXCEPT ![r] = none]

\* proxy.go:95-107: connect, TLS or header timeout, or the client is gone.
ForwardFails(r) ==
  /\ stage[r] = "forward"
  /\ decInflight(r)
  /\ RetryUnlessGone(r)
  /\ UNCHANGED <<vars, req, scan, sum, candidates, bound, resp, status,
                 autoConcurrent, store, conv>>

\* proxy.go:110-112: the body ends, or a read or a write fails half way.
StreamEnds(r, whole) ==
  /\ stage[r] = "stream"
  /\ decInflight(r)
  /\ resp' = [resp EXCEPT ![r] = IF @ = "ok" /\ ~whole THEN "cut" ELSE @]
  /\ Goto(r, "record")
  /\ UNCHANGED <<vars, req, scan, sum, candidates, tried, target, bound,
                 status, autoConcurrent, store, conv>>

\* proxy.go:138-147: learn from a 2xx answer whose client is still there.  The
\* speed average and the request counters are data no step here reads.
Record(r) ==
  LET c == req[r].conversationID
  IN  /\ stage[r] = "record"
      /\ conv' = IF resp[r] # "error" /\ ~cancelled[r] /\ c # none
                 THEN [conv EXCEPT ![c] = target[r]] ELSE conv
      /\ Goto(r, "leaving")
      /\ target' = [target EXCEPT ![r] = none]
      /\ resp' = [resp EXCEPT ![r] = "none"]
      /\ UNCHANGED <<vars, req, scan, sum, candidates, tried, bound,
                     status, autoConcurrent, binflight, store>>

-----------------------------------------------------------------------------
(***************************************************************************)
(* Steps in the gate: proxy.go:68-74.                                      *)
(***************************************************************************)
\* Gate.limit of the sum, and one that takes "unlimited" for "disabled".
LimitOf_Raw(n) == n
LimitOf(n) == IF n > 0 THEN n ELSE MaxInt32

CallAcquire(r) ==
  /\ stage[r] = "limit" /\ scan[r] = NumBackends + 1
  /\ Acquire(r, req[r].priority, LimitOf(sum[r]))
  /\ scan' = [scan EXCEPT ![r] = 1]
  /\ sum' = [sum EXCEPT ![r] = 0]
  /\ Goto(r, "gate")
  /\ UNCHANGED <<req, candidates, tried, target, bound, resp, backendVars>>

\* Acquire goes on.
InGate(r) ==
  /\ stage[r] = "gate"
  /\ Enqueue(r) \/ CtxDone(r) \/ CancelWoken(r)
  /\ UNCHANGED <<requestVars, backendVars>>

\* Acquire returns true.
Admitted(r) ==
  /\ stage[r] = "gate"
  /\ Admit(r) \/ Woken(r)
  /\ Goto(r, "pick")
  /\ UNCHANGED <<req, scan, sum, candidates, tried, target, bound, resp, backendVars>>

\* The handler has returned.
Done(r) ==
  /\ Goto(r, "idle")
  /\ req' = [req EXCEPT ![r] = NoRequest]
  /\ UNCHANGED <<scan, sum, candidates, tried, target, bound, resp, backendVars>>

\* Acquire returns false: 503, without a Release of its own.
Refused(r) ==
  /\ stage[r] = "gate"
  /\ \/ Reject(r) \/ CancelRemove(r)
     \/ pc[r] = "returning" /\ \E l \in limit : Release(r, l)
  /\ Done(r)

\* A path out of the handler without its Release.
CallRelease_Skipped(r) ==
  /\ stage[r] = "leaving"
  /\ Done(r)
  /\ UNCHANGED vars

\* The deferred Release.  Its limit() is positive whatever it reads.
CallRelease(r) ==
  /\ stage[r] = "leaving"
  /\ \E l \in limit : Release(r, l)
  /\ Done(r)

-----------------------------------------------------------------------------
(***************************************************************************)
(* The environment.                                                        *)
(***************************************************************************)
ClientDisconnects(r) ==
  /\ Disconnect(r)
  /\ UNCHANGED <<requestVars, backendVars>>

\* HealthLoop, backend.go:200-210.
HealthReport(b, s) ==
  /\ status' = [status EXCEPT ![b] = s]
  /\ UNCHANGED <<vars, requestVars, autoConcurrent, binflight, store, conv>>

\* SetAutoConcurrent, backend.go:99-101.
SetAutoConcurrent(b, n) ==
  /\ autoConcurrent' = [autoConcurrent EXCEPT ![b] = n]
  /\ UNCHANGED <<vars, requestVars, status, binflight, store, conv>>

\* StateStore.Set, state.go:37-41.
SetState(b, st) ==
  /\ store' = [store EXCEPT ![b] = st]
  /\ UNCHANGED <<vars, requestVars, status, autoConcurrent, binflight, conv>>

\* An entry outlives its TTL, conversation.go:36-42.
Expire(c) ==
  /\ conv' = [conv EXCEPT ![c] = none]
  /\ UNCHANGED <<vars, requestVars, status, autoConcurrent, binflight, store>>

Handle(r) ==
  \/ SumLimit(r) \/ CallAcquire(r) \/ InGate(r) \/ Admitted(r) \/ Refused(r)
  \/ Visit(r) \/ Choose(r) \/ NoBackend(r) \/ ReadLimit(r) \/ Reserve(r)
  \/ ReserveFails(r) \/ Record(r) \/ CallRelease(r)

\* The outcomes of Proxy.forward: an error, or a response of any status.
Answer(r) == ForwardFails(r) \/ \E a \in {"ok", "error"} : Forward(r, a)

Environment ==
  \/ \E b \in Backend : \/ \E s \in HealthReports : HealthReport(b, s)
                        \/ \E n \in AutoLimits : SetAutoConcurrent(b, n)
                        \/ \E st \in ScrapedStates : SetState(b, st)
  \/ \E c \in Conversation : Expire(c)

RNext ==
  \/ \E r \in Request :
       \/ \E in \in Inputs : Arrive(r, in)
       \/ Handle(r) \/ Answer(r)
       \/ \E whole \in BOOLEAN : StreamEnds(r, whole)
       \/ ClientDisconnects(r)
  \/ Environment

RSpec == RInit /\ [][RNext]_rvars

-----------------------------------------------------------------------------
(***************************************************************************)
(* Properties.                                                             *)
(***************************************************************************)

OnBackend(b) == {r \in Request : stage[r] \in {"forward", "stream"} /\ target[r] = b}

\* Every success of tryReserve is paired with one decInflight: a backend's
\* counter is the number of requests it is serving, whatever the order of
\* lost races, failed forwards, retries and disconnects (backend.go:80).
BackendSlots == \A b \in Backend : binflight[b] = Cardinality(OnBackend(b))

\* max_concurrent is a hard cap, although the candidates were selected on
\* counters that have moved since (proxy.go:87-90, backend.go:76-80).
HardCap ==
  \A b \in Backend : maxConcurrent[b] > 0 => binflight[b] <= maxConcurrent[b]

\* A request that looks for a backend, or is on one, owns a gate slot, and a
\* request owns one only then or while it is in Acquire: the deferred Release
\* (proxy.go:74) runs exactly once, on every path out of the handler.
SlotPaired ==
  \A r \in Request :
    /\ (pc[r] = "holding") <=>
         (stage[r] \in {"pick", "reserve", "cas", "forward", "stream", "record", "leaving"})
    /\ (pc[r] = "idle") <=> (stage[r] \in {"idle", "limit"})

\* Limits come from the configuration and every backend stays up.
Steady == HealthReports = {"up"} /\ \A b \in Backend : maxConcurrent[b] > 0

\* "never admitting past real capacity" (main.go:48): in a steady system the
\* gate lets in no more requests than the pool has slots, so while one of them
\* looks for a backend, some backend is below its limit.  Whether the request
\* finds it is another matter: Visit may pass each backend while it is full, and
\* a backend that has been tried is not tried again.
AdmittedFits ==
  Steady =>
    \A r \in Request :
      stage[r] \in {"pick", "reserve", "cas"} =>
        \E b \in Backend : binflight[b] < maxConcurrent[b]

\* A conversation is pinned to a backend that serves the model it is about, and
\* stays so whatever the retries and the scraper do (proxy.go:142).
PinServesModel ==
  \A c \in Conversation : conv[c] # none =>
    \E in \in Inputs :
      in.conversationID = c /\ (Models[conv[c]] = {} \/ in.model \in Models[conv[c]])

\* Seen from the gate, the requests of the router are users of Gate: they call
\* Acquire with a limit that TotalConcurrency can return, and each true answer
\* is followed by one Release (proxy.go:68-74, main.go:51).
ImplementsGate == Spec

(***************************************************************************)
(* What the documentation says and the code does not do.                   *)
(***************************************************************************)

\* "only pin the conversation's affinity on success" (proxy.go:134-135): a
\* conversation is not pinned to a backend whose stream broke off.
PinnedOnSuccess ==
  [][\A r \in Request :
       (stage[r] = "record" /\ stage'[r] = "leaving" /\ conv' # conv) => resp[r] = "ok"]_rvars

=============================================================================

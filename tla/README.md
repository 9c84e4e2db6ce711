# A formal model of LoxyRouter

LoxyRouter is an HTTP router in front of a pool of LLM servers (Ollama, vLLM).
Each request passes an admission gate, is placed on a backend by a scheduler
that knows which models are loaded where, takes a slot on that backend, is
forwarded, streamed back, and teaches the scheduler what it learned.  This
directory holds TLA+ modules for that system, TLC configurations that check them
on small instances, and TLAPS proofs that hold for every instance.
`PROJECT.json` maps each definition to the source lines it models.

Run a check with `tlc -config <run>.cfg <module>` and the proofs with `tlapm`
on `Induction.tla` and on each of the modules named `*Proofs.tla`.

## The system

| part | state | operations | correct when |
|---|---|---|---|
| admission gate, `gate.go` | `inflight`, three FIFO queues of waiters' channels, under one mutex | `Acquire`, its three ways out of the wait, `Release` | each slot is counted once, no wake-up is lost, slots go out in priority order, queues stay within their limits |
| request handler, `proxy.go` | locals of each request: tried set, backend, response; token counter | `ServeHTTP`: classify, acquire, pick / reserve / forward with retries, stream, learn, release | gate and backend slots are paired on every path; retries end; a gone client frees everything |
| backends and pool, `backend.go` | per backend: status, `inflight`, `autoConcurrent`, speed average | `tryReserve`, `decInflight`, `Available`, `TotalConcurrency`, `RecordPerTokenMs`, `HealthLoop` | `max_concurrent` is a hard cap; the average follows the samples |
| scheduler, `scheduler.go`, `plugin.go` | none of its own | `PickExcluding`: plugin, affinity, VRAM guard, best score | never an ineligible backend; exhaustive over retries; the loop finds the best |
| backend state, `state.go` | last scrape of each backend | `Get`, `Set`, `All` | readers see whole records |
| conversations, `conversation.go` | id to backend and time | `Get`, `Set`, `Reap`, `ReapLoop` | lookups honour the TTL exactly; expired entries go |
| scraper, `scraper.go` | none of its own | one goroutine per backend and round; sizing of `autoConcurrent` | out-of-order results do not last; no auto-sized backend stays unlimited; its slots fit the VRAM |
| classification, `request.go` | none | model, conversation, priority from headers and body | - |
| start-up and shutdown, `main.go`, `config.go` | configuration | wiring, queue limits, drain on a signal | a drain ends and leaves no slot behind |
| `status.go`, `metrics.go`, `auth.go`, `logger.go` | counters | rendering, token comparison | - |

Everything shared is touched by one goroutine per request, the health loop,
the scraper's goroutines and the reaper.  There is no lock across parts: the
gate reads the pool's capacity before it locks, the scheduler reads counters
and then somebody else's reservation gets in between, health and limits change
under a request that has already chosen.  These windows, client disconnects at
any moment, failed forwards, streams that break off or never end, scrapes that
fail or overtake each other, and a process told to stop at any time are what the
model is about.  `PROJECT.json` lists them as hazards, line by line.

## The modules

**Gate** (`gate.go`).  A request moves through `pc`: `idle`, `lock` (limit read,
mutex not taken), `waiting` (in the `select`), `cancelling` (took `ctx.Done`,
mutex not taken), `holding` (`Acquire` returned true), `returning` (woken too
late, about to call `Release` from within `Acquire`).  Each action is one
critical section or one atomic event.  A waiter's channel is the waiter itself;
a closed channel is membership in `ready`.  `limit` is the set of values that
`limit()` may return, since `limitFn` sums over counters that move meanwhile.

**Router** (`proxy.go`, `backend.go`, selection of `scheduler.go`) extends Gate
and gives each request a `stage` in `ServeHTTP`.  `TotalConcurrency` and
`Available` visit one backend per step; `tryReserve` reads its limit in one step
and does its compare-and-swap in another, which BackendCounters justifies.  A request that takes part in several attempts keeps `tried`.
Health reports, scraped limits and states, expiring conversations, disconnects
and the fate of forwards and streams are chosen freely.  Scores are left open:
queue depth and speed may be anything, so the best backend is any safe
candidate.  No plugin is registered, as in `main.go`.

**Scheduler** (`scheduler.go`) is the other half: `PickExcluding` with its
arithmetic over one snapshot of the pool, called again for each attempt of a
request, the plugin included.  Times are integers in ms and VRAM use is in
percent; a score is compared through its reciprocal.

**ConversationStore** (`conversation.go`).  Ages instead of time stamps, cut off
just above the TTL, keep the clock unbounded.  `Reap` visits entry by entry with
the mutex held while time goes on.  `served` is a history variable.  Router
keeps of this module what `Get` returns: `Record` is `Set`, `Expire` is an age
passing the TTL.

**Lifecycle** (`main.go:80-105`) extends Router with the `phase` of the process.
`Signal` starts the drain, `Drained` ends it when every handler has returned,
`Exit` stands for the listener's failure, the deadline of `shutdownTimeout` and a
second signal, which may come at any time.  `http.Server` is external: it closes
the listener, lets accepted connections send their request and cancels nothing.

**AtomicCounters** and **BackendCounters** (`backend.go:47-120`).  The first says
what the counters of a backend promise: `tryReserve` and `RecordPerTokenMs` are
one step each, with a limit read before.  The second has the loops as they are,
one atomic operation per step, and `ImplementsAtomic` is the first one under the
refinement mapping `Op`: a caller that has loaded a value and not yet swapped is
still "in the call".

**Scraper** (`scraper.go`, `state.go`).  Scrapes of one backend (`Job`) overlap.
An Ollama scrape reads the resident models, checks whether a baseline is needed,
seeds or sizes `autoConcurrent`, and stores; each is a step of its own, because
the code has no lock here.  A vLLM scrape makes two calls, neither of whose
failures is an error.  `truth` is what the backend would report now and changes
freely.  The scraper never looks at a status code: an HTTP error of an Ollama backend
whose body is a JSON object is decoded to no models (`PsError`) and stored, cold and
with nothing in use, while a call that times out or cannot be decoded stores nothing
(`PsFails`).  Sizes are in bytes and the sizing arithmetic is the code's; metric lines
are sequences of fields, so that blanks inside labels are seen.

**TokenCounter** (`proxy.go:213-353`).  A body is a sequence of symbols, cut into
reads in any way and broken off anywhere; keys and digits are symbols, and so are
the two halves of `data:`, which a read may split.  `observe`, `count`, `result`
and `jsonIntField` are operators named as in the code.

**MCGate, MCRouter, MCLifecycle, MCScheduler, MCScraper, MCTokenCounter** define
the constants of the runs.  **GateProofs, RouterProofs, CountersProofs,
ConversationProofs, SchedulerProofs, ScraperProofs, TokenProofs** hold the theorems,
each about the module it extends; RouterProofs extends Lifecycle and GateProofs, so
that Router is proved from Gate and the process from Router.  **Induction** is the
library of lemmas on numbers, finite sets and folds that three of them use.

Operators with a suffix (`FastPath_Barging`) are slips of the pen one could make
in that code; each property is violated when one of them takes the place of the
original.  No specification uses them.

## The runs

| run | instance | shows |
|---|---|---|
| `gate` | 3 requests, limit 1 or 2 at each call, tiers limited to 2, 1 and no limit | the safety invariants, `PriorityOrder`, and under fairness `InteractiveServed`, `CancelledLeaves` |
| `router_steady` | 4 requests, 2 backends of one slot, always up: one request waits, one is rejected | slots of gate and backends paired on every path; `AdmittedFits`: while somebody who passed the gate looks for a backend, one has a free slot |
| `router_churn` | 2 requests; one capped and one auto-sized backend whose limit changes, one conversation, a restricted backend, warmth and safety changing | `HardCap`, `PinServesModel`, `ImplementsGate` |
| `lifecycle` | 2 requests, 2 backends going up and down, a signal at any time | `CleanStop`, `DrainEnds`, `AdmittedReturns`, `DisconnectReturns` |
| `backend` | 3 callers, limit none, 1 or 2, samples 1 and 7 ms | `ImplementsAtomic`, `LoopsEnd`, `SpeedTracks`, `SpeedConverges` |
| `scraper` | 3 overlapping scrapes of each of 8 hosts: GPU, CPU, VRAM unknown, capped, never loading, tiny models, two vLLM | `StaysCapped`, `EventuallyCapped`, `StoreConverges`, `SlotsFit`, `GuardSettles` |
| `tokens` | 9 bodies, reads of up to 4 symbols, a tail of 12 | `CountIgnoresChunks`, `ExactWhenReported`, `NeverZero` |
| `scheduler` | every pool of 3 backends out of 28 profiles, every sticky backend, plugin silent, choosing or rejecting | eligibility, exhaustive retries, the best score, affinity first, fast warm backends win |
| `conversations` | 3 conversations, 2 backends, TTL 2 | `GetIsExact`, `ExpiredGoes` |

Three more runs end in a violation: they state a sentence of the documentation
that the code does not keep.

- `gate_growth`: "never rejecting while a backend is free" (`main.go:46-48`).
  When capacity grows nobody wakes the waiters, so arrivals queue behind them,
  and may be rejected, although the limit they have read leaves room.
- `router_pin`: "only pin the conversation's affinity on success"
  (`proxy.go:134-135`).  A 200 whose body breaks off counts as a success.
- `scraper_seed`: "only if we've never computed one, so a real value learned
  while warm survives" (`scraper.go:93-94`).  The check and the seeding are two
  steps.  In the trace one scrape decodes no models and finds no limit, an
  overlapping one sizes the backend from its models, and the first then replaces
  that limit by the baseline 4.

Further differences between the documents and the code, which the model follows on
the code's side:

- The score.  The comment at `scheduler.go:70-73` gives a cold backend
  `coldLoadMs + load * reqMs`, `scheduler.go:206` multiplies `coldLoadMs` by
  1 + VRAMUsedPct; `README.md:174-175` also leaves out `expectedTokens`.  The choice
  differs on pools of run `scheduler`: of two idle cold backends at 89 % and 0 %, in
  this order, the comment's formula takes the first and the code the second; between
  a warm backend with load 4 at the default speed and an idle cold one, the README's
  formula takes the warm one (100 against 25000) and the code the cold one (25600
  against 25000).  `TakesTheBest` and `FastWarmWins` are about the code's score.
- A 503 for an admitted request.  In the steady pool of run `router_steady` a request
  that has passed the gate may still end with "no available backend" (`NoBackend`)
  on its first attempt, with a backend free: `Available` visits backend 1 while it is
  full, the request there fails over to backend 2, and the visit of backend 2 finds
  that one full.  Nor does a request come back to a backend that it lost in a race.
  `main.go:46-48` promises both that the gate never admits past capacity, which
  `AdmittedFits` confirms for a steady pool, and "never rejecting while a backend is
  free", which holds neither here nor in `gate_growth`.
- The VRAM guard ("refuses to route to a backend near its memory ceiling",
  `README.md:38`) trusts the last scrape, and after an HTTP error with a JSON body
  (Ollama) or a failed `/metrics` call (vLLM) that says 0 %.  `StoreConverges` shows
  that this ends with the scrapes that succeed afterwards; `GuardSettles` shows that
  timeouts and undecodable answers do no such harm.

### Bounds

In `gate`, three requests make every relation of the gate happen: an owner, a waiter and a
third that arrives, is rejected, overtakes or is cancelled; limits 1 and 2 give
growth and shrinkage between two reads.  Two backends of one slot are the least
pool in which a request can lose a race on one and go on to the other; with
four requests one waits and one finds its tier full.  In `lifecycle` two requests
suffice: when one backend is down the second waits.  `MaxLimit` bounds the limit of a backend and is 1
in the runs, so every counter meets its limit; 0, unlimited, occurs too.  The
profiles of `scheduler` lie on both sides of each boundary: no history (0 ms)
and 97 ms per token, 89 and 90 % of VRAM and unknown, idle and loaded, a
saturated limit.  Three callers in `backend` are enough for one to lose a swap to
a second and the retry to a third; the samples 1 and 7 make the average stall at
3, the full 4 ms below.  Three scrapes overlap although `Run` is 2 s apart from
round to round because a vLLM scrape makes two calls of up to 3 s.  The hosts of
`scraper` lie on both sides of each case of the sizing: nothing free, more used
than there is, one slot to be halved, more than 32, less than ten bytes.  In
`tokens` the tail is just long enough for the fields of one body and cuts the
others; `tokenTailMax`, `BufMax`, `NsPerMs` and `MaxInt` are scaled down from 2048, 4096,
1000000 and 2^63 - 1, so that one body holds a count out of range.  Requests are interchangeable, so the safety runs of Router use
symmetry; the runs with liveness do not.  No counter is capped: they are bounded
because requests are.

### Fairness

Go schedules runnable goroutines and `sync.Mutex` does not starve a waiter, so
each request's own steps are weakly fair.  A forward is fair because dial, TLS
and header wait have timeouts (`proxy.go:42-48`); the header timeout starts when the
request has been written, so backends are assumed to read the request.  A stream has none: a stream
is only assumed to end once its client is gone, when reads and writes fail
through the request's context.  `AdmittedReturns` and `DrainEnds` state their
stronger assumptions, `StreamsEnd` and `ArrivalsEnd`, in the property; the drain
deadline is not assumed to come, so `DrainEnds` does not rest on it.  A caller in
a compare-and-swap loop runs on.  `Scraper.Run` never stops and every scrape ends,
by its 3 s timeout at the latest; that a backend answers or stands still is an
assumption of the property that needs it.  No arrival, disconnect, health report or
scrape is fair.  In Gate alone, `Release` is fair, standing for handlers that
return.  `ReapLoop`'s sleep ends, and its loop goes on.

Deadlock is checked in every run except `lifecycle`, whose process stops, and
`tokens`, where a stream ends; elsewhere none occurs, since a new request, call or
scrape may always start.

## The proofs

Each result holds for every value of the constants that satisfies the module's
assumptions.  Those ask for types, for finite sets of requests, callers and loaded
models, and for names such as `none` that are no backend; Router's `GateAssumption`
is the wiring of `main.go:45-51`.  TLC evaluates them in every run.

**Gate** (GateProofs): `GateTypeOK`, `GateSlotsAccounted`, `GateQueueDiscipline`,
`GateNoStrandedWaiter`, `GateBounds`, `GatePriorityOrder`, for static, dynamic and
disabled gates.  `GateInvariant` is the induction.  None of the invariants is
inductive alone: that a hand-off adds exactly one owner needs the head of the queue
to own nothing yet (`QueueDiscipline`); that needs woken requests to be out of the
queues and still in `Acquire` (`ReadyWaits`); that somebody owns a slot whenever a
request is queued needs the limits carried to the lock to be positive (`LimitRead`);
and a disabled gate must never have let anybody into the queues (`DisabledIdle`).
`IInv` is their conjunction.  There is a lemma per action; actions that move a
request without touching slots or queues share `QuietStep`.

**Router** (RouterProofs): `RouterTypeOK`, `RouterBackendSlots`, `RouterSlotPaired`,
`RouterHardCap`, `RouterPinServesModel`, and `RouterImplementsGate`.  The invariant
`RInv` is the gate's `IInv` and what a request remembers between two steps:
what it has summed so far is within what the gate may be told (`SumSoFar`), it has a
target from pick to record (`HasTarget`), the limit it compares with in its swap is
the configured one if there is one (`BoundRead`, without which `HardCap` is not
inductive), and candidates serve its model (`ServesModel`, for `PinServesModel`).
Every router step is a gate step or leaves the gate alone, which gives `IInv'` by
GateProofs and the refinement by the same lemma.

`RouterAdmittedFits` is about a steady pool, in which limits are configured and
backends stay up.  `SteadyInv` says that each request that has read the limit has
read the same number, `Total`, the number of places (backend, slot) of the pool, and
that the gate has admitted no more requests than that.  If every backend were full,
`Total` requests would be on backends (`BackendSlots`), each with a gate slot
(`SlotPaired`); the one that still looks for a backend owns one more
(`SlotsAccounted`).  The sums are cardinalities of sets of places, so that no fold
is needed.

`RouterHandlerAdvances` is the safety half of `AdmittedReturns`: `Rank` bounds the
steps a handler past the gate has left, and each step of the system leaves the
handler where it is or lowers the bound.  A failed attempt sends the handler back to
the start of its loop, so the rank counts the backends it has not tried; `Choose`
uses one up because a pick is never in `tried`.  That the handler does take its
steps is fairness and stays with TLC.

**Lifecycle** (RouterProofs): `LifecycleImplementsRouter`, by which all of the above
holds in the process, and `LifecycleCleanStop`: when all handlers are idle, nobody
owns a gate slot, so `inflight` is 0, nobody waits, and no backend serves anyone.

**Counters** (CountersProofs): `CountersImplementAtomic`, linearizability of the two
compare-and-swap loops for any number of callers.  The successful swap, the plain
addition and the load that finds the counter at the limit are the steps of the
abstract operation, all others stutter; `LimitKept` (what is about to be swapped is
below the limit read) and `SampleKept` make the map work.  `CountersTypeOK` needs
`HeldCounted`, which keeps the counter from going negative.
`CountersSpeedTracks` is the integer arithmetic of the average for all samples;
`CountersSpeedBetween` follows: the average is unset or between the least and the
largest sample.

**Conversations** (ConversationProofs): `ConversationGetIsExact`; the invariant
`DroppedLate` says that the table holds what was last set or dropped it late enough.

**Scheduler** (SchedulerProofs): `SchedulerOnlyEligible`, `SchedulerGivesUpLast`,
`SchedulerStickyFirst`, `SchedulerTakesTheBest`, `SchedulerFastWarmWins`.  The lemma
`BestScore` says what the loop of `bestScore` returns for a pool of any size;
`PickCases` lists the four ways out of `PickExcluding`, and the theorems follow
from them.

**Scraper** (ScraperProofs): `ScraperTypeOK` with the bound 0 .. 32 on the limit,
`ScraperStaysCapped`, and `ScraperSizingFits`, the step-by-step form of `SlotsFit`:
every limit that the sizing computes fits the VRAM that the models it was computed
for leave free.  Sums over the models are shown to be numbers, whatever the order in
which the fold takes them.

**Token counter** (TokenProofs): `TokenNeverZero`, `TokenCountIgnoresChunks`, and
`TokenExactWhenReported`, all from `TokenInvariant`: newlines and tail are functions
of the text that has been read, and `sse` is set only if the text has an event
prefix.  It rests on two facts on sequences: newlines add up over a concatenation
(`NewlinesAdd`), and the tail of a tail and a chunk is the tail of the whole
(`SuffixConcat`).  `TokenExactWhenReported` assumes of the responses that one read of
the whole gives the count and speed the engine reports (`ReadsRight`) and concludes
that any way of reading does; the bodies of run `tokens` satisfy the assumption.

Induction over data: the library's induction theorems take a predicate as a
parameter, which the provers here cannot instantiate.  Induction states them for
sets instead: a set with 0 that is closed under successor has all numbers
(`SetInduction`, from the least element of what it lacks), a set of sets that is
closed under adding a named element has the finite set in question
(`SubsetInduction`).  From these come maxima, minima, and that a fold defined by a
recursive function exists and is unique (`FoldExists`, `FoldUnique`), so that what
`MapThenSumSet` and `FoldLeft` compute can be reasoned about.

Only model-checked: the liveness properties, which need fairness and are outside the
prover's reach: `InteractiveServed`, `CancelledLeaves`, `DrainEnds`,
`AdmittedReturns`, `DisconnectReturns`, `LoopsEnd`, `SpeedConverges`,
`EventuallyCapped`, `StoreConverges`, `SlotsFit`, `GuardSettles`, `ExpiredGoes`.  Every
invariant and action property of a passing run is also a theorem.  Static and
disabled gates are covered by the proofs and not by a run.

## Not modelled

Header copying, body limits, JSON parsing and log lines; file and environment
parsing and the probing of ports at start-up, which happen once; rendering of
`/status` and `/metrics` and the request totals, which no decision reads; the token
comparison of `auth.go`, which keeps no state; `Scheduler.Pick` without exclusion,
which only tests call.  Of a scrape, a metric line with a timestamp (vLLM writes
none; the parser would take it for the value) and several engines in one vLLM
server (the last line wins).  In Router, `Choose` and `NoBackend` read the
conversation and the state store in one step, where the code reads them several
times.  An auto-sized backend that is up and has not been
scraped yet is unlimited for a while; `EventuallyCapped` says that it ends.

## Plan

The modules are complete, and so are the proofs of the safety properties of the
runs.  What is left:

1. that a stored state is one the backend has reported, the safety fact behind
   `StoreConverges`;
2. that the pins of Router are what ConversationStore promises: a refinement of its
   `Get`, `Set` and expiry.

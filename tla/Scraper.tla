------------------------------ MODULE Scraper -------------------------------
(***************************************************************************)
(* The scraper, scraper.go, and the StateStore it writes, for one backend  *)
(* (backends share nothing here).  Run starts a goroutine every 2 s whose  *)
(* HTTP calls may each take 3 s, so scrapes of a backend overlap and their *)
(* results are applied in any order.  The backend itself is the            *)
(* environment: it loads and unloads models and may not answer.            *)
(*                                                                         *)
(* VRAM use is in percent; sizes are in bytes.  Of BackendState the model  *)
(* keeps what routing reads: the models, VRAMUsedPct and QueueDepth.       *)
(***************************************************************************)
EXTENDS Integers, Sequences, FiniteSetsExt

CONSTANTS
  Job,     \* scrapes that may be under way at a time
  Name,    \* the model names, normalized
  Hosts,   \* the backends a configuration may describe
  none     \* no state stored yet

MB == 1048576
NaN == -1            \* a field of a Prometheus line that is not a number
defaultColdConcurrent == 4
vramGuardThreshold == 90

\* What a backend would report at some moment.
Report ==
  [resident : SUBSET [name : Name, size : Nat, vram : Nat],   \* its models
   usage : 0 .. 100, waiting : Nat]                           \* vLLM metrics

HostType ==
  [type : {"ollama", "vllm"},
   maxConcurrent : Nat, vramTotalMB : Nat,     \* 0: auto, and unknown
   models : {{}} \cup {{n} : n \in Name},      \* the first of b.Models
   labels : {<<>>, <<NaN>>},                   \* blanks inside its metric labels
   reports : SUBSET Report]

ASSUME HostsAssumption ==
  /\ Hosts \subseteq HostType
  /\ \A h \in Hosts : h.reports # {} /\ \A t \in h.reports : IsFiniteSet(t.resident)

VARIABLES
  host,             \* the backend's configuration
  truth,            \* what it would report now
  autoConcurrent,   \* Backend.autoConcurrent
  store,            \* its entry in the StateStore
  pc,               \* where each scrape is
  ps,               \* the models of its /api/ps answer
  state             \* the `state` it builds

svars == <<host, truth, autoConcurrent, store, pc, ps, state>>
env == <<host, truth>>

BackendState == [models : SUBSET Name, pct : Nat, queue : Nat]
Zero == [models |-> {}, pct |-> 0, queue |-> 0]

(***************************************************************************)
(* idle    no scrape            get     waiting for /api/ps or /metrics    *)
(* check   ps decoded           seed    found no limit, to set one         *)
(* size    to auto-tune         models  waiting for /v1/models             *)
(* tune    to set the default   store   to store the state                 *)
(***************************************************************************)
ScTypeOK ==
  /\ host \in Hosts /\ truth \in host.reports
  /\ autoConcurrent \in 0 .. 32
  /\ pc \in [Job -> {"idle", "get", "check", "seed", "size", "models", "tune", "store"}]
  /\ ps \in [Job -> {{}} \cup {t.resident : t \in host.reports}]
  /\ state \in [Job -> BackendState]
  /\ store \in BackendState \cup {none}

ScInit ==
  /\ host \in Hosts /\ truth \in host.reports
  /\ autoConcurrent = 0
  /\ store = none
  /\ pc = [j \in Job |-> "idle"]
  /\ ps = [j \in Job |-> {}]
  /\ state = [j \in Job |-> Zero]

Goto(j, l) == pc' = [pc EXCEPT ![j] = l]

-----------------------------------------------------------------------------
(***************************************************************************)
(* Ollama, lines 68-142, and autoConcurrent, lines 164-197.                *)
(***************************************************************************)
sumVRAM(M) == MapThenSumSet(LAMBDA m : m.vram, M)
sumSize(M) == MapThenSumSet(LAMBDA m : m.size, M)
isCPU(M) == sumVRAM(M) = 0
usedBytes(M) == IF isCPU(M) THEN sumSize(M) ELSE sumVRAM(M)
footprint(m) == IF m.vram = 0 THEN m.size ELSE m.vram
largest(M) == Max({footprint(m) : m \in M})

LoadedModels_One(M) == {m.name : m \in {x \in M : footprint(x) = largest(M)}}
LoadedModels(M) == {m.name : m \in M}

OllamaState(M) ==
  [models |-> LoadedModels(M),
   pct |-> IF host.vramTotalMB > 0
           THEN (100 * (usedBytes(M) \div MB)) \div host.vramTotalMB ELSE 0,
   queue |-> 0]

\* Half the slots on a CPU, at least one; and without the lower bound.
halved_Unclamped(n) == n \div 2
halved(n) == Max({n \div 2, 1})

kvPerRequest(bytes) == IF bytes \div 10 = 0 THEN 256 * MB ELSE bytes \div 10

\* Lines 172-173: what is left of the VRAM; and a formula that forgets what
\* the other models take.
freeBytes_OneModel(M) == host.vramTotalMB * MB - largest(M)
freeBytes(M) == host.vramTotalMB * MB - usedBytes(M)

clamp_NoCeiling(n) == Max({1, n})
clamp(n) == Max({1, Min({32, n})})

sized(M) ==
  LET slots == clamp(freeBytes(M) \div kvPerRequest(largest(M)))
  IN  IF host.vramTotalMB <= 0 \/ largest(M) <= 0 THEN IF isCPU(M) THEN 2 ELSE 4
      ELSE IF freeBytes(M) <= 0 THEN 1
      ELSE IF isCPU(M) THEN halved(slots) ELSE slots

\* Lines 80-88 and 99-131: the body of /api/ps is decoded to the models M.
PsDecoded(j, M) ==
  /\ host.type # "vllm" /\ pc[j] = "get"
  /\ ps' = [ps EXCEPT ![j] = M]
  /\ state' = [state EXCEPT ![j] = OllamaState(M)]
  /\ Goto(j, "check")
  /\ UNCHANGED <<env, autoConcurrent, store>>

PsAnswer(j) == PsDecoded(j, truth.resident)

\* The status is not looked at: an HTTP error whose body is a JSON object decodes
\* to no models and is stored as a cold backend that uses nothing.
PsError(j) == PsDecoded(j, {})

\* Lines 50-53: no answer within 3 s, or one that is no JSON object.  The mutant
\* goes on with the zero BackendState.
PsFails_Stores(j) ==
  /\ host.type # "vllm" /\ pc[j] = "get" /\ Goto(j, "store")
  /\ UNCHANGED <<env, autoConcurrent, store, ps, state>>
PsFails(j) ==
  /\ host.type # "vllm" /\ pc[j] = "get"
  /\ Goto(j, "idle")
  /\ UNCHANGED <<env, autoConcurrent, store, ps, state>>

\* Line 95 looks at autoConcurrent; line 96 sets it, without a lock.
NeedsSeed_Never(j) == FALSE
NeedsSeed(j) == host.maxConcurrent = 0 /\ ps[j] = {} /\ autoConcurrent = 0

Check(j) ==
  /\ pc[j] = "check"
  /\ Goto(j, IF NeedsSeed(j) THEN "seed" ELSE "size")
  /\ UNCHANGED <<env, autoConcurrent, store, ps, state>>

Seed(j) ==
  /\ pc[j] = "seed"
  /\ autoConcurrent' = defaultColdConcurrent
  /\ Goto(j, "store")
  /\ UNCHANGED <<env, store, ps, state>>

\* Lines 136-138.
Size(j) ==
  /\ pc[j] = "size"
  /\ autoConcurrent' = IF host.maxConcurrent = 0 /\ ps[j] # {} THEN sized(ps[j])
                       ELSE autoConcurrent
  /\ Goto(j, "store")
  /\ UNCHANGED <<env, store, ps, state>>

-----------------------------------------------------------------------------
(***************************************************************************)
(* vLLM, lines 201-281: no failure is an error, each leaves a gap in the   *)
(* state instead.  An HTTP error is such a failure: its body has no metric *)
(* line and no model in it.                                                *)
(***************************************************************************)
\* Lines 290-313: the last field; if that is no number, the one before it.  The
\* mutant takes what follows the first blank.
parsePromLine_Second(f) == f[2]
parsePromLine(f) ==
  LET n == Len(f)
  IN  CASE n >= 2 /\ f[n] # NaN -> f[n]
        [] n >= 3 /\ f[n] = NaN /\ f[n - 1] # NaN -> f[n - 1]
        [] OTHER -> NaN

\* A line of /metrics: the name, what follows a blank in its labels, the value.
Line(v) == <<NaN>> \o host.labels \o <<v>>

\* A line that does not parse is skipped.
Metric(v) == Max({0, parsePromLine(Line(v))})

MetricsAnswer(j) ==
  /\ host.type = "vllm" /\ pc[j] = "get"
  /\ state' = [state EXCEPT ![j].pct = Metric(truth.usage),
                            ![j].queue = Metric(truth.waiting)]
  /\ Goto(j, "models")
  /\ UNCHANGED <<env, autoConcurrent, store, ps>>

MetricsFail(j) ==
  /\ host.type = "vllm" /\ pc[j] = "get"
  /\ Goto(j, "models")
  /\ UNCHANGED <<env, autoConcurrent, store, ps, state>>

\* Lines 212-216: the model it serves, or else the first one configured.
ModelsAnswer(j) ==
  LET names == {m.name : m \in truth.resident}
  IN  /\ pc[j] = "models"
      /\ state' = [state EXCEPT ![j].models = IF names # {} THEN names ELSE host.models]
      /\ Goto(j, "tune")
      /\ UNCHANGED <<env, autoConcurrent, store, ps>>

ModelsFail(j) ==
  /\ pc[j] = "models"
  /\ state' = [state EXCEPT ![j].models = host.models]
  /\ Goto(j, "tune")
  /\ UNCHANGED <<env, autoConcurrent, store, ps>>

\* Lines 220-222.
Tune(j) ==
  /\ pc[j] = "tune"
  /\ autoConcurrent' = IF host.maxConcurrent = 0 THEN 20 ELSE autoConcurrent
  /\ Goto(j, "store")
  /\ UNCHANGED <<env, store, ps, state>>

-----------------------------------------------------------------------------
\* Run starts a scrape.
Launch(j) ==
  /\ pc[j] = "idle"
  /\ Goto(j, "get")
  /\ UNCHANGED <<env, autoConcurrent, store, ps, state>>

\* Lines 54-55 and StateStore.Set.
Store(j) ==
  /\ pc[j] = "store"
  /\ store' = state[j]
  /\ state' = [state EXCEPT ![j] = Zero]
  /\ ps' = [ps EXCEPT ![j] = {}]
  /\ Goto(j, "idle")
  /\ UNCHANGED <<env, autoConcurrent>>

\* The backend loads or unloads models, or its load changes.
Change(t) ==
  /\ truth' = t
  /\ UNCHANGED <<host, autoConcurrent, store, pc, ps, state>>

\* A call of the scrape ends, with the truth or not.
Answer(j) == PsAnswer(j) \/ MetricsAnswer(j) \/ ModelsAnswer(j)
Failure(j) == PsFails(j) \/ PsError(j) \/ MetricsFail(j) \/ ModelsFail(j)

Scrape(j) ==
  \/ Answer(j) \/ Failure(j)
  \/ Check(j) \/ Seed(j) \/ Size(j) \/ Tune(j) \/ Store(j)

ScNext == (\E j \in Job : Launch(j) \/ Scrape(j)) \/ \E t \in host.reports : Change(t)

(***************************************************************************)
(* Run never stops launching, and a scrape runs on: its calls end by their *)
(* 3 s timeout at the latest.                                              *)
(***************************************************************************)
ScSpec ==
  /\ ScInit /\ [][ScNext]_svars
  /\ WF_svars(\E j \in Job : Launch(j))
  /\ \A j \in Job : WF_svars(Scrape(j))

-----------------------------------------------------------------------------
(***************************************************************************)
(* Properties.                                                             *)
(***************************************************************************)
effectiveConcurrent ==
  IF host.maxConcurrent > 0 THEN host.maxConcurrent ELSE autoConcurrent

\* "must never be left unlimited: an unlimited backend [...] disables the
\* admission gate for the whole system" (scraper.go:90-92): a limit, once it is
\* there, never goes away, whatever models come and go and however the scrapes
\* overlap.
StaysCapped == [][effectiveConcurrent > 0 => effectiveConcurrent' > 0]_svars

\* A backend that keeps answering gets its limit, even if it never loads a
\* model (scraper.go:95-97).
EventuallyCapped ==
  []<>(\E j \in Job : pc[j] \in {"check", "tune"}) => <>(effectiveConcurrent > 0)

\* From some moment on the backend stays as it is and every call that ends has
\* brought the truth; a failure that leaves the scrape with the same values, such
\* as a /v1/models call when the served model is the configured one, is no other.
Calm ==
  <>[][/\ truth' = truth
       /\ \A j \in Job :
            pc[j] \in {"get", "models"} /\ pc'[j] # pc[j] => Answer(j)]_svars

\* What the backend takes of its VRAM, in percent, rounded down.
UsedPct ==
  IF host.type = "vllm" THEN truth.usage
  ELSE IF host.vramTotalMB = 0 THEN 0
  ELSE LET onGPU == \E m \in truth.resident : m.vram > 0
           used == MapThenSumSet(LAMBDA m : IF onGPU THEN m.vram ELSE m.size, truth.resident)
       IN  (100 * (used \div MB)) \div host.vramTotalMB

\* Results applied out of order do not last, nor do the gaps that failed calls
\* and error answers leave: when the backend stands still and answers, the store
\* agrees with it in the end and for good, on every resident model, on VRAM use
\* and on the queue (scraper.go:33, 55, 102-131, 247-257).
StoreConverges ==
  Calm => <>[](/\ store # none
               /\ store.models = {m.name : m \in truth.resident}
               /\ store.pct = UsedPct
               /\ host.type = "vllm" => store.queue = truth.waiting)

\* "n = clamp(free_vram / kv_per_req, 1, 32)" (scraper.go:158-160): once a calm
\* Ollama backend with models is sized, the slots beyond the first fit into the
\* VRAM that all its models leave free, at a tenth of the largest one each.
SlotsFit ==
  Calm => <>[](host.type = "ollama" /\ host.maxConcurrent = 0
               /\ host.vramTotalMB > 0 /\ truth.resident # {} =>
                 LET left == host.vramTotalMB * MB - usedBytes(truth.resident)
                 IN  /\ autoConcurrent \in 1 .. 32
                     /\ autoConcurrent > 1 =>
                          \A m \in truth.resident :
                            autoConcurrent * (footprint(m) \div 10) <= left)

Over(pct) == pct >= vramGuardThreshold

\* Calls that time out or cannot be decoded, however many, do not make an Ollama
\* backend look safe: if it stays near its VRAM limit, answers again and again,
\* and sends no more HTTP errors with a JSON body, the VRAM guard holds it back
\* in the end and for good (scraper.go:50-53).
GuardSettles ==
  (/\ host.type = "ollama" /\ <>[]Over(UsedPct)
   /\ <>[][\A j \in Job : ~PsError(j)]_svars
   /\ []<>(\E j \in Job : pc[j] = "check"))
    => <>[](store # none /\ Over(store.pct))

(***************************************************************************)
(* What a comment says and the code does not do.                           *)
(***************************************************************************)

\* "only if we've never computed one, so a real value learned while warm
\* survives the model later unloading" (scraper.go:93-94): the baseline replaces
\* no other limit.  A second baseline over the first changes nothing.
LearnedSurvives ==
  [][\A j \in Job :
       (pc[j] = "seed" /\ pc'[j] = "store") => autoConcurrent \in {0, autoConcurrent'}]_svars

=============================================================================

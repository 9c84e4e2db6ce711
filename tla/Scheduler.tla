----------------------------- MODULE Scheduler ------------------------------
(***************************************************************************)
(* The choice of a backend, scheduler.go: PickExcluding called again and   *)
(* again for one request, as proxy.go:78-107 does while every attempt      *)
(* fails, over one snapshot of what it reads of the pool, the state store  *)
(* and the conversation store.                                             *)
(*                                                                         *)
(* Times are in milliseconds and VRAM use is in percent, so the scores'    *)
(* reciprocals are integers: 1/x > 1/y is x < y.                           *)
(***************************************************************************)
EXTENDS Integers, FiniteSets

CONSTANTS
  NumBackends,   \* the pool is 1 .. NumBackends, in configuration order
  Snapshots,     \* what may be read of one backend
  Overrides,     \* what the plugin may answer: none, a backend or reject
  none, reject, error   \* no backend, and the two failures

Backend == 1 .. NumBackends

SnapshotType ==
  [type : {"ollama", "vllm"},
   up : BOOLEAN, supports : BOOLEAN,      \* Status() = StatusUp, supportsModel
   limit : Nat, inflight : Nat,           \* effectiveConcurrent(), Inflight()
   perTokenMs : Nat, queueDepth : Nat,    \* PerTokenMs(), QueueDepth
   loaded : BOOLEAN,                      \* warm, and the model is in LoadedModels
   pct : 0 .. 100]                        \* VRAMUsedPct; 0 if unknown or not scraped

ASSUME SnapshotsAssumption == NumBackends \in Nat /\ Snapshots \subseteq SnapshotType
ASSUME OverridesAssumption == Overrides \subseteq Backend \cup {none, reject}
ASSUME NamesAssumption ==
  /\ {none, reject, error} \cap Backend = {}
  /\ none # reject /\ none # error /\ reject # error

coldLoadMs == 25000
defaultPerTokenMs == 20
expectedTokens == 256
vramGuardThreshold == 90

VARIABLES
  pool,      \* the snapshot of each backend
  sticky,    \* the live entry of the conversation store for this request
  override,  \* what the plugin answers
  exclude,   \* `tried`
  picked     \* the result of the last call: none yet, a backend or error

svars == <<pool, sticky, override, exclude, picked>>

SInit ==
  /\ pool \in [Backend -> Snapshots]
  /\ sticky \in Backend \cup {none}
  /\ override \in Overrides
  /\ exclude = {}
  /\ picked = none

-----------------------------------------------------------------------------
hasCapacity(b) == pool[b].limit <= 0 \/ pool[b].inflight < pool[b].limit

Available == {b \in Backend : pool[b].up /\ pool[b].supports /\ hasCapacity(b)}

isSafe(b) == ~(pool[b].pct > 0 /\ pool[b].pct >= vramGuardThreshold)

isWarm(b) == pool[b].type = "vllm" \/ pool[b].loaded

reqMs(b) ==
  expectedTokens * (IF pool[b].perTokenMs = 0 THEN defaultPerTokenMs
                                              ELSE pool[b].perTokenMs)

load(b) ==
  IF pool[b].inflight > pool[b].queueDepth THEN pool[b].inflight
                                           ELSE pool[b].queueDepth

\* A cold backend that does not pay for loading the model.
expectedMs_NoColdLoad(b) == (load(b) + 1) * reqMs(b)

\* score(b) is 1 / expectedMs(b).  The code's formula, line 206: the comment at
\* lines 70-73 and README.md:174-175 leave out the factor for VRAM use.
expectedMs(b) ==
  IF isWarm(b) THEN (load(b) + 1) * reqMs(b)
  ELSE (coldLoadMs * (100 + pool[b].pct)) \div 100 + load(b) * reqMs(b)

\* A later backend of equal score replaces an earlier one.
bestScore_LastWins(S) ==
  LET best[i \in 0 .. NumBackends] ==
        IF i = 0 THEN none
        ELSE IF i \in S /\ (best[i - 1] = none \/ expectedMs(i) <= expectedMs(best[i - 1]))
             THEN i ELSE best[i - 1]
  IN  best[NumBackends]

\* The loop of bestScore over the safe candidates S, in pool order.
bestScore(S) ==
  LET best[i \in 0 .. NumBackends] ==
        IF i = 0 THEN none
        ELSE IF i \in S /\ (best[i - 1] = none \/ expectedMs(i) < expectedMs(best[i - 1]))
             THEN i ELSE best[i - 1]
  IN  best[NumBackends]

\* No VRAM guard on the sticky backend.
affinityPick_Unguarded(C) == IF sticky \in C /\ isWarm(sticky) THEN sticky ELSE none
affinityPick_Off(C) == none
affinityPick(C) ==
  IF sticky \in C /\ isWarm(sticky) /\ isSafe(sticky) THEN sticky ELSE none

applyVRAMGuard(C) == {b \in C : isSafe(b)}

\* A guard that trips on any backend.
pick_AllOrNothing(C) == IF \E b \in C : ~isSafe(b) THEN error ELSE bestScore(C)

pick(C) == IF applyVRAMGuard(C) = {} THEN error ELSE bestScore(applyVRAMGuard(C))

\* The plugin decides first; a name that is no candidate is ignored.
PickExcluding ==
  LET C == Available \ exclude
  IN  IF C = {} \/ override = reject THEN error
      ELSE IF override \in C THEN override
      ELSE IF affinityPick(C) # none THEN affinityPick(C)
      ELSE pick(C)

\* An attempt; the proxy excludes what it has tried and comes back.
Attempt ==
  /\ picked # error
  /\ picked' = PickExcluding
  /\ exclude' = IF picked' = error THEN exclude ELSE exclude \cup {picked'}
  /\ UNCHANGED <<pool, sticky, override>>

\* The handler has given up; the next request finds the same pool.
NextRequest ==
  /\ picked = error
  /\ picked' = none
  /\ exclude' = {}
  /\ UNCHANGED <<pool, sticky, override>>

SNext == Attempt \/ NextRequest

SSpec == SInit /\ [][SNext]_svars

-----------------------------------------------------------------------------
(***************************************************************************)
(* Properties.                                                             *)
(***************************************************************************)

\* "refuses to route to a backend near its memory ceiling" (README.md:38): no
\* path of the built-in scheduler, affinity included, picks a backend at or
\* above the guard, nor one that is down, full or without the model.
OnlyEligible ==
  picked \in Backend => /\ picked \in Available
                        /\ picked # override => isSafe(picked)

\* Retries are exhaustive: the proxy gives up only after every eligible backend
\* has been tried, unless a plugin rejects the request (proxy.go:78-107).
GivesUpLast ==
  picked = error /\ override # reject =>
    {b \in Available : isSafe(b)} \subseteq exclude

Better(b, c) ==
  expectedMs(b) < expectedMs(c) \/ (expectedMs(b) = expectedMs(c) /\ b <= c)

\* The loop of bestScore against its meaning: among the eligible backends not
\* tried yet, the scheduler takes the one with the least expected latency, as
\* scheduler.go:196-207 computes it, the first of the pool among equals.
TakesTheBest ==
  [][picked' \in Backend \ {override, sticky} =>
       \A c \in Available \ exclude : isSafe(c) => Better(picked', c)]_svars

\* Affinity comes before the score and is lost to retries only: a warm, safe
\* and free backend that holds the conversation is the first one tried.
StickyFirst ==
  (/\ sticky \in Available /\ isWarm(sticky) /\ isSafe(sticky)
   /\ override = none /\ exclude # {}) => sticky \in exclude

\* An idle warm backend wins over a cold one as long as it generates a token in
\* less than 98 ms, the default of 20 ms included: expectedTokens * 98 exceeds
\* coldLoadMs.
FastWarmWins ==
  [][picked' \in Backend \ {override} /\ ~isWarm(picked') =>
       \A b \in Available \ exclude :
         ~(isWarm(b) /\ isSafe(b) /\ load(b) = 0 /\ pool[b].perTokenMs < 98)]_svars

=============================================================================

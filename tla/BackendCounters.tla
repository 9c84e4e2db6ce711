-------------------------- MODULE BackendCounters --------------------------
(***************************************************************************)
(* The lock-free counters of backend.go, one atomic operation per step:    *)
(* the compare-and-swap loops of tryReserve and RecordPerTokenMs, run by   *)
(* any number of request goroutines on one backend.                        *)
(***************************************************************************)
EXTENDS Integers, FiniteSets

CONSTANTS Caller, maxConcurrent, AutoLimits, Samples   \* as in AtomicCounters

ASSUME CountersAssumption ==
  /\ IsFiniteSet(Caller)
  /\ maxConcurrent \in Nat /\ AutoLimits \subseteq Nat /\ Samples \subseteq Nat \ {0}

VARIABLES
  inflight, perTokenMs, autoConcurrent,   \* the atomic.Int64 fields
  pc,      \* where each caller is
  limit,   \* its local `limit`
  cur,     \* its local `cur` or `old`
  ms       \* the argument of its RecordPerTokenMs

shared == <<inflight, perTokenMs, autoConcurrent>>
vars == <<shared, pc, limit, cur, ms>>

(***************************************************************************)
(* idle     no call              add      tryReserve, no limit             *)
(* load     to read inflight     swap     to compare and swap it           *)
(* held     slot reserved                                                  *)
(* rload    to read perTokenMs   rswap    to compare and swap it           *)
(***************************************************************************)
PC == {"idle", "add", "load", "swap", "held", "rload", "rswap"}

\* What the callers do in terms of AtomicCounters.
Op == [c \in Caller |->
        CASE pc[c] \in {"add", "load", "swap"} -> "reserve"
          [] pc[c] \in {"rload", "rswap"} -> "record"
          [] OTHER -> pc[c]]

Atomic == INSTANCE AtomicCounters WITH op <- Op, bound <- limit, sample <- ms

BTypeOK ==
  /\ inflight \in Nat /\ perTokenMs \in Nat /\ autoConcurrent \in AutoLimits \cup {0}
  /\ pc \in [Caller -> PC]
  /\ limit \in [Caller -> Nat] /\ cur \in [Caller -> Nat]
  /\ ms \in [Caller -> Samples \cup {0}]

BInit ==
  /\ inflight = 0 /\ perTokenMs = 0 /\ autoConcurrent = 0
  /\ pc = [c \in Caller |-> "idle"]
  /\ limit = [c \in Caller |-> 0]
  /\ cur = [c \in Caller |-> 0]
  /\ ms = [c \in Caller |-> 0]

Goto(c, l) == pc' = [pc EXCEPT ![c] = l]

-----------------------------------------------------------------------------
(***************************************************************************)
(* tryReserve, lines 81-96.                                                *)
(***************************************************************************)
ReadLimit(c) ==
  /\ pc[c] = "idle"
  /\ limit' = [limit EXCEPT ![c] = Atomic!effectiveConcurrent]
  /\ Goto(c, IF Atomic!effectiveConcurrent <= 0 THEN "add" ELSE "load")
  /\ UNCHANGED <<shared, cur, ms>>

\* Line 84: no limit, the counter is just added to.
Add(c) ==
  /\ pc[c] = "add"
  /\ inflight' = inflight + 1
  /\ Goto(c, "held")
  /\ UNCHANGED <<perTokenMs, autoConcurrent, limit, cur, ms>>

\* Lines 88-91: read the counter; at the limit, return false.
Load(c) ==
  /\ pc[c] = "load"
  /\ IF inflight >= limit[c]
     THEN /\ Goto(c, "idle")
          /\ limit' = [limit EXCEPT ![c] = 0]
          /\ UNCHANGED cur
     ELSE /\ Goto(c, "swap")
          /\ cur' = [cur EXCEPT ![c] = inflight]
          /\ UNCHANGED limit
  /\ UNCHANGED <<shared, ms>>

\* The outcomes of CompareAndSwap(old, .): the value read still stands or not.
\* A plain Store instead would always go through.
Unmoved_Store(counter, old) == TRUE
Unmoved(counter, old) == counter = old

\* Line 92.
Swap(c) ==
  /\ pc[c] = "swap"
  /\ Unmoved(inflight, cur[c])
  /\ inflight' = cur[c] + 1
  /\ Goto(c, "held")
  /\ limit' = [limit EXCEPT ![c] = 0]
  /\ cur' = [cur EXCEPT ![c] = 0]
  /\ UNCHANGED <<perTokenMs, autoConcurrent, ms>>

\* Lines 92-95: somebody was faster; the loop starts over.
SwapFails_NoReload(c) == pc[c] = "swap" /\ ~Unmoved(inflight, cur[c]) /\ UNCHANGED vars
SwapFails(c) ==
  /\ pc[c] = "swap"
  /\ ~Unmoved(inflight, cur[c])
  /\ Goto(c, "load")
  /\ cur' = [cur EXCEPT ![c] = 0]
  /\ UNCHANGED <<shared, limit, ms>>

-----------------------------------------------------------------------------
(***************************************************************************)
(* The end of a request (proxy.go:112, 139-141), and RecordPerTokenMs.     *)
(***************************************************************************)
decInflight(c, n) ==
  /\ pc[c] = "held"
  /\ inflight' = inflight - 1
  /\ ms' = [ms EXCEPT ![c] = n]
  /\ Goto(c, IF n > 0 THEN "rload" ELSE "idle")
  /\ UNCHANGED <<perTokenMs, autoConcurrent, limit, cur>>

RecordLoad(c) ==
  /\ pc[c] = "rload"
  /\ cur' = [cur EXCEPT ![c] = perTokenMs]
  /\ Goto(c, "rswap")
  /\ UNCHANGED <<shared, limit, ms>>

RecordSwap(c) ==
  /\ pc[c] = "rswap"
  /\ Unmoved(perTokenMs, cur[c])
  /\ perTokenMs' = Atomic!Average(cur[c], ms[c])
  /\ Goto(c, "idle")
  /\ cur' = [cur EXCEPT ![c] = 0]
  /\ ms' = [ms EXCEPT ![c] = 0]
  /\ UNCHANGED <<inflight, autoConcurrent, limit>>

RecordSwapFails(c) ==
  /\ pc[c] = "rswap"
  /\ ~Unmoved(perTokenMs, cur[c])
  /\ Goto(c, "rload")
  /\ cur' = [cur EXCEPT ![c] = 0]
  /\ UNCHANGED <<shared, limit, ms>>

SetAutoConcurrent(n) ==
  /\ autoConcurrent' = n
  /\ UNCHANGED <<inflight, perTokenMs, pc, limit, cur, ms>>

Loop(c) == \/ Add(c) \/ Load(c) \/ Swap(c) \/ SwapFails(c)
           \/ RecordLoad(c) \/ RecordSwap(c) \/ RecordSwapFails(c)

BNext ==
  \/ \E c \in Caller : \/ ReadLimit(c) \/ Loop(c)
                       \/ \E n \in Samples \cup {0} : decInflight(c, n)
  \/ \E n \in AutoLimits : SetAutoConcurrent(n)

\* A goroutine in one of the two methods runs on.
BSpec == BInit /\ [][BNext]_vars /\ \A c \in Caller : WF_vars(Loop(c))

-----------------------------------------------------------------------------
(***************************************************************************)
(* Properties.                                                             *)
(***************************************************************************)

\* Both loops are linearizable: whatever the interleaving, no reservation and
\* no sample is lost or counted twice, and a reservation is refused or granted
\* by the counter of one moment (backend.go:76-80 and 106).
ImplementsAtomic == Atomic!Spec

\* Lock-freedom: callers cannot keep each other in the loops for ever.  If only
\* finitely many calls start, all of them return (backend.go:87-95, 108-119).
LoopsEnd ==
  <>[][\A c \in Caller : pc[c] \in {"idle", "held"} => pc'[c] \in {"idle", "held"}]_vars
    => <>[](\A c \in Caller : pc[c] \in {"idle", "held"})

\* Every change of perTokenMs is 0.8 * old + 0.2 * sample for a sample some
\* caller is recording, less than 1 ms off; it does not overshoot and never
\* falls back to 0, "no requests yet" (backend.go:104, 114, 123).
SpeedTracks ==
  [][perTokenMs' # perTokenMs =>
       \E c \in Caller :
         LET old == perTokenMs
             new == perTokenMs'
         IN  /\ pc[c] = "rswap" /\ pc'[c] = "idle"
             /\ IF old = 0 THEN new = ms[c]
                ELSE /\ 5 * new \in (4 * old + ms[c] - 4) .. (4 * old + ms[c])
                     /\ old <= new \/ ms[c] <= new
                     /\ new <= old \/ new <= ms[c]
             /\ new > 0]_vars

\* Recordings go on, from some time on only of the latency s.
Settles(s) ==
  /\ <>[][\A c \in Caller : ms'[c] \in {0, s}]_vars
  /\ []<><<\E c \in Caller : pc[c] = "rswap" /\ pc'[c] = "idle">>_vars

\* The integer average follows a backend whose speed changed and stands still
\* again: it ends at most 4 ms below the new latency and never above it
\* (backend.go:114).
SpeedConverges ==
  \A s \in Samples : Settles(s) => <>[](perTokenMs \in s - 4 .. s)

=============================================================================

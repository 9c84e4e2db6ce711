--------------------------- MODULE AtomicCounters ---------------------------
(***************************************************************************)
(* What the counters of a Backend promise (the comments at backend.go:76   *)
(* and 103): tryReserve and RecordPerTokenMs act as if each were one step. *)
(* Only the limit of tryReserve is read before, and may be stale.          *)
(***************************************************************************)
EXTENDS Integers

CONSTANTS
  Caller,          \* request goroutines that use this backend
  maxConcurrent,   \* from the configuration; 0 = auto
  AutoLimits,      \* what the scraper may store in autoConcurrent
  Samples          \* per-token latencies: proxy.go:139 records positive ones

VARIABLES
  inflight, perTokenMs, autoConcurrent,
  op,      \* what each caller does: idle, reserve, held, record
  bound,   \* the limit its tryReserve compares with
  sample   \* the latency its RecordPerTokenMs folds in

avars == <<inflight, perTokenMs, autoConcurrent, op, bound, sample>>

Init ==
  /\ inflight = 0 /\ perTokenMs = 0 /\ autoConcurrent = 0
  /\ op = [c \in Caller |-> "idle"]
  /\ bound = [c \in Caller |-> 0]
  /\ sample = [c \in Caller |-> 0]

\* Limit in force: backend.go:54-62.
effectiveConcurrent ==
  IF maxConcurrent > 0 THEN maxConcurrent ELSE autoConcurrent

\* The moving average of backend.go:109-115: rounded term by term, deaf to
\* faster answers, and as the code has it.
Average_ByTerm(old, ms) == IF old = 0 THEN ms ELSE (old * 4) \div 5 + ms \div 5
Average_UpOnly(old, ms) == IF old = 0 THEN ms ELSE IF ms < old THEN old ELSE (old * 4 + ms) \div 5
Average(old, ms) == IF old = 0 THEN ms ELSE (old * 4 + ms) \div 5

Call(c) ==
  /\ op[c] = "idle"
  /\ op' = [op EXCEPT ![c] = "reserve"]
  /\ bound' = [bound EXCEPT ![c] = effectiveConcurrent]
  /\ UNCHANGED <<inflight, perTokenMs, autoConcurrent, sample>>

tryReserve(c) ==
  LET ok == bound[c] <= 0 \/ inflight < bound[c]
  IN  /\ op[c] = "reserve"
      /\ inflight' = IF ok THEN inflight + 1 ELSE inflight
      /\ op' = [op EXCEPT ![c] = IF ok THEN "held" ELSE "idle"]
      /\ bound' = [bound EXCEPT ![c] = 0]
      /\ UNCHANGED <<perTokenMs, autoConcurrent, sample>>

\* The answer is through; 0 stands for one that tells nothing of the speed.
decInflight(c, ms) ==
  /\ op[c] = "held"
  /\ inflight' = inflight - 1
  /\ op' = [op EXCEPT ![c] = IF ms > 0 THEN "record" ELSE "idle"]
  /\ sample' = [sample EXCEPT ![c] = ms]
  /\ UNCHANGED <<perTokenMs, autoConcurrent, bound>>

RecordPerTokenMs(c) ==
  /\ op[c] = "record"
  /\ perTokenMs' = Average(perTokenMs, sample[c])
  /\ op' = [op EXCEPT ![c] = "idle"]
  /\ sample' = [sample EXCEPT ![c] = 0]
  /\ UNCHANGED <<inflight, autoConcurrent, bound>>

SetAutoConcurrent(n) ==
  /\ autoConcurrent' = n
  /\ UNCHANGED <<inflight, perTokenMs, op, bound, sample>>

Next ==
  \/ \E c \in Caller : \/ Call(c) \/ tryReserve(c) \/ RecordPerTokenMs(c)
                       \/ \E ms \in Samples \cup {0} : decInflight(c, ms)
  \/ \E n \in AutoLimits : SetAutoConcurrent(n)

Spec == Init /\ [][Next]_avars

=============================================================================

---------------------------- MODULE MCScheduler -----------------------------
(***************************************************************************)
(* Instances of Scheduler for TLC: every pool of three backends made of    *)
(* the profiles below.                                                     *)
(***************************************************************************)
EXTENDS Scheduler

Profile(type, up, limit, inflight, perTokenMs, queueDepth, loaded, pct) ==
  [type |-> type, up |-> up, supports |-> TRUE, limit |-> limit,
   inflight |-> inflight, perTokenMs |-> perTokenMs, queueDepth |-> queueDepth,
   loaded |-> loaded, pct |-> pct]

\* Healthy Ollama backends, warm or cold, idle or loaded, unknown or slow, with
\* and without VRAM data; and the ineligible: down, full, no model.
MCSnapshots ==
  {Profile("ollama", TRUE, 0, n, t, 0, w, v) :
     n \in {0, 4}, t \in {0, 97}, w \in BOOLEAN, v \in {0, 89, 90}}
  \cup {Profile("vllm", TRUE, 2, 1, 20, 5, FALSE, 0),
        Profile("ollama", FALSE, 0, 0, 0, 0, TRUE, 0),
        Profile("ollama", TRUE, 1, 1, 0, 0, TRUE, 0),
        [Profile("ollama", TRUE, 0, 0, 0, 0, TRUE, 0) EXCEPT !.supports = FALSE]}

=============================================================================

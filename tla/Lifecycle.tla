----------------------------- MODULE Lifecycle -----------------------------
(***************************************************************************)
(* The process around the router, main.go:80-105: a first SIGINT or        *)
(* SIGTERM starts a drain, which ends when every handler has returned, at  *)
(* the deadline, or at a second signal.                                    *)
(*                                                                         *)
(* http.Server is external: Shutdown closes the listener, but a connection *)
(* accepted before may still send its request, so requests arrive during   *)
(* the drain as well.  Shutdown cancels no request context: a request that *)
(* waits in the gate waits on.                                             *)
(***************************************************************************)
EXTENDS Router

VARIABLE phase   \* serving, draining, stopped (drained), killed (exit code 1)

lvars == <<rvars, phase>>

Running == phase \in {"serving", "draining"}

LInit == RInit /\ phase = "serving"

\* A goroutine of the router, a client or a backend takes a step.
Run(A) == Running /\ A /\ UNCHANGED phase

\* Lines 94-95: the signal context is done and the default handling restored.
Signal ==
  /\ phase = "serving"
  /\ phase' = "draining"
  /\ UNCHANGED rvars

\* Shutdown returns nil and main with it.
Drained ==
  /\ phase = "draining"
  /\ \A r \in Request : stage[r] = "idle"
  /\ phase' = "stopped"
  /\ UNCHANGED rvars

\* Lines 88-91: the listener fails.  Lines 95-103: the deadline passes, or a
\* second signal meets the default handler.
Exit ==
  /\ Running
  /\ phase' = "killed"
  /\ UNCHANGED rvars

LNext == Run(RNext) \/ Signal \/ Drained \/ Exit

(***************************************************************************)
(* Fairness.  Handler code runs on; a forward ends because connect, TLS    *)
(* and header wait are bounded (proxy.go:42-48), once the backend has read *)
(* the request, which it is assumed to do; a stream has no deadline,       *)
(* but a read or write fails once its client is gone; Shutdown polls for   *)
(* idle connections.  No failure, signal or deadline is assumed to come.   *)
(***************************************************************************)
LFairness ==
  /\ \A r \in Request :
       /\ WF_lvars(Run(Handle(r)))
       /\ WF_lvars(Run(Answer(r)))
       /\ WF_lvars(Run(cancelled[r] /\ StreamEnds(r, FALSE)))
  /\ WF_lvars(Drained)

LSpec == LInit /\ [][LNext]_lvars /\ LFairness

-----------------------------------------------------------------------------
\* No stream lasts for ever.
StreamsEnd == \A r \in Request : []<>(stage[r] # "stream")

\* The connections accepted before the listener was closed have sent theirs.
ArrivalsEnd == <>[][\A r \in Request : stage[r] = "idle" => stage'[r] = "idle"]_lvars

\* "admission gate always settled to 0" (README.md:219): when the drain ends
\* in time, no slot of the gate or of a backend has leaked on any path out of
\* the handlers, and nobody waits (main.go:100, gate.go:56, backend.go:29).
CleanStop ==
  phase = "stopped" =>
    /\ inflight = 0 /\ totalQueued = 0
    /\ \A b \in Backend : binflight[b] = 0

\* A drain needs no deadline (main.go:80-81, 100): if backends end their streams
\* and the accepted connections run dry, every request, those that still wait
\* in the gate included, returns and the process stops.
DrainEnds ==
  (StreamsEnd /\ ArrivalsEnd) => ((phase = "draining") ~> ~Running)

\* If backends end their streams, a request that is past the gate returns: lost
\* races, failed forwards and outages cannot make it try the pool for ever
\* (proxy.go:78-107).
AdmittedReturns ==
  StreamsEnd => \A r \in Request :
    (stage[r] = "pick") ~> (stage[r] = "idle" \/ ~Running)

\* "so a dead backend can't pin a goroutine" (README.md:203): a client that
\* disconnects gets its request out of the handler, with its gate slot and its
\* backend slot, wherever the request is and even if streams never end.
DisconnectReturns == \A r \in Request : cancelled[r] ~> (~cancelled[r] \/ ~Running)

=============================================================================

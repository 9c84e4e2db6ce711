------------------------------- MODULE MCGate -------------------------------
(***************************************************************************)
(* Instances of Gate for TLC: which gate (static, dynamic, disabled) is    *)
(* chosen by the .cfg files through the constants of Gate.                 *)
(***************************************************************************)
EXTENDS Gate, TLC

\* One place per tier is enough to see a queue full; the background tier is
\* unlimited, the case limits[p] <= 0 of gate.go:106.
MCLimits == 0 :> 2 @@ 1 :> 1 @@ 2 :> 0

\* Narrow queues: one waiter per tier.
MCNarrow == 0 :> 1 @@ 1 :> 1 @@ 2 :> 1

Symm == Permutations(Request)

=============================================================================

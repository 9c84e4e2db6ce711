---------------------------- MODULE MCLifecycle ----------------------------
(***************************************************************************)
(* The process with two requests and two backends of one slot each, whose  *)
(* health reports make the second request wait.                            *)
(***************************************************************************)
EXTENDS Lifecycle, TLC

MCLimits == [p \in Priority |-> 1]
MCCapped == [b \in Backend |-> 1]
MCAnyModel == [b \in Backend |-> {}]
MCPlain == {[model |-> "m1", conversationID |-> none, priority |-> 0]}
MCWarm == {[warm |-> {"m1"}, safe |-> TRUE]}
MCCapacities == 0 .. NumBackends * MaxLimit

=============================================================================

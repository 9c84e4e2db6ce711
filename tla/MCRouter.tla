------------------------------ MODULE MCRouter ------------------------------
(***************************************************************************)
(* Instances of Router for TLC: two backends with one slot each, so that   *)
(* two requests fill the system and a third one waits.                     *)
(***************************************************************************)
EXTENDS Router, TLC

MCLimits == 0 :> 1 @@ 1 :> 1 @@ 2 :> 0

\* Every backend capped by the configuration.
MCCapped == [b \in Backend |-> 1]
\* The second backend sized by the scraper.
MCHalfAuto == 1 :> 1 @@ 2 :> 0

\* Every backend accepts every model.
MCAnyModel == [b \in Backend |-> {}]
\* The second one serves the model m2 only.
MCRestricted == 1 :> {} @@ 2 :> {"m2"}

Ask(m, c, p) == [model |-> m, conversationID |-> c, priority |-> p]

\* One kind of request: who waits for whom is all that matters.
MCPlain == {Ask("m1", none, 0)}
MCTwoTiers == {Ask("m1", none, 0), Ask("m1", none, 1)}
MCTalk == {Ask("m1", "c1", 0), Ask("m2", none, 1)}

MCWarm == {[warm |-> {"m1"}, safe |-> TRUE]}
\* Warm, near the VRAM limit, and cold or not scraped yet.
MCScraped == {[warm |-> {"m1"}, safe |-> TRUE], [warm |-> {}, safe |-> FALSE],
              [warm |-> {}, safe |-> TRUE]}

MCCapacities == 0 .. NumBackends * MaxLimit

Symm == Permutations(Request)

=============================================================================

---------------------------- MODULE RouterProofs ----------------------------
(***************************************************************************)
(* Safety of Router and of the process around it, Lifecycle, for any       *)
(* number of requests and backends, whatever the limits, the health        *)
(* reports, the scraper, the clients and the signals do.  The gate's part  *)
(* comes from GateProofs: every step of the router is a step of Gate or    *)
(* leaves the gate alone.                                                  *)
(***************************************************************************)
EXTENDS Lifecycle, GateProofs, FunctionTheorems

-----------------------------------------------------------------------------
(***************************************************************************)
(* The inductive invariant.                                                *)
(***************************************************************************)

\* A request on its way has what the client sent.
HasRequest == \A r \in Request : stage[r] # "idle" => req[r] \in Inputs

\* The sum over the backends visited so far stays within what the gate may be
\* told; loops start at the first backend and with nothing.
SumSoFar ==
  \A r \in Request :
    /\ sum[r] <= (scan[r] - 1) * MaxLimit
    /\ stage[r] # "limit" => sum[r] = 0
    /\ stage[r] \notin {"limit", "pick"} => scan[r] = 1

\* A request that has picked a backend remembers it until it has recorded.
Picked == {"reserve", "cas", "forward", "stream", "record"}
HasTarget == \A r \in Request : stage[r] \in Picked => target[r] \in Backend

\* The limit a request compares with is the configured one, if there is one.
BoundRead ==
  \A r \in Request :
    stage[r] = "cas" /\ maxConcurrent[target[r]] > 0 =>
      bound[r] = maxConcurrent[target[r]]

\* Candidates and picked backends serve the request's model.
ServesModel ==
  \A r \in Request :
    /\ \A b \in candidates[r] : stage[r] = "pick" /\ supportsModel(b, req[r].model)
    /\ stage[r] \in Picked => supportsModel(target[r], req[r].model)

RInv ==
  /\ RTypeOK /\ HasRequest /\ SumSoFar /\ HasTarget /\ BoundRead
  /\ IInv /\ SlotPaired
  /\ BackendSlots /\ HardCap
  /\ ServesModel /\ PinServesModel

\* The loop counters and sums are numbers.
LEMMA LoopTypes ==
  ASSUME RTypeOK
  PROVE  /\ scan \in [Request -> Int] /\ sum \in [Request -> Nat]
         /\ \A r \in Request : scan[r] >= 1 /\ scan[r] <= NumBackends + 1
         /\ NumBackends \in Nat /\ MaxLimit \in Nat /\ NumBackends >= 1
  BY PoolAssumption, GateAssumption DEF RTypeOK

\* A limit in force is within the bound on limits.
LEMMA EffectiveType ==
  ASSUME RTypeOK, NEW b \in Backend
  PROVE  effectiveConcurrent(b) \in 0 .. MaxLimit
  BY PoolAssumption DEF RTypeOK, effectiveConcurrent

\* One more backend adds at most MaxLimit.
LEMMA OneMoreLimit ==
  ASSUME NEW k \in Nat, NEW m \in Nat, NEW n \in Nat, k < n
  PROVE  (k + 1) * m = k * m + m /\ (k + 1) * m <= n * m /\ k * m >= 0
  BY SMT

-----------------------------------------------------------------------------
(***************************************************************************)
(* Types and the sum.                                                      *)
(***************************************************************************)

\* The router starts well typed.
LEMMA RInitType == ASSUME RInit PROVE RTypeOK /\ SumSoFar
<1>1. NumBackends \in Nat /\ MaxLimit \in Nat /\ 0 <= NumBackends * MaxLimit
  BY PoolAssumption, SMT
<1>2. 0 \in Capacities
  BY <1>1, GateAssumption
<1>3. RTypeOK
  <2>1. 1 \in 1 .. NumBackends + 1 /\ 0 \in 0 .. MaxLimit
    BY <1>1
  <2>2. /\ status \in [Backend -> {"up", "down"}]
        /\ autoConcurrent \in [Backend -> 0 .. MaxLimit]
        /\ store \in [Backend -> State]
    BY PoolAssumption DEF RInit
  <2>3. QED
    BY <1>2, <2>1, <2>2 DEF RInit, RTypeOK, Stage
<1>4. SumSoFar
  BY <1>1 DEF RInit, SumSoFar
<1>5. QED
  BY <1>3, <1>4

\* A round of TotalConcurrency keeps the sum within what the gate may be told.
LEMMA SumLimitType ==
  ASSUME RTypeOK, SumSoFar, NEW r \in Request, SumLimit(r)
  PROVE  RTypeOK' /\ SumSoFar'
<1> DEFINE b == scan[r]
           e == effectiveConcurrent(b)
<1>1. b \in Backend /\ e \in 0 .. MaxLimit
  BY LoopTypes, EffectiveType DEF SumLimit, Backend
<1>2. /\ sum[r] \in Nat /\ sum[r] <= (b - 1) * MaxLimit
      /\ MaxLimit \in Nat /\ NumBackends \in Nat
      /\ b - 1 \in Nat /\ b - 1 < NumBackends /\ (b - 1) + 1 = b
  BY LoopTypes, <1>1 DEF SumSoFar, Backend
<1>3. b * MaxLimit = (b - 1) * MaxLimit + MaxLimit /\ b * MaxLimit <= NumBackends * MaxLimit
  BY <1>2, OneMoreLimit
<1>4. 0 <= NumBackends * MaxLimit
  BY <1>2, SMT
<1>5. /\ b * MaxLimit \in Int /\ NumBackends * MaxLimit \in Int
      /\ (b - 1) * MaxLimit \in Int
  BY <1>2, SMT
<1>6. PICK n \in Nat, k \in {b + 1, NumBackends + 1} :
        /\ sum' = [sum EXCEPT ![r] = n] /\ scan' = [scan EXCEPT ![r] = k]
        /\ n <= (k - 1) * MaxLimit /\ n <= NumBackends * MaxLimit
  <2>1. CASE status[b] = "up" /\ e <= 0
    <3>1. sum' = [sum EXCEPT ![r] = 0] /\ scan' = [scan EXCEPT ![r] = NumBackends + 1]
      BY <2>1 DEF SumLimit
    <3>2. (NumBackends + 1) - 1 = NumBackends
      BY <1>2
    <3>3. QED
      BY <1>4, <3>1, <3>2
  <2>2. CASE ~(status[b] = "up" /\ e <= 0)
    <3> DEFINE n == sum[r] + IF status[b] = "up" THEN e ELSE 0
    <3>1. sum' = [sum EXCEPT ![r] = n] /\ scan' = [scan EXCEPT ![r] = b + 1]
      BY <2>2 DEF SumLimit
    <3>2. n \in Nat /\ n <= b * MaxLimit /\ n <= NumBackends * MaxLimit
      BY <1>1, <1>2, <1>3, <1>5
    <3>3. (b + 1) - 1 = b
      BY <1>2
    <3> HIDE DEF n, e
    <3>4. n <= ((b + 1) - 1) * MaxLimit
      BY <3>2, <3>3
    <3>5. QED
      BY <3>1, <3>2, <3>4
  <2>3. QED
    BY <2>1, <2>2
<1>7. n \in Capacities /\ k \in 1 .. NumBackends + 1
  <2>1. k \in 1 .. NumBackends + 1
    BY <1>2, <1>6
  <2>2. n \in 0 .. NumBackends * MaxLimit
    BY <1>5, <1>6
  <2>3. QED
    BY <2>1, <2>2, GateAssumption
<1>8. RTypeOK'
  BY <1>6, <1>7 DEF RTypeOK, SumLimit, backendVars
<1>9. SumSoFar'
  <2>1. \A x \in Request : /\ sum'[x] = IF x = r THEN n ELSE sum[x]
                           /\ scan'[x] = IF x = r THEN k ELSE scan[x]
    BY <1>6 DEF RTypeOK
  <2>2. QED
    BY <1>6, <2>1 DEF SumSoFar, SumLimit
<1>10. QED
  BY <1>8, <1>9

\* The requests a backend serves are a finite set.
LEMMA OnBackendFinite ==
  ASSUME NEW b
  PROVE  IsFiniteSet(OnBackend(b)) /\ Cardinality(OnBackend(b)) \in Nat
<1>1. OnBackend(b) \in SUBSET Request
  BY DEF OnBackend
<1>2. QED
  BY <1>1, RequestAssumption, FS_Subset, FS_CardinalityType

\* A request that is forwarded or streams has its backend's counter above zero.
LEMMA SlotHeld ==
  ASSUME RInv, NEW r \in Request, stage[r] \in {"forward", "stream"}
  PROVE  target[r] \in Backend /\ binflight[target[r]] \in Nat \ {0}
<1>1. target[r] \in Backend /\ r \in OnBackend(target[r])
  BY DEF RInv, HasTarget, Picked, OnBackend
<1>2. Cardinality(OnBackend(target[r])) \in Nat \ {0}
  BY <1>1, OnBackendFinite, FS_EmptySet
<1>3. QED
  BY <1>1, <1>2 DEF RInv, BackendSlots

\* StreamEnds, whole or not.
StreamStep(r) ==
  /\ stage[r] = "stream"
  /\ decInflight(r)
  /\ \E v \in {"none", "ok", "error", "cut"} : resp' = [resp EXCEPT ![r] = v]
  /\ Goto(r, "record")
  /\ UNCHANGED <<vars, req, scan, sum, candidates, tried, target, bound,
                 status, autoConcurrent, store, conv>>

\* StreamEnds is a StreamStep, whether the body was whole or not.
LEMMA StreamEndsStep ==
  ASSUME RTypeOK, NEW r \in Request, NEW whole \in BOOLEAN, StreamEnds(r, whole)
  PROVE  StreamStep(r)
<1>1. resp[r] \in {"none", "ok", "error", "cut"}
  BY DEF RTypeOK
<1>2. \E v \in {"none", "ok", "error", "cut"} : resp' = [resp EXCEPT ![r] = v]
  BY <1>1, Zenon DEF StreamEnds
<1>3. QED
  BY <1>2, Zenon DEF StreamEnds, StreamStep

\* A step that resets or keeps a loop's counter, and leaves the sum alone.
LEMMA SumKept ==
  ASSUME RTypeOK, SumSoFar, NEW r \in Request, NEW k \in 1 .. NumBackends + 1,
         NEW s \in Stage,
         stage' = [stage EXCEPT ![r] = s], scan' = [scan EXCEPT ![r] = k], sum' = sum,
         k >= scan[r] \/ sum[r] = 0,
         s # "limit" => sum[r] = 0,
         s \notin {"limit", "pick"} => k = 1
  PROVE  SumSoFar'
<1>1. /\ scan[r] \in Int /\ sum[r] \in Nat /\ sum[r] <= (scan[r] - 1) * MaxLimit
      /\ MaxLimit \in Nat /\ scan[r] >= 1 /\ k \in Int /\ k >= 1
  BY LoopTypes DEF SumSoFar
<1>2. sum[r] <= (k - 1) * MaxLimit
  <2>1. CASE k >= scan[r]
    <3>1. (scan[r] - 1) * MaxLimit <= (k - 1) * MaxLimit
      BY <1>1, <2>1, SMT
    <3>2. (scan[r] - 1) * MaxLimit \in Int /\ (k - 1) * MaxLimit \in Int
      BY <1>1, SMT
    <3>3. QED
      BY <1>1, <3>1, <3>2
  <2>2. CASE sum[r] = 0
    BY <1>1, <2>2, SMT
  <2>3. QED
    BY <2>1, <2>2
<1>3. \A x \in Request : /\ stage'[x] = IF x = r THEN s ELSE stage[x]
                         /\ scan'[x] = IF x = r THEN k ELSE scan[x]
  BY DEF RTypeOK
<1>4. QED
  BY <1>2, <1>3 DEF SumSoFar

\* Every step keeps the types and the sum.
LEMMA RNextType ==
  ASSUME RInv, [RNext]_rvars
  PROVE  RTypeOK' /\ SumSoFar'
<1> USE DEF Goto
<1> RTypeOK /\ SumSoFar /\ HasTarget /\ HasRequest
  BY DEF RInv
<1>0. CASE UNCHANGED rvars
  BY <1>0 DEF rvars, requestVars, backendVars, RTypeOK, SumSoFar
<1>1. ASSUME NEW r \in Request, NEW in \in Inputs, Arrive(r, in)
      PROVE  RTypeOK' /\ SumSoFar'
  <2>1. RTypeOK'
    BY <1>1 DEF RTypeOK, Arrive, backendVars, Stage
  <2>2. SumSoFar'
    BY <1>1 DEF RTypeOK, SumSoFar, Arrive
  <2>3. QED
    BY <2>1, <2>2
<1>2. ASSUME NEW r \in Request, CallAcquire(r)
      PROVE  RTypeOK' /\ SumSoFar'
  <2>1. 0 \in Capacities /\ 1 \in 1 .. NumBackends + 1
    BY LoopTypes, GateAssumption, SMT
  <2>2. RTypeOK'
    BY <1>2, <2>1 DEF RTypeOK, CallAcquire, backendVars, Stage
  <2>3. SumSoFar'
    BY <1>2, LoopTypes DEF RTypeOK, SumSoFar, CallAcquire
  <2>4. QED
    BY <2>2, <2>3
<1>3. ASSUME NEW r \in Request, Visit(r)
      PROVE  RTypeOK' /\ SumSoFar'
  <2>1. scan[r] \in Backend /\ scan[r] + 1 \in 1 .. NumBackends + 1
    BY <1>3, LoopTypes DEF Visit, Backend
  <2>2. RTypeOK'
    BY <1>3, <2>1 DEF RTypeOK, Visit, backendVars
  <2>3. /\ stage' = [stage EXCEPT ![r] = "pick"] /\ sum' = sum /\ sum[r] = 0
        /\ scan' = [scan EXCEPT ![r] = scan[r] + 1]
    BY <1>3 DEF RTypeOK, Visit, SumSoFar
  <2>4. SumSoFar'
    BY <2>1, <2>3, SumKept DEF Stage
  <2>5. QED
    BY <2>2, <2>4
<1>4. ASSUME NEW r \in Request, Choose(r)
      PROVE  RTypeOK' /\ SumSoFar'
  <2>1. PICK b \in Backend : /\ target' = [target EXCEPT ![r] = b]
                             /\ tried' = [tried EXCEPT ![r] = @ \cup {b}]
    BY <1>4 DEF Choose, Picks, Sticky, Untried, RTypeOK
  <2>2. RTypeOK'
    BY <1>4, <2>1, LoopTypes DEF RTypeOK, Choose, Visited, backendVars, Stage
  <2>3. /\ stage' = [stage EXCEPT ![r] = "reserve"] /\ sum' = sum /\ sum[r] = 0
        /\ scan' = [scan EXCEPT ![r] = 1] /\ 1 \in 1 .. NumBackends + 1
    BY <1>4, LoopTypes DEF Choose, Visited, SumSoFar
  <2>4. SumSoFar'
    BY <2>3, SumKept DEF Stage
  <2>5. QED
    BY <2>2, <2>4
<1>5. ASSUME NEW r \in Request, NoBackend(r)
      PROVE  RTypeOK' /\ SumSoFar'
  <2>1. RTypeOK'
    BY <1>5, LoopTypes DEF RTypeOK, NoBackend, Visited, backendVars, Stage
  <2>2. /\ stage' = [stage EXCEPT ![r] = "leaving"] /\ sum' = sum /\ sum[r] = 0
        /\ scan' = [scan EXCEPT ![r] = 1] /\ 1 \in 1 .. NumBackends + 1
    BY <1>5, LoopTypes DEF NoBackend, Visited, SumSoFar
  <2>3. SumSoFar'
    BY <2>2, SumKept DEF Stage
  <2>4. QED
    BY <2>1, <2>3
<1>6. ASSUME NEW r \in Request, ReadLimit(r)
      PROVE  RTypeOK' /\ SumSoFar'
  <2>1. effectiveConcurrent(target[r]) \in 0 .. MaxLimit
    BY <1>6, EffectiveType DEF ReadLimit, HasTarget, Picked
  <2>2. RTypeOK'
    BY <1>6, <2>1 DEF RTypeOK, ReadLimit, backendVars, Stage
  <2>3. SumSoFar'
    BY <1>6 DEF RTypeOK, SumSoFar, ReadLimit
  <2>4. QED
    BY <2>2, <2>3
<1>7. ASSUME NEW r \in Request, Reserve(r)
      PROVE  RTypeOK' /\ SumSoFar'
  <2>1. RTypeOK'
    BY <1>7, LoopTypes DEF RTypeOK, Reserve, HasTarget, Picked, Stage
  <2>2. SumSoFar'
    BY <1>7 DEF RTypeOK, SumSoFar, Reserve
  <2>3. QED
    BY <2>1, <2>2
<1>8. ASSUME NEW r \in Request, ReserveFails(r)
      PROVE  RTypeOK' /\ SumSoFar'
  <2>1. RTypeOK'
    BY <1>8, LoopTypes DEF RTypeOK, ReserveFails, backendVars, Stage
  <2>2. SumSoFar'
    BY <1>8 DEF RTypeOK, SumSoFar, ReserveFails
  <2>3. QED
    BY <2>1, <2>2
<1>9. ASSUME NEW r \in Request, Record(r)
      PROVE  RTypeOK' /\ SumSoFar'
  <2>1. req[r].conversationID \in Conversation \cup {none} /\ target[r] \in Backend
    BY <1>9, InputsAssumption DEF HasRequest, HasTarget, Record, Picked
  <2>2. RTypeOK'
    BY <1>9, <2>1 DEF RTypeOK, Record, Stage
  <2>3. SumSoFar'
    BY <1>9 DEF RTypeOK, SumSoFar, Record
  <2>4. QED
    BY <2>2, <2>3
<1>10. ASSUME NEW r \in Request, InGate(r) \/ ClientDisconnects(r)
       PROVE  RTypeOK' /\ SumSoFar'
  BY <1>10 DEF InGate, ClientDisconnects, requestVars, backendVars, RTypeOK, SumSoFar
<1>11. ASSUME NEW r \in Request, Admitted(r)
       PROVE  RTypeOK' /\ SumSoFar'
  <2>1. RTypeOK'
    BY <1>11 DEF RTypeOK, Admitted, backendVars, Stage
  <2>2. SumSoFar'
    BY <1>11 DEF RTypeOK, SumSoFar, Admitted
  <2>3. QED
    BY <2>1, <2>2
<1>12. ASSUME NEW r \in Request, Refused(r) \/ CallRelease(r)
       PROVE  RTypeOK' /\ SumSoFar'
  <2>1. RTypeOK'
    BY <1>12 DEF RTypeOK, Refused, CallRelease, Done, backendVars, Stage
  <2>2. SumSoFar'
    BY <1>12 DEF RTypeOK, SumSoFar, Refused, CallRelease, Done
  <2>3. QED
    BY <2>1, <2>2
<1>13. ASSUME NEW r \in Request, NEW a \in {"ok", "error"}, Forward(r, a)
       PROVE  RTypeOK' /\ SumSoFar'
  <2>1. RTypeOK'
    BY <1>13 DEF RTypeOK, Forward, backendVars, Stage
  <2>2. SumSoFar'
    BY <1>13 DEF RTypeOK, SumSoFar, Forward
  <2>3. QED
    BY <2>1, <2>2
<1>14. ASSUME NEW r \in Request, ForwardFails(r)
       PROVE  RTypeOK' /\ SumSoFar'
  <2>1. target[r] \in Backend /\ binflight[target[r]] \in Nat \ {0}
    BY <1>14, SlotHeld DEF ForwardFails
  <2>2. binflight' \in [Backend -> Nat]
    BY <1>14, <2>1 DEF RTypeOK, ForwardFails, decInflight
  <2>3. RTypeOK'
    BY <1>14, <2>2 DEF RTypeOK, ForwardFails, RetryUnlessGone, Stage
  <2>4. SumSoFar'
    BY <1>14 DEF RTypeOK, SumSoFar, ForwardFails, RetryUnlessGone
  <2>5. QED
    BY <2>3, <2>4
<1>15. ASSUME NEW r \in Request, StreamStep(r)
       PROVE  RTypeOK' /\ SumSoFar'
  <2>1. target[r] \in Backend /\ binflight[target[r]] \in Nat \ {0}
    BY <1>15, SlotHeld DEF StreamStep
  <2>2. binflight' \in [Backend -> Nat]
    BY <1>15, <2>1 DEF RTypeOK, StreamStep, decInflight
  <2>3. RTypeOK'
    BY <1>15, <2>2 DEF RTypeOK, StreamStep, Stage
  <2>4. SumSoFar'
    BY <1>15 DEF RTypeOK, SumSoFar, StreamStep
  <2>5. QED
    BY <2>3, <2>4
<1>16. CASE Environment
  <2>1. RTypeOK'
    BY <1>16, PoolAssumption
       DEF RTypeOK, Environment, HealthReport, SetAutoConcurrent, SetState, Expire,
           requestVars
  <2>2. SumSoFar'
    BY <1>16
       DEF SumSoFar, Environment, HealthReport, SetAutoConcurrent, SetState, Expire,
           requestVars
  <2>3. QED
    BY <2>1, <2>2
<1>17. ASSUME NEW r \in Request, SumLimit(r)
       PROVE  RTypeOK' /\ SumSoFar'
  BY <1>17, SumLimitType
<1>18. QED
  BY <1>0, <1>1, <1>2, <1>3, <1>4, <1>5, <1>6, <1>7, <1>8, <1>9, <1>10, <1>11, <1>12,
     <1>13, <1>14, <1>15, <1>16, <1>17, StreamEndsStep DEF RNext, Handle, Answer

-----------------------------------------------------------------------------
(***************************************************************************)
(* The router uses the gate as Gate says.                                  *)
(***************************************************************************)

\* What TotalConcurrency sums up is a limit the gate may have.
LEMMA LimitOfSum ==
  ASSUME RTypeOK, NEW r \in Request
  PROVE  LimitOf(sum[r]) \in limit
<1>1. sum[r] \in Capacities
  BY DEF RTypeOK
<1>2. QED
  BY <1>1, GateAssumption DEF LimitOf, limit

\* The router's gate is never disabled.
LEMMA LimitPositive ==
  ASSUME RTypeOK, NEW r \in Request
  PROVE  LimitOf(sum[r]) \in Nat \ {0} /\ ~(LimitOf(sum[r]) <= 0)
<1>1. sum[r] \in Nat
  BY LoopTypes
<1>2. QED
  BY <1>1, SMT DEF LimitOf, MaxInt32

\* Every step of the router is a step of the gate or leaves it alone.
LEMMA GateStep ==
  ASSUME RTypeOK, HasRequest, [RNext]_rvars
  PROVE  [Next]_vars
<1>1. CASE UNCHANGED vars
  BY <1>1
<1>2. ASSUME NEW r \in Request, CallAcquire(r)
      PROVE  Step(r)
  <2>1. req[r].priority \in Priority
    BY <1>2, InputsAssumption DEF HasRequest, CallAcquire
  <2>2. QED
    BY <1>2, <2>1, LimitOfSum DEF CallAcquire, Step
<1>3. ASSUME NEW r \in Request,
             \/ InGate(r) \/ Admitted(r) \/ Refused(r) \/ CallRelease(r)
             \/ ClientDisconnects(r)
      PROVE  Step(r)
  BY <1>3 DEF InGate, Admitted, Refused, CallRelease, ClientDisconnects, Step
<1>4. ASSUME NEW r \in Request, NEW in \in Inputs, Arrive(r, in)
      PROVE  UNCHANGED vars
  BY <1>4 DEF Arrive
<1>5. ASSUME NEW r \in Request,
             \/ SumLimit(r) \/ Visit(r) \/ Choose(r) \/ NoBackend(r) \/ ReadLimit(r)
             \/ Reserve(r) \/ ReserveFails(r) \/ Record(r)
             \/ Answer(r) \/ \E whole \in BOOLEAN : StreamEnds(r, whole)
      PROVE  UNCHANGED vars
  BY <1>5 DEF SumLimit, Visit, Choose, NoBackend, ReadLimit, Reserve, ReserveFails,
              Record, Answer, ForwardFails, Forward, StreamEnds
<1>6. CASE Environment
  BY <1>6 DEF Environment, HealthReport, SetAutoConcurrent, SetState, Expire
<1>7. CASE UNCHANGED rvars
  BY <1>7 DEF rvars
<1>8. QED
  BY <1>1, <1>2, <1>3, <1>4, <1>5, <1>6, <1>7 DEF RNext, Handle, Next

-----------------------------------------------------------------------------
(***************************************************************************)
(* What a request knows of itself.                                         *)
(***************************************************************************)
RLocal == HasRequest /\ HasTarget /\ BoundRead /\ SlotPaired /\ ServesModel

\* Requests start with nothing.
LEMMA RInitLocal == ASSUME RInit PROVE RLocal
  BY DEF RInit, Init, RLocal, HasRequest, HasTarget, BoundRead, SlotPaired, ServesModel,
         Picked

\* A step of another request, or of the environment, does not concern a request.
LEMMA LocalStep ==
  ASSUME RTypeOK, RLocal, NEW r \in Request,
         \A x \in Request \ {r} :
           /\ stage'[x] = stage[x] /\ req'[x] = req[x] /\ target'[x] = target[x]
           /\ bound'[x] = bound[x] /\ candidates'[x] = candidates[x] /\ pc'[x] = pc[x],
         stage'[r] # "idle" => req'[r] \in Inputs,
         stage'[r] \in Picked => /\ target'[r] \in Backend
                                 /\ supportsModel(target'[r], req'[r].model),
         stage'[r] = "cas" /\ maxConcurrent[target'[r]] > 0 =>
           bound'[r] = maxConcurrent[target'[r]],
         (pc'[r] = "holding") <=> (stage'[r] \in Picked \cup {"pick", "leaving"}),
         (pc'[r] = "idle") <=> (stage'[r] \in {"idle", "limit"}),
         \A b \in candidates'[r] : stage'[r] = "pick" /\ supportsModel(b, req'[r].model)
  PROVE  RLocal'
<1>1. HasRequest' /\ HasTarget' /\ BoundRead'
  BY DEF RLocal, HasRequest, HasTarget, BoundRead
<1>2. SlotPaired'
  BY DEF RLocal, SlotPaired, Picked
<1>3. ServesModel'
  BY DEF RLocal, ServesModel, supportsModel
<1>4. QED
  BY <1>1, <1>2, <1>3 DEF RLocal

\* Every step keeps what each request knows of itself.
LEMMA RNextLocal ==
  ASSUME RTypeOK, RLocal, IInv, [RNext]_rvars
  PROVE  RLocal'
<1> USE DEF Goto, Picked
<1> TypeOK
  BY DEF IInv
<1>0. ASSUME UNCHANGED <<pc, requestVars>>
      PROVE  RLocal'
  BY <1>0 DEF requestVars, RLocal, HasRequest, HasTarget, BoundRead, SlotPaired,
              ServesModel, supportsModel
<1> USE DEF RTypeOK, RLocal, HasRequest, HasTarget, BoundRead, SlotPaired, ServesModel
<1>1. ASSUME NEW r \in Request, NEW in \in Inputs, Arrive(r, in)
      PROVE  RLocal'
  BY <1>1, LocalStep DEF Arrive, vars
<1>2. ASSUME NEW r \in Request, CallAcquire(r)
      PROVE  RLocal'
  <2>1. ~(LimitOf(sum[r]) <= 0)
    BY LimitPositive
  <2>2. pc' = [pc EXCEPT ![r] = "lock"]
    BY <1>2, <2>1 DEF CallAcquire, Acquire
  <2>3. QED
    BY <1>2, <2>2, LocalStep DEF CallAcquire, TypeOK
<1>3. ASSUME NEW r \in Request, Visit(r)
      PROVE  RLocal'
  BY <1>3, LocalStep DEF Visit, vars
<1>4. ASSUME NEW r \in Request, Choose(r)
      PROVE  RLocal'
  <2>1. PICK b \in candidates[r] : target' = [target EXCEPT ![r] = b]
    BY <1>4 DEF Choose, Picks, Sticky, Untried
  <2>2. b \in Backend
    BY <2>1 DEF RTypeOK
  <2>3. QED
    BY <1>4, <2>1, <2>2, LocalStep DEF Choose, Visited, vars
<1>5. ASSUME NEW r \in Request, NoBackend(r)
      PROVE  RLocal'
  BY <1>5, LocalStep DEF NoBackend, Visited, vars
<1>6. ASSUME NEW r \in Request, ReadLimit(r)
      PROVE  RLocal'
  BY <1>6, LocalStep DEF ReadLimit, effectiveConcurrent, vars
<1>7. ASSUME NEW r \in Request, Reserve(r)
      PROVE  RLocal'
  BY <1>7, LocalStep DEF Reserve, vars
<1>8. ASSUME NEW r \in Request, ReserveFails(r)
      PROVE  RLocal'
  BY <1>8, LocalStep DEF ReserveFails, vars
<1>9. ASSUME NEW r \in Request, Record(r)
      PROVE  RLocal'
  BY <1>9, LocalStep DEF Record, vars
<1>10. ASSUME NEW r \in Request, InGate(r)
      PROVE  RLocal'
  <2>1. PICK v \in {"waiting", "cancelling", "returning"} : pc' = [pc EXCEPT ![r] = v]
    BY <1>10 DEF InGate, Enqueue, CtxDone, CancelWoken, Return
  <2>2. QED
    BY <1>10, <2>1, LocalStep DEF InGate, TypeOK, requestVars
<1>11. ASSUME NEW r \in Request, Admitted(r)
      PROVE  RLocal'
  BY <1>11, LocalStep DEF Admitted, Admit, Woken, Return, TypeOK
<1>12. ASSUME NEW r \in Request, Refused(r)
      PROVE  RLocal'
  BY <1>12, LocalStep DEF Refused, Reject, CancelRemove, Release, Leave, Return, Done, TypeOK
<1>13. ASSUME NEW r \in Request, CallRelease(r)
      PROVE  RLocal'
  BY <1>13, LocalStep DEF CallRelease, Release, Leave, Return, Done, TypeOK
<1>14. ASSUME NEW r \in Request, NEW a \in {"ok", "error"}, Forward(r, a)
      PROVE  RLocal'
  BY <1>14, LocalStep DEF Forward, vars
<1>15. ASSUME NEW r \in Request, ForwardFails(r)
      PROVE  RLocal'
  BY <1>15, LocalStep DEF ForwardFails, RetryUnlessGone, vars
<1>16. ASSUME NEW r \in Request, StreamStep(r)
      PROVE  RLocal'
  BY <1>16, LocalStep DEF StreamStep, vars
<1>17. ASSUME NEW r \in Request, SumLimit(r)
      PROVE  RLocal'
  BY <1>17, LocalStep DEF SumLimit, vars
<1>18. ASSUME NEW r \in Request, ClientDisconnects(r)
      PROVE  RLocal'
  BY <1>0, <1>18 DEF ClientDisconnects, Disconnect
<1>19. CASE Environment
  BY <1>0, <1>19
     DEF Environment, HealthReport, SetAutoConcurrent, SetState, Expire, vars
<1>20. CASE UNCHANGED rvars
  BY <1>0, <1>20 DEF rvars, vars
<1>21. QED
  BY <1>1, <1>2, <1>3, <1>4, <1>5, <1>6, <1>7, <1>8, <1>9, <1>10, <1>11, <1>12, <1>13,
     <1>14, <1>15, <1>16, <1>17, <1>18, <1>19, <1>20, StreamEndsStep
     DEF RNext, Handle, Answer

-----------------------------------------------------------------------------
(***************************************************************************)
(* The backends' slots.                                                    *)
(***************************************************************************)
Serving == {"forward", "stream"}
Slots == BackendSlots /\ HardCap

\* No backend serves a request yet.
LEMMA RInitSlots == ASSUME RInit PROVE Slots
<1>1. \A b \in Backend : OnBackend(b) = {} /\ binflight[b] = 0
  BY DEF RInit, OnBackend
<1>2. BackendSlots
  BY <1>1, FS_EmptySet DEF BackendSlots
<1>3. HardCap
  BY <1>1, PoolAssumption DEF HardCap
<1>4. QED
  BY <1>2, <1>3 DEF Slots

\* A step that moves no request onto or off a backend.
LEMMA QuietSlots ==
  ASSUME Slots, binflight' = binflight,
         \A x \in Request : /\ stage'[x] \in Serving <=> stage[x] \in Serving
                            /\ stage[x] \in Serving => target'[x] = target[x]
  PROVE  Slots'
<1>1. \A b \in Backend : OnBackend(b)' = OnBackend(b)
  BY DEF OnBackend, Serving
<1>2. QED
  BY <1>1 DEF Slots, BackendSlots, HardCap

\* Reserve counts the request it puts on a backend, below the configured limit.
LEMMA ReserveSlots ==
  ASSUME RInv, NEW r \in Request, Reserve(r)
  PROVE  Slots'
<1>t. PICK t \in Backend : t = target[r]
  BY DEF RInv, HasTarget, Picked, Reserve
<1>0. t \in Backend /\ r \notin OnBackend(t) /\ binflight \in [Backend -> Nat]
  BY <1>t DEF RInv, RTypeOK, OnBackend, Reserve
<1>1. /\ t \in Backend /\ r \notin OnBackend(t) /\ binflight \in [Backend -> Nat]
      /\ bound[r] \in Nat /\ maxConcurrent[t] \in Nat
  BY <1>0, PoolAssumption DEF RInv, RTypeOK
<1>2. \A b \in Backend : binflight'[b] = IF b = t THEN binflight[b] + 1 ELSE binflight[b]
  BY <1>1, <1>t DEF Reserve
<1>3. /\ OnBackend(t)' = OnBackend(t) \cup {r}
      /\ \A b \in Backend \ {t} : OnBackend(b)' = OnBackend(b)
  BY <1>t DEF RInv, RTypeOK, Reserve, Goto, OnBackend
<1>4. Cardinality(OnBackend(t) \cup {r}) = Cardinality(OnBackend(t)) + 1
  BY <1>1, OnBackendFinite, FS_AddElement
<1>5. BackendSlots'
  <2> SUFFICES ASSUME NEW b \in Backend
               PROVE  binflight'[b] = Cardinality(OnBackend(b)')
    BY DEF BackendSlots
  <2>1. binflight[b] = Cardinality(OnBackend(b))
    BY DEF RInv, BackendSlots
  <2>2. CASE b = t
    BY <1>2, <1>3, <1>4, <2>1, <2>2
  <2>3. CASE b # t
    BY <1>2, <1>3, <2>1, <2>3
  <2>4. QED
    BY <2>2, <2>3
<1>6. maxConcurrent[t] > 0 => binflight[t] < maxConcurrent[t]
  BY <1>1, <1>t DEF RInv, BoundRead, Reserve, BelowLimit
<1>7. HardCap'
  BY <1>1, <1>2, <1>6, PoolAssumption DEF RInv, HardCap
<1>8. QED
  BY <1>5, <1>7 DEF Slots

\* decInflight uncounts the request that leaves its backend.
LEMMA LeaveSlots ==
  ASSUME RInv, NEW r \in Request, stage[r] \in Serving, decInflight(r),
         stage'[r] \notin Serving,
         \A x \in Request \ {r} : stage'[x] = stage[x] /\ target'[x] = target[x]
  PROVE  Slots'
<1>t. PICK t \in Backend : t = target[r]
  BY DEF RInv, HasTarget, Picked, Serving
<1>1. t \in Backend /\ r \in OnBackend(t) /\ binflight \in [Backend -> Nat]
  BY <1>t DEF RInv, RTypeOK, Serving, OnBackend
<1>2. \A b \in Backend : binflight'[b] = IF b = t THEN binflight[b] - 1 ELSE binflight[b]
  BY <1>1, <1>t DEF decInflight
<1>3. /\ OnBackend(t)' = OnBackend(t) \ {r}
      /\ \A b \in Backend \ {t} : OnBackend(b)' = OnBackend(b)
  <2>1. OnBackend(t)' = OnBackend(t) \ {r}
    BY <1>t DEF Serving, OnBackend
  <2>2. ASSUME NEW b \in Backend \ {t}
        PROVE  OnBackend(b)' = OnBackend(b)
    BY <1>t, <2>2 DEF Serving, OnBackend
  <2>3. QED
    BY <2>1, <2>2
<1>4. Cardinality(OnBackend(t) \ {r}) = Cardinality(OnBackend(t)) - 1
  BY <1>1, OnBackendFinite, FS_RemoveElement
<1>5. BackendSlots'
  <2> SUFFICES ASSUME NEW b \in Backend
               PROVE  binflight'[b] = Cardinality(OnBackend(b)')
    BY DEF BackendSlots
  <2>1. binflight[b] = Cardinality(OnBackend(b))
    BY DEF RInv, BackendSlots
  <2>2. CASE b = t
    BY <1>2, <1>3, <1>4, <2>1, <2>2
  <2>3. CASE b # t
    BY <1>2, <1>3, <2>1, <2>3
  <2>4. QED
    BY <2>2, <2>3
<1>6. HardCap'
  <2>1. \A b \in Backend : binflight'[b] <= binflight[b] /\ binflight'[b] \in Int
    BY <1>1, <1>2
  <2>2. QED
    BY <1>1, <2>1, PoolAssumption DEF RInv, HardCap
<1>7. QED
  BY <1>5, <1>6 DEF Slots

\* Every step keeps the backends' counters.
LEMMA RNextSlots ==
  ASSUME RInv, [RNext]_rvars
  PROVE  Slots'
<1> USE DEF Goto, Serving
<1> RTypeOK /\ Slots
  BY DEF RInv, Slots
<1>1. ASSUME UNCHANGED <<stage, target, binflight>>
      PROVE  Slots'
  BY <1>1, QuietSlots
<1>2. ASSUME NEW r \in Request, NEW in \in Inputs, Arrive(r, in)
      PROVE  Slots'
  BY <1>2, QuietSlots DEF Arrive, backendVars, RTypeOK
<1>3. ASSUME NEW r \in Request, SumLimit(r) \/ InGate(r) \/ Visit(r) \/ ClientDisconnects(r)
      PROVE  Slots'
  BY <1>1, <1>3 DEF SumLimit, InGate, Visit, ClientDisconnects, requestVars, backendVars
<1>4. ASSUME NEW r \in Request, CallAcquire(r) \/ Admitted(r)
      PROVE  Slots'
  BY <1>4, QuietSlots DEF CallAcquire, Admitted, backendVars, RTypeOK
<1>5. ASSUME NEW r \in Request, Refused(r) \/ CallRelease(r)
      PROVE  Slots'
  BY <1>5, QuietSlots DEF Refused, CallRelease, Done, backendVars, RTypeOK
<1>6. ASSUME NEW r \in Request, Choose(r) \/ NoBackend(r)
      PROVE  Slots'
  BY <1>6, QuietSlots DEF Choose, NoBackend, Visited, backendVars, RTypeOK
<1>7. ASSUME NEW r \in Request, ReadLimit(r) \/ ReserveFails(r)
      PROVE  Slots'
  BY <1>7, QuietSlots DEF ReadLimit, ReserveFails, backendVars, RTypeOK
<1>8. ASSUME NEW r \in Request, Reserve(r)
      PROVE  Slots'
  BY <1>8, ReserveSlots
<1>9. ASSUME NEW r \in Request, NEW a \in {"ok", "error"}, Forward(r, a)
      PROVE  Slots'
  BY <1>9, QuietSlots DEF Forward, backendVars, RTypeOK
<1>10. ASSUME NEW r \in Request, ForwardFails(r)
       PROVE  Slots'
  BY <1>10, LeaveSlots DEF ForwardFails, RetryUnlessGone, RTypeOK
<1>11. ASSUME NEW r \in Request, StreamStep(r)
       PROVE  Slots'
  BY <1>11, LeaveSlots DEF StreamStep, RTypeOK
<1>12. ASSUME NEW r \in Request, Record(r)
       PROVE  Slots'
  BY <1>12, QuietSlots DEF Record, RTypeOK
<1>13. CASE Environment
  BY <1>1, <1>13
     DEF Environment, HealthReport, SetAutoConcurrent, SetState, Expire, requestVars
<1>14. CASE UNCHANGED rvars
  BY <1>1, <1>14 DEF rvars, requestVars, backendVars
<1>15. QED
  BY <1>2, <1>3, <1>4, <1>5, <1>6, <1>7, <1>8, <1>9, <1>10, <1>11, <1>12, <1>13, <1>14,
     StreamEndsStep DEF RNext, Handle, Answer

-----------------------------------------------------------------------------
(***************************************************************************)
(* Conversations.                                                          *)
(***************************************************************************)

\* Only Record pins a conversation, to the backend that was picked for it.
LEMMA RNextPin ==
  ASSUME RInv, [RNext]_rvars
  PROVE  PinServesModel'
<1> USE DEF PinServesModel
<1>1. ASSUME UNCHANGED conv
      PROVE  PinServesModel'
  BY <1>1 DEF RInv
<1>2. ASSUME NEW r \in Request, Record(r)
      PROVE  PinServesModel'
  <2> DEFINE c == req[r].conversationID
             t == target[r]
  <2>1. /\ req[r] \in Inputs /\ c \in Conversation \cup {none}
        /\ Models[t] = {} \/ req[r].model \in Models[t]
    BY <1>2, InputsAssumption
       DEF RInv, Record, HasRequest, ServesModel, Picked, supportsModel
  <2>2. conv' = conv \/ (c \in Conversation /\ conv' = [conv EXCEPT ![c] = t])
    BY <1>2, <2>1 DEF Record
  <2>3. CASE c \in Conversation /\ conv' = [conv EXCEPT ![c] = t]
    BY <2>1, <2>3 DEF RInv, RTypeOK
  <2>4. QED
    BY <1>1, <2>2, <2>3
<1>3. ASSUME NEW c \in Conversation, Expire(c)
      PROVE  PinServesModel'
  BY <1>3 DEF Expire, RInv, RTypeOK
<1>4. CASE UNCHANGED rvars
  BY <1>1, <1>4 DEF rvars, backendVars
<1>5. ASSUME NEW r \in Request, NEW in \in Inputs, Arrive(r, in)
      PROVE  PinServesModel'
  BY <1>1, <1>5 DEF Arrive, backendVars
<1>6. ASSUME NEW r \in Request,
             \/ SumLimit(r) \/ Visit(r) \/ Choose(r) \/ NoBackend(r) \/ ReadLimit(r)
             \/ Reserve(r) \/ ReserveFails(r) \/ Answer(r) \/ StreamStep(r)
      PROVE  PinServesModel'
  BY <1>1, <1>6 DEF SumLimit, Visit, Choose, NoBackend, ReadLimit, Reserve, ReserveFails,
                    Answer, ForwardFails, Forward, StreamStep, backendVars
<1>7. ASSUME NEW r \in Request,
             \/ CallAcquire(r) \/ InGate(r) \/ Admitted(r) \/ Refused(r) \/ CallRelease(r)
             \/ ClientDisconnects(r)
      PROVE  PinServesModel'
  BY <1>1, <1>7 DEF CallAcquire, InGate, Admitted, Refused, CallRelease, Done,
                    ClientDisconnects, backendVars
<1>8. ASSUME NEW b \in Backend,
             \/ \E s \in HealthReports : HealthReport(b, s)
             \/ \E n \in AutoLimits : SetAutoConcurrent(b, n)
             \/ \E st \in ScrapedStates : SetState(b, st)
      PROVE  PinServesModel'
  BY <1>1, <1>8 DEF HealthReport, SetAutoConcurrent, SetState
<1>9. QED
  BY <1>2, <1>3, <1>4, <1>5, <1>6, <1>7, <1>8, StreamEndsStep
     DEF RNext, Handle, Environment, RInv

-----------------------------------------------------------------------------
(***************************************************************************)
(* The theorems.                                                           *)
(***************************************************************************)

\* The invariant holds of a router without requests.
LEMMA RInitInv == ASSUME RInit PROVE RInv
<1>1. IInv
  BY InitIInv DEF RInit
<1>2. PinServesModel
  BY DEF RInit, PinServesModel
<1>3. QED
  BY <1>1, <1>2, RInitType, RInitLocal, RInitSlots DEF RInv, RLocal, Slots

\* Every step of the router preserves the invariant.
LEMMA RNextInv == ASSUME RInv, [RNext]_rvars PROVE RInv'
<1>1. RTypeOK' /\ SumSoFar'
  BY RNextType
<1>2. RLocal'
  BY RNextLocal DEF RInv, RLocal
<1>3. Slots' /\ PinServesModel'
  BY RNextSlots, RNextPin
<1>4. IInv'
  BY GateStep, NextIInv DEF RInv
<1>5. QED
  BY <1>1, <1>2, <1>3, <1>4 DEF RInv, RLocal, Slots

\* The inductive invariant holds throughout.
THEOREM RouterInvariant == RSpec => []RInv
<1>1. RInit => RInv
  BY RInitInv
<1>2. RInv /\ [RNext]_rvars => RInv'
  BY RNextInv
<1>3. QED
  BY <1>1, <1>2, PTL DEF RSpec

\* The router uses the gate as Gate says: its gate steps are those of Gate, with
\* limits TotalConcurrency can return (proxy.go:68-74, main.go:51).
THEOREM RouterImplementsGate == RSpec => ImplementsGate
<1>1. RInit => Init
  BY DEF RInit
<1>2. RInv /\ [RNext]_rvars => [Next]_vars
  BY GateStep DEF RInv
<1>3. QED
  BY <1>1, <1>2, RouterInvariant, PTL DEF RSpec, ImplementsGate, Spec

\* The variables of the handler keep their types; the counters never go
\* negative (backend.go:29).
THEOREM RouterTypeOK == RSpec => []RTypeOK
<1>1. RInv => RTypeOK
  BY DEF RInv
<1>2. QED
  BY <1>1, RouterInvariant, PTL

\* Every success of tryReserve is paired with one decInflight (backend.go:80).
THEOREM RouterBackendSlots == RSpec => []BackendSlots
<1>1. RInv => BackendSlots
  BY DEF RInv
<1>2. QED
  BY <1>1, RouterInvariant, PTL

\* max_concurrent is a hard cap (backend.go:76-80).
THEOREM RouterHardCap == RSpec => []HardCap
<1>1. RInv => HardCap
  BY DEF RInv
<1>2. QED
  BY <1>1, RouterInvariant, PTL

\* A gate slot is owned exactly between Acquire and the deferred Release
\* (proxy.go:74).
THEOREM RouterSlotPaired == RSpec => []SlotPaired
<1>1. RInv => SlotPaired
  BY DEF RInv
<1>2. QED
  BY <1>1, RouterInvariant, PTL

\* A conversation is pinned to a backend that serves its model (proxy.go:142).
THEOREM RouterPinServesModel == RSpec => []PinServesModel
<1>1. RInv => PinServesModel
  BY DEF RInv
<1>2. QED
  BY <1>1, RouterInvariant, PTL

-----------------------------------------------------------------------------
(***************************************************************************)
(* Admitted requests fit.  The slots of the backends are counted as a set  *)
(* of places, so that the sum TotalConcurrency computes is a cardinality   *)
(* and "some backend is free" is the pigeonhole principle.                 *)
(***************************************************************************)

\* The places of the first k backends.
Places(k) ==
  {p \in Backend \X (1 .. MaxLimit) : p[1] <= k /\ p[2] <= maxConcurrent[p[1]]}
Total == Cardinality(Places(NumBackends))

\* TotalConcurrency counts the places of the backends it has visited.
SummedPlaces ==
  \A r \in Request : stage[r] = "limit" => sum[r] = Cardinality(Places(scan[r] - 1))

\* A request that has read its limit and waits for the lock has read the total.
ReadTotal == \A r \in Request : pc[r] = "lock" => lim[r] = Total

\* In a steady system every request reads the same limit, the number of places,
\* and the gate admits no more requests than that.
SteadyInv ==
  Steady =>
    /\ \A b \in Backend : status[b] = "up"
    /\ SummedPlaces
    /\ ReadTotal
    /\ inflight <= Total

\* The places are a finite set, none of them before the first backend.
LEMMA PlacesFinite ==
  /\ \A k : IsFiniteSet(Places(k)) /\ Cardinality(Places(k)) \in Nat
  /\ Cardinality(Places(0)) = 0
<1>1. IsFiniteSet(Backend \X (1 .. MaxLimit))
  <2>1. IsFiniteSet(Backend) /\ IsFiniteSet(1 .. MaxLimit)
    BY PoolAssumption, FS_Interval DEF Backend
  <2>2. QED
    BY <2>1, FS_Product
<1>2. \A k : Places(k) \in SUBSET (Backend \X (1 .. MaxLimit))
  BY DEF Places
<1>3. \A k : IsFiniteSet(Places(k)) /\ Cardinality(Places(k)) \in Nat
  BY <1>1, <1>2, FS_Subset, FS_CardinalityType
<1>4. Places(0) = {}
  BY PoolAssumption DEF Places, Backend
<1>5. QED
  BY <1>3, <1>4, FS_EmptySet

\* A backend adds as many places as it has slots.
LEMMA PlacesGrow ==
  ASSUME NEW b \in Backend
  PROVE  Cardinality(Places(b)) = Cardinality(Places(b - 1)) + maxConcurrent[b]
<1> DEFINE m == maxConcurrent[b]
           own == {b} \X (1 .. m)
<1>1. m \in Nat /\ m <= MaxLimit /\ MaxLimit \in Nat /\ b \in Int
  BY PoolAssumption DEF Backend
<1>2. IsFiniteSet(own) /\ Cardinality(own) = m
  <2>1. /\ IsFiniteSet({b}) /\ Cardinality({b}) = 1
        /\ IsFiniteSet(1 .. m) /\ Cardinality(1 .. m) = m
    <3> HIDE DEF m
    <3>1. IsFiniteSet({b}) /\ Cardinality({b}) = 1
      BY FS_Singleton, Zenon
    <3>2. IsFiniteSet(1 .. m) /\ Cardinality(1 .. m) = IF 1 > m THEN 0 ELSE m - 1 + 1
      BY <1>1, FS_Interval
    <3>3. QED
      BY <1>1, <3>1, <3>2
  <2> HIDE DEF m
  <2>2. IsFiniteSet(own) /\ Cardinality(own) = Cardinality({b}) * Cardinality(1 .. m)
    BY <2>1, FS_Product, Zenon
  <2>3. 1 * m = m
    BY <1>1
  <2>4. QED
    BY <2>1, <2>2, <2>3
<1>3. Places(b) = Places(b - 1) \cup own
  BY <1>1 DEF Places, Backend
<1>4. Places(b - 1) \cap own = {}
  BY <1>1 DEF Places
<1>5. Cardinality(Places(b - 1) \cup own)
        = Cardinality(Places(b - 1)) + Cardinality(own) - Cardinality(Places(b - 1) \cap own)
  BY <1>2, PlacesFinite, FS_Union
<1>6. QED
  BY <1>1, <1>2, <1>3, <1>4, <1>5, PlacesFinite, FS_EmptySet

\* A steady pool has a place.
LEMMA TotalPositive ==
  ASSUME Steady
  PROVE  Total \in Nat \ {0}
<1>1. <<1, 1>> \in Places(NumBackends)
  BY PoolAssumption DEF Steady, Places, Backend
<1>2. QED
  BY <1>1, PlacesFinite, FS_EmptySet DEF Total

\* While a request looks for a backend, some backend has a place left: those who
\* are on a backend and the request itself own a gate slot each.
LEMMA SomePlaceLeft ==
  ASSUME RInv, SteadyInv, Steady, NEW r \in Request, stage[r] \in {"pick", "reserve", "cas"}
  PROVE  \E b \in Backend : binflight[b] < maxConcurrent[b]
<1> DEFINE On == UNION {OnBackend(b) : b \in Backend}
<1>1. SUFFICES ASSUME \A b \in Backend : ~(binflight[b] < maxConcurrent[b])
               PROVE  FALSE
  OBVIOUS
<1>2. \A b \in Backend : /\ maxConcurrent[b] \in Nat
                         /\ maxConcurrent[b] <= Cardinality(OnBackend(b))
  <2>1. \A b \in Backend : binflight[b] \in Nat /\ binflight[b] = Cardinality(OnBackend(b))
    BY DEF RInv, RTypeOK, BackendSlots
  <2>2. \A b \in Backend : maxConcurrent[b] \in Nat
    BY PoolAssumption
  <2>3. QED
    BY <1>1, <2>1, <2>2
<1>3. \A b \in Backend : Injection(1 .. maxConcurrent[b], OnBackend(b)) # {}
  <2> SUFFICES ASSUME NEW b \in Backend
               PROVE  Injection(1 .. maxConcurrent[b], OnBackend(b)) # {}
    OBVIOUS
  <2> DEFINE n == Cardinality(OnBackend(b))
  <2>1. n \in Nat /\ ExistsBijection(1 .. n, OnBackend(b))
    BY OnBackendFinite, FS_CardinalityType
  <2>2. PICK f \in Bijection(1 .. n, OnBackend(b)) : TRUE
    BY <2>1, Fun_ExistsBij
  <2> HIDE DEF n
  <2>3. /\ f \in [1 .. n -> OnBackend(b)]
        /\ \A i, j \in 1 .. n : f[i] = f[j] => i = j
    BY <2>2, Fun_BijectionProperties, Zenon
  <2> DEFINE g == [i \in 1 .. maxConcurrent[b] |-> f[i]]
  <2>4. 1 .. maxConcurrent[b] \subseteq 1 .. n
    BY <1>2, <2>1 DEF n
  <2>5. /\ g \in [1 .. maxConcurrent[b] -> OnBackend(b)]
        /\ \A i, j \in 1 .. maxConcurrent[b] : g[i] = g[j] => i = j
    BY <2>3, <2>4
  <2>6. g \in Injection(1 .. maxConcurrent[b], OnBackend(b))
    BY <2>5, Fun_IsInj
  <2>7. QED
    BY <2>6
<1> DEFINE inj(b) == CHOOSE f : f \in Injection(1 .. maxConcurrent[b], OnBackend(b))
           h == [p \in Places(NumBackends) |-> inj(p[1])[p[2]]]
<1>4. \A b \in Backend : /\ inj(b) \in [1 .. maxConcurrent[b] -> OnBackend(b)]
                         /\ \A i, j \in 1 .. maxConcurrent[b] : inj(b)[i] = inj(b)[j] => i = j
  <2> SUFFICES ASSUME NEW b \in Backend
               PROVE  /\ inj(b) \in [1 .. maxConcurrent[b] -> OnBackend(b)]
                      /\ \A i, j \in 1 .. maxConcurrent[b] : inj(b)[i] = inj(b)[j] => i = j
    OBVIOUS
  <2>1. inj(b) \in Injection(1 .. maxConcurrent[b], OnBackend(b))
    BY <1>3
  <2>2. QED
    BY <2>1, Fun_InjectionProperties
<1> HIDE DEF inj
<1>5. \A p \in Places(NumBackends) :
        p[1] \in Backend /\ p[2] \in 1 .. maxConcurrent[p[1]] /\ p = <<p[1], p[2]>>
  BY <1>2 DEF Places
<1>6. ASSUME NEW p \in Places(NumBackends)
      PROVE  h[p] \in OnBackend(p[1])
  <2>1. h[p] = inj(p[1])[p[2]]
    OBVIOUS
  <2>2. QED
    BY <1>4, <1>5, <2>1
<1>7. h \in Injection(Places(NumBackends), On)
  <2>1. h \in [Places(NumBackends) -> On]
    BY <1>5, <1>6
  <2>2. ASSUME NEW p \in Places(NumBackends), NEW q \in Places(NumBackends), h[p] = h[q]
        PROVE  p = q
    <3>1. p[1] = q[1]
      BY <1>6, <2>2 DEF OnBackend
    <3>2. p[2] = q[2]
      BY <1>4, <1>5, <2>2, <3>1
    <3>3. QED
      BY <1>5, <3>1, <3>2
  <2> HIDE DEF h, On
  <2>3. QED
    BY <2>1, <2>2, Fun_IsInj
<1>8. On \in SUBSET (Holders \ {r}) /\ r \in Holders
  BY DEF RInv, SlotPaired, OnBackend, Holders
<1>9. IsFiniteSet(Holders) /\ Cardinality(Holders) \in Nat
  BY HoldersFinite DEF RInv, IInv
<1>10. /\ IsFiniteSet(Holders \ {r})
       /\ Cardinality(Holders \ {r}) = Cardinality(Holders) - 1
  BY <1>8, <1>9, FS_RemoveElement
<1> HIDE DEF h, On
<1>11. /\ IsFiniteSet(On) /\ Cardinality(On) \in Nat
       /\ Cardinality(On) <= Cardinality(Holders) - 1
  BY <1>8, <1>10, FS_Subset, FS_CardinalityType
<1>12. Total <= Cardinality(On)
  BY <1>7, <1>11, FS_Injection DEF Total
<1>13. Cardinality(Holders) = inflight /\ inflight <= Total
  BY GateAssumption DEF RInv, IInv, SlotsAccounted, Enabled, SteadyInv
<1>14. QED
  BY <1>9, <1>11, <1>12, <1>13, TotalPositive

\* In a steady system no step takes a backend down.
LEMMA StaysUp ==
  ASSUME Steady, \A b \in Backend : status[b] = "up", RTypeOK, [RNext]_rvars
  PROVE  \A b \in Backend : status'[b] = "up"
<1>1. CASE UNCHANGED status
  BY <1>1
<1>2. ASSUME NEW b \in Backend, NEW s \in HealthReports, HealthReport(b, s)
      PROVE  \A c \in Backend : status'[c] = "up"
  BY <1>2 DEF HealthReport, Steady, RTypeOK
<1>3. CASE UNCHANGED rvars
  BY <1>1, <1>3 DEF rvars, backendVars
<1>4. ASSUME NEW r \in Request, NEW in \in Inputs, Arrive(r, in)
      PROVE  UNCHANGED status
  BY <1>4 DEF Arrive, backendVars
<1>5. ASSUME NEW r \in Request,
             \/ SumLimit(r) \/ Visit(r) \/ Choose(r) \/ NoBackend(r) \/ ReadLimit(r)
             \/ Reserve(r) \/ ReserveFails(r) \/ Record(r) \/ Answer(r) \/ StreamStep(r)
      PROVE  UNCHANGED status
  BY <1>5 DEF SumLimit, Visit, Choose, NoBackend, ReadLimit, Reserve, ReserveFails,
              Record, Answer, ForwardFails, Forward, StreamStep, backendVars
<1>6. ASSUME NEW r \in Request,
             \/ CallAcquire(r) \/ InGate(r) \/ Admitted(r) \/ Refused(r) \/ CallRelease(r)
             \/ ClientDisconnects(r)
      PROVE  UNCHANGED status
  BY <1>6 DEF CallAcquire, InGate, Admitted, Refused, CallRelease, Done,
              ClientDisconnects, backendVars
<1>7. ASSUME NEW b \in Backend,
             \/ \E n \in AutoLimits : SetAutoConcurrent(b, n)
             \/ \E st \in ScrapedStates : SetState(b, st)
      PROVE  UNCHANGED status
  BY <1>7 DEF SetAutoConcurrent, SetState
<1>8. ASSUME NEW c \in Conversation, Expire(c)
      PROVE  UNCHANGED status
  BY <1>8 DEF Expire
<1>9. QED
  BY <1>1, <1>2, <1>3, <1>4, <1>5, <1>6, <1>7, <1>8, StreamEndsStep
     DEF RNext, Handle, Environment

\* A step that takes a request elsewhere than to TotalConcurrency, or to its
\* start, keeps the sums of the others.
LEMMA SummedKept ==
  ASSUME RTypeOK, SummedPlaces, NEW r \in Request, NEW s \in Stage, NEW k \in Nat, NEW n,
         stage' = [stage EXCEPT ![r] = s], scan' = [scan EXCEPT ![r] = k],
         sum' = [sum EXCEPT ![r] = n],
         s = "limit" => n = Cardinality(Places(k - 1))
  PROVE  SummedPlaces'
<1>1. \A x \in Request : /\ stage'[x] = IF x = r THEN s ELSE stage[x]
                         /\ scan'[x] = IF x = r THEN k ELSE scan[x]
                         /\ sum'[x] = IF x = r THEN n ELSE sum[x]
  BY DEF RTypeOK
<1>2. ASSUME NEW x \in Request, stage'[x] = "limit"
      PROVE  sum'[x] = Cardinality(Places(scan'[x] - 1))
  <2>1. CASE x = r
    BY <1>1, <1>2, <2>1
  <2>2. CASE x # r
    BY <1>1, <1>2, <2>2 DEF SummedPlaces
  <2>3. QED
    BY <2>1, <2>2
<1>3. QED
  BY <1>2 DEF SummedPlaces, Places

\* In a steady system a round of TotalConcurrency adds the backend's places.
LEMMA SumLimitSteady ==
  ASSUME RInv, Steady, \A b \in Backend : status[b] = "up", SummedPlaces,
         NEW r \in Request, SumLimit(r)
  PROVE  SummedPlaces'
<1> DEFINE b == scan[r]
           m == maxConcurrent[b]
<1>1. RTypeOK /\ b \in Backend
  BY LoopTypes DEF RInv, SumLimit, Backend
<1>2. m \in Nat /\ m > 0 /\ effectiveConcurrent(b) = m /\ status[b] = "up" /\ ~(m <= 0)
  BY <1>1, PoolAssumption DEF Steady, effectiveConcurrent
<1>3. /\ sum' = [sum EXCEPT ![r] = sum[r] + m] /\ scan' = [scan EXCEPT ![r] = b + 1]
      /\ stage' = [stage EXCEPT ![r] = "limit"]
  BY <1>1, <1>2 DEF SumLimit, RTypeOK
<1>4. sum[r] + m = Cardinality(Places(b))
  BY <1>1, PlacesGrow DEF SummedPlaces, SumLimit
<1>5. b + 1 \in Nat /\ (b + 1) - 1 = b /\ "limit" \in Stage
  BY <1>1, PoolAssumption DEF Backend, Stage
<1> HIDE DEF b, m
<1>6. QED
  BY <1>1, <1>3, <1>4, <1>5, SummedKept

\* Every step of a steady system keeps the sums.
LEMMA SummedStep ==
  ASSUME RInv, Steady, \A b \in Backend : status[b] = "up", SummedPlaces, [RNext]_rvars
  PROVE  SummedPlaces'
<1> USE DEF Goto
<1> RTypeOK
  BY DEF RInv
<1>1. ASSUME UNCHANGED <<stage, scan, sum>>
      PROVE  SummedPlaces'
  BY <1>1 DEF SummedPlaces, Places
<1>2. ASSUME NEW r \in Request, NEW s \in Stage \ {"limit"}, NEW k \in Nat, NEW n,
             stage' = [stage EXCEPT ![r] = s], scan' = [scan EXCEPT ![r] = k],
             sum' = [sum EXCEPT ![r] = n]
      PROVE  SummedPlaces'
  BY <1>2, SummedKept
<1>3. ASSUME NEW r \in Request, NEW s \in Stage \ {"limit"},
             stage' = [stage EXCEPT ![r] = s], UNCHANGED <<scan, sum>>
      PROVE  SummedPlaces'
  <2>1. /\ scan' = [scan EXCEPT ![r] = scan[r]] /\ sum' = [sum EXCEPT ![r] = sum[r]]
        /\ scan[r] \in Nat /\ sum[r] \in Nat
    BY <1>3, LoopTypes DEF RTypeOK
  <2>2. PICK k \in Nat, n \in Nat : k = scan[r] /\ n = sum[r]
    BY <2>1
  <2>3. stage' = [stage EXCEPT ![r] = s]
    BY <1>3
  <2>4. QED
    BY <1>2, <2>1, <2>2, <2>3
<1>4. ASSUME NEW r \in Request, NEW in \in Inputs, Arrive(r, in)
      PROVE  SummedPlaces'
  <2>1. sum[r] = 0 /\ scan[r] = 1 /\ 1 - 1 = 0
    BY <1>4 DEF Arrive, RInv, SumSoFar
  <2>2. /\ stage' = [stage EXCEPT ![r] = "limit"] /\ scan' = [scan EXCEPT ![r] = 1]
        /\ sum' = [sum EXCEPT ![r] = 0]
    BY <1>4, <2>1 DEF Arrive, RTypeOK
  <2>3. 0 = Cardinality(Places(1 - 1)) /\ "limit" \in Stage
    BY <2>1, PlacesFinite DEF Stage
  <2>4. QED
    BY <2>2, <2>3, SummedKept
<1>5. ASSUME NEW r \in Request, CallAcquire(r)
      PROVE  SummedPlaces'
  BY <1>2, <1>5 DEF CallAcquire, Stage
<1>6. ASSUME NEW r \in Request, InGate(r) \/ ClientDisconnects(r)
      PROVE  SummedPlaces'
  BY <1>1, <1>6 DEF InGate, ClientDisconnects, requestVars
<1>7. ASSUME NEW r \in Request, Admitted(r)
      PROVE  SummedPlaces'
  BY <1>3, <1>7 DEF Admitted, Stage
<1>8. ASSUME NEW r \in Request, Refused(r) \/ CallRelease(r)
      PROVE  SummedPlaces'
  BY <1>3, <1>8 DEF Refused, CallRelease, Done, Stage
<1>9. ASSUME NEW r \in Request, Visit(r)
      PROVE  SummedPlaces'
  <2>1. /\ stage' = [stage EXCEPT ![r] = "pick"] /\ scan' = [scan EXCEPT ![r] = scan[r] + 1]
        /\ sum' = [sum EXCEPT ![r] = sum[r]] /\ scan[r] + 1 \in Nat
    BY <1>9, LoopTypes DEF Visit, RTypeOK
  <2>2. QED
    BY <1>2, <2>1 DEF Stage
<1>10. ASSUME NEW r \in Request, Choose(r) \/ NoBackend(r)
       PROVE  SummedPlaces'
  <2>1. PICK s \in {"reserve", "leaving"} :
          /\ stage' = [stage EXCEPT ![r] = s] /\ scan' = [scan EXCEPT ![r] = 1]
          /\ sum' = [sum EXCEPT ![r] = sum[r]]
    BY <1>10 DEF Choose, NoBackend, Visited, RTypeOK
  <2>2. QED
    BY <1>2, <2>1 DEF Stage
<1>11. ASSUME NEW r \in Request, ReadLimit(r) \/ Reserve(r) \/ ReserveFails(r) \/ Record(r)
       PROVE  SummedPlaces'
  BY <1>3, <1>11 DEF ReadLimit, Reserve, ReserveFails, Record, Stage
<1>12. ASSUME NEW r \in Request, Answer(r) \/ StreamStep(r)
       PROVE  SummedPlaces'
  BY <1>3, <1>12 DEF Answer, Forward, ForwardFails, RetryUnlessGone, StreamStep, Stage
<1>13. ASSUME NEW r \in Request, SumLimit(r)
       PROVE  SummedPlaces'
  BY <1>13, SumLimitSteady
<1>14. CASE Environment
  BY <1>1, <1>14
     DEF Environment, HealthReport, SetAutoConcurrent, SetState, Expire, requestVars
<1>15. CASE UNCHANGED rvars
  BY <1>1, <1>15 DEF rvars, requestVars
<1>16. QED
  BY <1>4, <1>5, <1>6, <1>7, <1>8, <1>9, <1>10, <1>11, <1>12, <1>13, <1>14, <1>15,
     StreamEndsStep DEF RNext, Handle

\* In a steady system Acquire is called with the number of places.
LEMMA ReadTotalStep ==
  ASSUME RInv, SteadyInv, Steady, [RNext]_rvars
  PROVE  ReadTotal'
<1> RTypeOK /\ TypeOK /\ ReadTotal /\ SummedPlaces
  BY DEF RInv, IInv, SteadyInv
<1>1. ASSUME UNCHANGED vars
      PROVE  ReadTotal'
  BY <1>1 DEF ReadTotal, vars, Total, Places
<1>2. ASSUME NEW r \in Request, CallAcquire(r)
      PROVE  ReadTotal'
  <2> DEFINE n == LimitOf(sum[r])
  <2>1. n = Total
    <3>1. sum[r] = Total
      <4>1. scan[r] - 1 = NumBackends /\ stage[r] = "limit"
        BY <1>2, PoolAssumption DEF CallAcquire
      <4>2. QED
        BY <4>1 DEF SummedPlaces, Total
    <3>2. QED
      BY <3>1, TotalPositive DEF LimitOf
  <2>2. ~(n <= 0)
    BY LimitPositive
  <2>3. pc' = [pc EXCEPT ![r] = "lock"] /\ lim' = [lim EXCEPT ![r] = n]
    BY <1>2, <2>2 DEF CallAcquire, Acquire
  <2> HIDE DEF n
  <2>4. \A x \in Request : pc'[x] = "lock" => lim'[x] = Total
    BY <2>1, <2>3 DEF TypeOK, ReadTotal
  <2>5. QED
    BY <2>4 DEF ReadTotal, Total, Places
<1>3. ASSUME NEW r \in Request,
             NEW to \in {"idle", "holding", "waiting", "cancelling", "returning"},
             pc' = [pc EXCEPT ![r] = to],
             lim' = lim \/ lim' = [lim EXCEPT ![r] = 0]
      PROVE  ReadTotal'
  <2>1. \A x \in Request : pc'[x] = "lock" => lim'[x] = Total
    BY <1>3 DEF TypeOK, ReadTotal
  <2>2. QED
    BY <2>1 DEF ReadTotal, Total, Places
<1>4. ASSUME NEW r \in Request, InGate(r) \/ Admitted(r)
      PROVE  ReadTotal'
  BY <1>3, <1>4
     DEF InGate, Admitted, Enqueue, CtxDone, CancelWoken, Admit, Woken, Return
<1>5. ASSUME NEW r \in Request, Refused(r) \/ CallRelease(r)
      PROVE  ReadTotal'
  BY <1>3, <1>5 DEF Refused, CallRelease, Reject, CancelRemove, Release, Leave, Return
<1>6. ASSUME NEW r \in Request, ClientDisconnects(r)
      PROVE  ReadTotal'
  BY <1>6 DEF ClientDisconnects, Disconnect, ReadTotal, Total, Places
<1>7. ASSUME NEW r \in Request, NEW in \in Inputs, Arrive(r, in)
      PROVE  ReadTotal'
  BY <1>1, <1>7 DEF Arrive
<1>8. ASSUME NEW r \in Request,
             \/ SumLimit(r) \/ Visit(r) \/ Choose(r) \/ NoBackend(r) \/ ReadLimit(r)
             \/ Reserve(r) \/ ReserveFails(r) \/ Record(r) \/ Answer(r) \/ StreamStep(r)
      PROVE  ReadTotal'
  BY <1>1, <1>8 DEF SumLimit, Visit, Choose, NoBackend, ReadLimit, Reserve, ReserveFails,
                    Record, Answer, ForwardFails, Forward, StreamStep
<1>9. CASE Environment
  BY <1>1, <1>9 DEF Environment, HealthReport, SetAutoConcurrent, SetState, Expire
<1>10. CASE UNCHANGED rvars
  BY <1>1, <1>10 DEF rvars
<1>11. QED
  BY <1>2, <1>4, <1>5, <1>6, <1>7, <1>8, <1>9, <1>10, StreamEndsStep DEF RNext, Handle

\* Requests that read the same limit keep to it.
LEMMA InflightStep ==
  ASSUME TypeOK, ReadTotal, Total \in Nat, inflight <= Total, [Next]_vars
  PROVE  inflight' <= Total
<1>1. inflight \in Nat
  BY DEF TypeOK
<1>2. CASE UNCHANGED inflight
  BY <1>2
<1>3. ASSUME NEW r \in Request, Admit(r)
      PROVE  inflight' <= Total
  BY <1>1, <1>3 DEF Admit, FastPath, ReadTotal
<1>4. ASSUME NEW r \in Request, NEW l \in limit, Release(r, l)
      PROVE  inflight' <= Total
  BY <1>1, <1>4 DEF Release, ReturnSlotIfEnabled, ReturnSlot, HandOff, Free
<1>5. ASSUME NEW r \in Request,
             \/ \E p \in Priority, l \in limit : Acquire(r, p, l)
             \/ Reject(r) \/ Enqueue(r) \/ Woken(r) \/ CtxDone(r) \/ CancelWoken(r)
             \/ CancelRemove(r) \/ Disconnect(r)
      PROVE  UNCHANGED inflight
  BY <1>5 DEF Acquire, Reject, Enqueue, Woken, CtxDone, CancelWoken, CancelRemove, Disconnect
<1>6. CASE UNCHANGED vars
  BY <1>2, <1>6 DEF vars
<1>7. QED
  BY <1>2, <1>3, <1>4, <1>5, <1>6 DEF Next, Step

\* A steady system starts and stays steady.
LEMMA RInitSteady == ASSUME RInit PROVE SteadyInv
<1> SUFFICES ASSUME Steady PROVE SteadyInv
  BY DEF SteadyInv
<1>1. \A b \in Backend : status[b] = "up"
  BY DEF RInit, Steady
<1>2. SummedPlaces
  BY DEF RInit, SummedPlaces
<1>3. ReadTotal
  BY DEF RInit, Init, ReadTotal
<1>4. inflight <= Total
  BY TotalPositive DEF RInit, Init
<1>5. QED
  BY <1>1, <1>2, <1>3, <1>4 DEF SteadyInv

\* Every step of a steady system keeps its invariant.
LEMMA RNextSteady == ASSUME RInv, SteadyInv, [RNext]_rvars PROVE SteadyInv'
<1>1. CASE ~Steady
  <2>1. ~Steady'
    BY <1>1 DEF Steady, Backend
  <2>2. QED
    BY <2>1 DEF SteadyInv
<1>2. CASE Steady
  <2>1. \A b \in Backend : status'[b] = "up"
    BY <1>2, StaysUp DEF RInv, SteadyInv
  <2>2. SummedPlaces'
    BY <1>2, SummedStep DEF SteadyInv
  <2>3. ReadTotal'
    BY <1>2, ReadTotalStep
  <2>4. inflight' <= Total
    <3>1. [Next]_vars
      BY GateStep DEF RInv
    <3>2. TypeOK /\ ReadTotal /\ inflight <= Total /\ Total \in Nat
      BY <1>2, TotalPositive DEF RInv, IInv, SteadyInv
    <3>3. QED
      BY <3>1, <3>2, InflightStep
  <2>5. Total' = Total /\ Backend' = Backend
    BY DEF Total, Places, Backend
  <2>6. QED
    BY <2>1, <2>2, <2>3, <2>4, <2>5 DEF SteadyInv
<1>3. QED
  BY <1>1, <1>2

\* "never admitting past real capacity" (main.go:48): with limits from the
\* configuration and every backend up, a request that got through the gate
\* always finds a backend below its limit while it looks for one.
THEOREM RouterAdmittedFits == RSpec => []AdmittedFits
<1>1. RInit => SteadyInv
  BY RInitSteady
<1>2. RInv /\ SteadyInv /\ [RNext]_rvars => SteadyInv'
  BY RNextSteady
<1>3. RInv /\ SteadyInv => AdmittedFits
  BY SomePlaceLeft DEF AdmittedFits
<1>4. QED
  BY <1>1, <1>2, <1>3, RouterInvariant, PTL DEF RSpec

-----------------------------------------------------------------------------
(***************************************************************************)
(* Handlers advance: the rank behind AdmittedReturns.  The retry loop of   *)
(* ServeHTTP picks each backend at most once, so a handler past the gate   *)
(* has at most (NumBackends + 1) * (NumBackends + 4) steps left, whatever  *)
(* the other requests and the environment do between them.                 *)
(***************************************************************************)
PastGate == {"pick", "reserve", "cas", "forward", "stream", "record", "leaving"}

\* One attempt visits every backend, picks, reads the limit, reserves, forwards.
Attempts(r) == (NumBackends - Cardinality(tried[r])) * (NumBackends + 4)

\* A bound on the steps a handler has left.
Rank(r) ==
  CASE stage[r] = "pick"    -> Attempts(r) + NumBackends + 5 - scan[r]
    [] stage[r] = "reserve" -> Attempts(r) + NumBackends + 7
    [] stage[r] = "cas"     -> Attempts(r) + NumBackends + 6
    [] stage[r] = "forward" -> Attempts(r) + NumBackends + 5
    [] stage[r] = "stream"  -> 3
    [] stage[r] = "record"  -> 2
    [] stage[r] = "leaving" -> 1
    [] OTHER                -> 0

Rests(r) == stage'[r] = stage[r] /\ scan'[r] = scan[r] /\ tried'[r] = tried[r]
Advances(r) == stage[r] \in PastGate => Rests(r) \/ Rank(r)' \in 0 .. Rank(r) - 1

\* Every step leaves a handler past the gate where it is or brings it closer to
\* its end: no sequence of lost races, failed forwards and changes of health
\* makes it retry for ever (proxy.go:76-107).
HandlerAdvances == [][\A r \in Request : Advances(r)]_rvars

\* The attempts that are left after any set of backends are a number.
LEMMA AttemptsType ==
  ASSUME NEW S \in SUBSET Backend
  PROVE  /\ IsFiniteSet(S) /\ Cardinality(S) \in 0 .. NumBackends
         /\ (NumBackends - Cardinality(S)) * (NumBackends + 4) \in Nat
<1>1. NumBackends \in Nat
  BY PoolAssumption
<1>2. IsFiniteSet(1 .. NumBackends) /\ Cardinality(1 .. NumBackends) = NumBackends
  <2>1. IsFiniteSet(1 .. NumBackends) /\ Cardinality(1 .. NumBackends) =
          IF 1 > NumBackends THEN 0 ELSE NumBackends - 1 + 1
    BY <1>1, FS_Interval
  <2>2. QED
    BY <1>1, <2>1
<1>3. IsFiniteSet(S) /\ Cardinality(S) <= NumBackends /\ Cardinality(S) \in Nat
  BY <1>2, FS_Subset, FS_CardinalityType DEF Backend
<1>4. ASSUME NEW k \in Nat, NEW m \in Nat PROVE k * m \in Nat
  BY <1>4, SMT
<1>5. NumBackends - Cardinality(S) \in Nat /\ NumBackends + 4 \in Nat
  BY <1>1, <1>3
<1>6. QED
  BY <1>1, <1>3, <1>4, <1>5

\* A backend that is picked has not been tried: an attempt is used up.
LEMMA AttemptUsed ==
  ASSUME RTypeOK, NEW r \in Request, Choose(r)
  PROVE  Attempts(r)' = Attempts(r) - (NumBackends + 4)
<1>1. PICK b \in candidates[r] \ tried[r] : tried' = [tried EXCEPT ![r] = @ \cup {b}]
  BY DEF Choose, Picks, Sticky, Untried
<1>2. tried'[r] = tried[r] \cup {b}
  BY <1>1 DEF RTypeOK
<1>3. Cardinality(tried'[r]) = Cardinality(tried[r]) + 1
  BY <1>1, <1>2, AttemptsType, FS_AddElement DEF RTypeOK
<1>4. ASSUME NEW n \in Nat, NEW k \in Nat
      PROVE  (n - (k + 1)) * (n + 4) = (n - k) * (n + 4) - (n + 4)
  BY <1>4, SMT
<1>5. QED
  <2>1. Cardinality(tried[r]) \in Nat /\ NumBackends \in Nat
    BY AttemptsType, LoopTypes DEF RTypeOK
  <2>2. QED
    BY <1>3, <1>4, <2>1 DEF Attempts

\* A step of one handler that brings it closer to its end lets the others rest.
LEMMA AdvanceStep ==
  ASSUME NEW r \in Request, Advances(r), \A x \in Request \ {r} : Rests(x)
  PROVE  \A x \in Request : Advances(x)
  BY DEF Advances

\* Every step brings a handler closer to its end, or lets it rest.
LEMMA RNextAdvances ==
  ASSUME RInv, [RNext]_rvars
  PROVE  \A r \in Request : Advances(r)
<1> USE DEF Goto
<1> /\ RTypeOK /\ SumSoFar /\ RTypeOK' /\ SumSoFar'
    /\ NumBackends \in Nat
  BY RNextType, LoopTypes DEF RInv
<1> DEFINE Numbers(r) == /\ Attempts(r) \in Nat /\ Attempts(r)' \in Nat
                         /\ scan[r] \in 1 .. NumBackends + 1
<1>1. \A r \in Request : Numbers(r)
  <2>1. SUFFICES ASSUME NEW r \in Request PROVE Numbers(r)
    OBVIOUS
  <2>2. Attempts(r) \in Nat /\ Attempts(r)' \in Nat
    BY AttemptsType DEF RTypeOK, Attempts
  <2>3. QED
    BY <2>2 DEF RTypeOK
<1> HIDE DEF Numbers
<1>2. ASSUME UNCHANGED <<stage, scan, tried>>
      PROVE  \A r \in Request : Advances(r)
  BY <1>2 DEF Advances, Rests
<1>3. ASSUME NEW r \in Request, stage[r] \notin PastGate,
             \A x \in Request \ {r} : Rests(x)
      PROVE  \A x \in Request : Advances(x)
  BY <1>3, AdvanceStep DEF Advances
<1> USE DEF RTypeOK
<1>4. ASSUME NEW r \in Request, Visit(r)
      PROVE  \A x \in Request : Advances(x)
  <2>1. /\ stage[r] = "pick" /\ stage'[r] = "pick" /\ scan'[r] = scan[r] + 1
        /\ tried'[r] = tried[r] /\ scan[r] <= NumBackends
        /\ \A x \in Request \ {r} : Rests(x)
    BY <1>4 DEF Visit, Rests
  <2>2. Attempts(r)' = Attempts(r)
    BY <2>1 DEF Attempts
  <2>3. Rank(r)' \in 0 .. Rank(r) - 1
    BY <1>1, <2>1, <2>2 DEF Rank, Numbers
  <2>4. QED
    BY <2>1, <2>3, AdvanceStep DEF Advances
<1>5. ASSUME NEW r \in Request, Choose(r)
      PROVE  \A x \in Request : Advances(x)
  <2>1. /\ stage[r] = "pick" /\ stage'[r] = "reserve" /\ scan[r] = NumBackends + 1
        /\ \A x \in Request \ {r} : Rests(x)
    BY <1>5 DEF Choose, Visited, Rests
  <2>2. Attempts(r)' = Attempts(r) - (NumBackends + 4)
    BY <1>5, AttemptUsed
  <2>3. Rank(r)' \in 0 .. Rank(r) - 1
    BY <1>1, <2>1, <2>2 DEF Rank, Numbers
  <2>4. QED
    BY <2>1, <2>3, AdvanceStep DEF Advances
<1>6. ASSUME NEW r \in Request, NoBackend(r)
      PROVE  \A x \in Request : Advances(x)
  <2>1. /\ stage[r] = "pick" /\ stage'[r] = "leaving"
        /\ \A x \in Request \ {r} : Rests(x)
    BY <1>6 DEF NoBackend, Visited, Rests
  <2>2. Rank(r)' \in 0 .. Rank(r) - 1
    BY <1>1, <2>1 DEF Rank, Numbers
  <2>3. QED
    BY <2>1, <2>2, AdvanceStep DEF Advances
<1>7. ASSUME NEW r \in Request, ReadLimit(r) \/ Reserve(r)
      PROVE  \A x \in Request : Advances(x)
  <2>1. /\ \/ stage[r] = "reserve" /\ stage'[r] = "cas"
           \/ stage[r] = "cas" /\ stage'[r] = "forward"
        /\ tried'[r] = tried[r]
        /\ \A x \in Request \ {r} : Rests(x)
    BY <1>7 DEF ReadLimit, Reserve, Rests
  <2>2. Attempts(r)' = Attempts(r)
    BY <2>1 DEF Attempts
  <2>3. Rank(r)' \in 0 .. Rank(r) - 1
    BY <1>1, <2>1, <2>2 DEF Rank, Numbers
  <2>4. QED
    BY <2>1, <2>3, AdvanceStep DEF Advances
<1>8. ASSUME NEW r \in Request, ReserveFails(r)
      PROVE  \A x \in Request : Advances(x)
  <2>1. /\ stage[r] = "cas" /\ stage'[r] = "pick" /\ scan'[r] = 1
        /\ tried'[r] = tried[r]
        /\ \A x \in Request \ {r} : Rests(x)
    BY <1>8 DEF ReserveFails, Rests, SumSoFar
  <2>2. Attempts(r)' = Attempts(r)
    BY <2>1 DEF Attempts
  <2>3. Rank(r)' \in 0 .. Rank(r) - 1
    BY <1>1, <2>1, <2>2 DEF Rank, Numbers
  <2>4. QED
    BY <2>1, <2>3, AdvanceStep DEF Advances
<1>9. ASSUME NEW r \in Request, ForwardFails(r)
      PROVE  \A x \in Request : Advances(x)
  <2>1. /\ stage[r] = "forward"
        /\ \/ stage'[r] = "leaving"
           \/ stage'[r] = "pick" /\ scan'[r] = 1 /\ tried'[r] = tried[r]
        /\ \A x \in Request \ {r} : Rests(x)
    BY <1>9 DEF ForwardFails, RetryUnlessGone, Rests, SumSoFar
  <2>2. stage'[r] = "pick" => Attempts(r)' = Attempts(r)
    BY <2>1 DEF Attempts
  <2>3. Rank(r)' \in 0 .. Rank(r) - 1
    BY <1>1, <2>1, <2>2 DEF Rank, Numbers
  <2>4. QED
    BY <2>1, <2>3, AdvanceStep DEF Advances
<1>10. ASSUME NEW r \in Request,
              \/ \E a \in {"ok", "error"} : Forward(r, a)
              \/ StreamStep(r) \/ Record(r) \/ CallRelease(r)
       PROVE  \A x \in Request : Advances(x)
  <2>1. /\ \/ stage[r] = "forward" /\ stage'[r] = "stream"
           \/ stage[r] = "stream" /\ stage'[r] = "record"
           \/ stage[r] = "record" /\ stage'[r] = "leaving"
           \/ stage[r] = "leaving" /\ stage'[r] = "idle"
        /\ \A x \in Request \ {r} : Rests(x)
    BY <1>10 DEF Forward, StreamStep, Record, CallRelease, Done, Rests
  <2>2. Rank(r)' \in 0 .. Rank(r) - 1
    BY <1>1, <2>1 DEF Rank, Numbers
  <2>3. QED
    BY <2>1, <2>2, AdvanceStep DEF Advances
<1>11. ASSUME NEW r \in Request,
              \/ \E in \in Inputs : Arrive(r, in)
              \/ SumLimit(r) \/ CallAcquire(r) \/ Admitted(r) \/ Refused(r)
       PROVE  \A x \in Request : Advances(x)
  <2>1. stage[r] \notin PastGate /\ \A x \in Request \ {r} : Rests(x)
    BY <1>11 DEF Arrive, SumLimit, CallAcquire, Admitted, Refused, Done, Rests, PastGate
  <2>2. QED
    BY <1>3, <2>1
<1>12. ASSUME NEW r \in Request, InGate(r) \/ ClientDisconnects(r)
       PROVE  \A x \in Request : Advances(x)
  BY <1>2, <1>12 DEF InGate, ClientDisconnects, requestVars
<1>13. CASE Environment
  BY <1>2, <1>13
     DEF Environment, HealthReport, SetAutoConcurrent, SetState, Expire, requestVars
<1>14. CASE UNCHANGED rvars
  BY <1>2, <1>14 DEF rvars, requestVars
<1>15. QED
  BY <1>4, <1>5, <1>6, <1>7, <1>8, <1>9, <1>10, <1>11, <1>12, <1>13, <1>14,
     StreamEndsStep DEF RNext, Handle, Answer

\* A handler past the gate runs out of attempts: the safety half of
\* AdmittedReturns, for any number of requests and backends (proxy.go:76-107).
THEOREM RouterHandlerAdvances == RSpec => HandlerAdvances
<1>1. RInv /\ [RNext]_rvars => [\A r \in Request : Advances(r)]_rvars
  BY RNextAdvances
<1>2. QED
  BY <1>1, RouterInvariant, PTL DEF RSpec, HandlerAdvances

-----------------------------------------------------------------------------
(***************************************************************************)
(* The process around the router: it takes steps of the router only, so    *)
(* the router's invariant holds of it, and in a stopped process no request *)
(* is in its handler.                                                      *)
(***************************************************************************)

\* A process that has drained stays that way.
Quiet == phase = "stopped" => \A r \in Request : stage[r] = "idle"

LInv == RInv /\ Quiet

\* A step of the process is a step of the router or leaves it alone.
LEMMA RouterStep == ASSUME [LNext]_lvars PROVE [RNext]_rvars
  BY DEF LNext, Run, Signal, Drained, Exit, lvars

\* No handler runs once the drain is over.
LEMMA LNextQuiet == ASSUME Quiet, [LNext]_lvars PROVE Quiet'
<1>1. CASE Run(RNext)
  BY <1>1 DEF Run, Running, Quiet
<1>2. CASE Signal
  BY <1>2 DEF Signal, Quiet
<1>3. CASE Drained
  BY <1>3 DEF Drained, Quiet, rvars, requestVars
<1>4. CASE Exit
  BY <1>4 DEF Exit, Quiet
<1>5. CASE UNCHANGED lvars
  BY <1>5 DEF lvars, rvars, requestVars, Quiet
<1>6. QED
  BY <1>1, <1>2, <1>3, <1>4, <1>5 DEF LNext

\* Nothing is left in the gate or on a backend when no handler runs.
LEMMA QuietIsClean ==
  ASSUME RInv, \A r \in Request : stage[r] = "idle"
  PROVE  /\ inflight = 0 /\ totalQueued = 0
         /\ \A b \in Backend : binflight[b] = 0
<1>1. \A r \in Request : pc[r] = "idle"
  BY DEF RInv, SlotPaired
<1>2. ready = {}
  BY <1>1 DEF RInv, IInv, TypeOK, ReadyWaits
<1>3. Holders = {}
  BY <1>1, <1>2 DEF Holders
<1>4. inflight = 0
  BY <1>3, GateAssumption, FS_EmptySet DEF RInv, IInv, SlotsAccounted, Enabled
<1>5. \A p \in Priority : queues[p] \in Seq(Request) /\ Len(queues[p]) = 0
  <2> SUFFICES ASSUME NEW p \in Priority
               PROVE  queues[p] \in Seq(Request) /\ Len(queues[p]) = 0
    OBVIOUS
  <2>1. queues[p] \in Seq(Request) /\ Len(queues[p]) \in Nat
    BY DEF RInv, IInv, TypeOK
  <2>2. ASSUME Len(queues[p]) # 0
        PROVE  FALSE
    <3>1. 1 \in 1 .. Len(queues[p])
      BY <2>1, <2>2
    <3>2. queues[p][1] \in Request /\ Unwoken(queues[p][1])
      BY <2>1, <3>1 DEF RInv, IInv, QueueDiscipline
    <3>3. QED
      BY <1>1, <3>2 DEF Unwoken
  <2>3. QED
    BY <2>1, <2>2
<1>6. totalQueued = 0
  <2>1. Len(queues[0]) = 0 /\ Len(queues[1]) = 0 /\ Len(queues[2]) = 0
    BY <1>5, Tiers
  <2>2. QED
    BY <2>1 DEF totalQueued
<1>7. \A b \in Backend : OnBackend(b) = {}
  BY DEF OnBackend
<1>8. \A b \in Backend : binflight[b] = 0
  BY <1>7, FS_EmptySet DEF RInv, BackendSlots
<1>9. QED
  BY <1>4, <1>6, <1>8

\* The router's invariant holds of the process, whatever the signals do.
THEOREM LifecycleInvariant == LInit /\ [][LNext]_lvars => []LInv
<1>1. LInit => LInv
  BY RInitInv DEF LInit, LInv, Quiet
<1>2. LInv /\ [LNext]_lvars => LInv'
  BY RouterStep, RNextInv, LNextQuiet DEF LInv
<1>3. QED
  BY <1>1, <1>2, PTL

\* "admission gate always settled to 0" (README.md:219): when the drain ends in
\* time, no slot of the gate or of a backend has leaked, and nobody waits.
THEOREM LifecycleCleanStop == LSpec => []CleanStop
<1>1. LInv => CleanStop
  BY QuietIsClean DEF LInv, Quiet, CleanStop
<1>2. QED
  BY <1>1, LifecycleInvariant, PTL DEF LSpec

\* Signals, the drain and the exit are no steps of the router: the process
\* refines Router, and all that RouterProofs shows holds of it.
THEOREM LifecycleImplementsRouter == LSpec => RSpec
<1>1. LInit => RInit
  BY DEF LInit
<1>2. [LNext]_lvars => [RNext]_rvars
  BY RouterStep
<1>3. QED
  BY <1>1, <1>2, PTL DEF LSpec, RSpec

=============================================================================

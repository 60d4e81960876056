------------------------ MODULE UsageMeteringProofs ------------------------
(***************************************************************************)
(* Proofs about UsageMetering for any finite set of requests, any          *)
(* workspaces, stages, limits and bounds.                                  *)
(***************************************************************************)
EXTENDS UsageMetering, FiniteSetTheorems, TLAPS

-----------------------------------------------------------------------------
(* What a step does to the types, request by request.                      *)

LEMMA UnexpiredType ==
  ASSUME UsageTypeOK, NEW t
  PROVE  Unexpired(t) \in [Request -> [Allowance -> Status]]
BY DEF UsageTypeOK, Unexpired, Status

LEMMA SettledType ==
  ASSUME UsageTypeOK, NEW r \in Request, NEW status \in Status
  PROVE  Settled(r, status) \in [Request -> [Allowance -> Status]]
BY DEF UsageTypeOK, Settled

LEMMA InitType == Init => UsageTypeOK
BY UsageAssumption DEF Init, UsageTypeOK, UsageAssumption, Place, Status

LEMMA ArriveType ==
  ASSUME UsageTypeOK, NEW r \in Request, NEW s \in Stage \cup {Autonomous}, NEW w \in Workspace,
         Arrive(r, s, w)
  PROVE  UsageTypeOK'
<1>1. pc' \in [Request -> Place]
  BY DEF UsageTypeOK, Arrive, Moves, Place
<1>2. stage' \in [Request -> Stage \cup {Autonomous}] /\ workspace' \in [Request -> Workspace]
  BY DEF UsageTypeOK, Arrive
<1>3. arrived' \in [Request -> 0 .. MaxTime]
  BY DEF UsageTypeOK, Arrive
<1>4. \A q \in Request : claim'[q] = "RUNNING" => stage'[q] # Autonomous /\ pc'[q] \in {"working", "dead"}
  BY DEF UsageTypeOK, Arrive, Moves, action
<1>5. QED
  BY <1>1, <1>2, <1>3, <1>4 DEF UsageTypeOK, Arrive, action

LEMMA ReserveType ==
  ASSUME UsageTypeOK, NEW r \in Request, Reserve(r)
  PROVE  /\ row' \in [Request -> [Allowance -> Status]]
         /\ unit' \in [Request -> [Allowance -> Request]]
<1> DEFINE rows == Unexpired(arrived[r])
           live(l) == LiveByKey(rows, workspace[r], l)
           new == {l \in Needs(r) : live(l) = {}}
<1>1. /\ row' = [rows EXCEPT ![r] = [l \in Allowance |-> IF l \in new THEN "RESERVED" ELSE @[l]]]
      /\ unit' = [unit EXCEPT ![r] = [l \in Allowance |->
                    IF l \in Needs(r) \ new THEN CHOOSE q \in live(l) : TRUE ELSE r]]
  BY DEF Reserve
<1>2. rows \in [Request -> [Allowance -> Status]]
  BY UnexpiredType
<1>3. \A l \in Needs(r) \ new : (CHOOSE q \in live(l) : TRUE) \in Request
  BY DEF LiveByKey
<1> HIDE DEF rows, live, new
<1>4. row' \in [Request -> [Allowance -> Status]]
  BY <1>1, <1>2 DEF Status
<1>5. unit' \in [Request -> [Allowance -> Request]]
  BY <1>1, <1>3 DEF UsageTypeOK
<1>6. QED
  BY <1>4, <1>5

LEMMA ClaimType ==
  ASSUME UsageTypeOK, NEW r \in Request, Claim(r)
  PROVE  /\ claim' \in [Request -> {"NONE", "RUNNING", "SUCCEEDED", "FAILED", "ABANDONED"}]
         /\ claimed' \in [Request -> 0 .. MaxTime]
         /\ finished' \in [Request -> 0 .. MaxTime]
         /\ \A q \in Request : q # r /\ claim'[q] = "RUNNING" => claim[q] = "RUNNING"
BY DEF UsageTypeOK, Claim

LEMMA AdmitType ==
  ASSUME UsageTypeOK, NEW r \in Request, Admit(r)
  PROVE  UsageTypeOK'
<1>1. pc' \in [Request -> Place] /\ pc' = [pc EXCEPT ![r] = "working"]
  BY DEF UsageTypeOK, Admit, Moves, Place
<1>2. /\ claim' \in [Request -> {"NONE", "RUNNING", "SUCCEEDED", "FAILED", "ABANDONED"}]
      /\ claimed' \in [Request -> 0 .. MaxTime]
      /\ finished' \in [Request -> 0 .. MaxTime]
      /\ \A q \in Request : claim'[q] = "RUNNING" =>
           IF q = r THEN stage[r] # Autonomous ELSE claim[q] = "RUNNING"
  BY ClaimType DEF Admit, UsageTypeOK, action
<1>3. row' \in [Request -> [Allowance -> Status]] /\ unit' \in [Request -> [Allowance -> Request]]
  BY ReserveType DEF Admit
<1>4. QED
  BY <1>1, <1>2, <1>3 DEF UsageTypeOK, Admit, request

LEMMA FinishType ==
  ASSUME UsageTypeOK, NEW r \in Request, NEW status \in {"SUCCEEDED", "FAILED"}, FinishAction(r, status)
  PROVE  /\ claim' \in [Request -> {"NONE", "RUNNING", "SUCCEEDED", "FAILED", "ABANDONED"}]
         /\ claimed' \in [Request -> 0 .. MaxTime]
         /\ finished' \in [Request -> 0 .. MaxTime]
         /\ \A q \in Request : claim'[q] = "RUNNING" => claim[q] = "RUNNING" /\ q # r
BY DEF UsageTypeOK, FinishAction, action

LEMMA SettleType ==
  ASSUME UsageTypeOK, NEW r \in Request, SettleFailure(r) \/ Unreserve(r) \/ SettleSuccess(r)
  PROVE  UsageTypeOK'
<1>1. /\ pc' \in [Request -> Place]
      /\ \A q \in Request : q # r => pc'[q] = pc[q]
  BY DEF UsageTypeOK, SettleFailure, Unreserve, SettleSuccess, Moves, Place
<1>2. row' \in [Request -> [Allowance -> Status]]
  BY SettledType DEF SettleFailure, Unreserve, SettleSuccess, Status
<1>3. /\ claim' \in [Request -> {"NONE", "RUNNING", "SUCCEEDED", "FAILED", "ABANDONED"}]
      /\ claimed' \in [Request -> 0 .. MaxTime]
      /\ finished' \in [Request -> 0 .. MaxTime]
      /\ \A q \in Request : claim'[q] = "RUNNING" => claim[q] = "RUNNING" /\ q # r
  BY FinishType DEF SettleFailure, Unreserve, SettleSuccess, UsageTypeOK, action
<1>4. QED
  BY <1>1, <1>2, <1>3 DEF UsageTypeOK, SettleFailure, Unreserve, SettleSuccess, request

LEMMA TypeStep ==
  ASSUME UsageTypeOK, [Next]_vars
  PROVE  UsageTypeOK'
<1>1. ASSUME NEW r \in Request, Refuse(r) \/ Die(r) \/ Keep(r)
      PROVE  UsageTypeOK'
  <2>1. CASE Refuse(r) \/ Die(r)
    BY <2>1 DEF UsageTypeOK, Refuse, Die, Moves, Place, request, action
  <2>2. CASE Keep(r)
    BY <2>2 DEF UsageTypeOK, Keep, request, action
  <2>3. QED
    BY <1>1, <2>1, <2>2
<1>2. CASE SweepExpired
  BY <1>2, UnexpiredType DEF UsageTypeOK, SweepExpired, request, action
<1>3. CASE Time
  BY <1>3, UsageAssumption DEF UsageTypeOK, UsageAssumption, Time, request, action
<1>4. CASE UNCHANGED vars
  BY <1>4 DEF UsageTypeOK, vars, request, action
<1>5. QED
  BY <1>1, <1>2, <1>3, <1>4, ArriveType, AdmitType, SettleType DEF Next

(* Every variable of the metering keeps its type, and a running claim      *)
(* belongs to a request at work or to one that died at it.                 *)
THEOREM UsageTypeCorrect == Spec => []UsageTypeOK
BY InitType, TypeStep, PTL DEF Spec

-----------------------------------------------------------------------------
(* Claims.  Two claims of one action never run at once, and a running one  *)
(* arrived after every success of its action: its request would have been  *)
(* refused otherwise.  A claim is never of a request not admitted yet.     *)

Waiting == {"idle", "arrived", "refused"}

WaitingHoldsNothing ==
  \A r \in Request : pc[r] \in Waiting => claim[r] = "NONE" /\ \A l \in Allowance : row[r][l] = "NONE"

OneRunning ==
  \A r, q \in Request : Same(r, q) /\ claim[r] = "RUNNING" /\ claim[q] = "RUNNING" => r = q

RunningIsLater ==
  \A r, q \in Request : Same(r, q) /\ claim[r] = "RUNNING" /\ claim[q] = "SUCCEEDED" =>
    arrived[r] >= finished[q]

ClaimsInv ==
  UsageTypeOK /\ WaitingHoldsNothing /\ OneRunning /\ RunningIsLater /\ SuccessesAreSequential

LEMMA WaitingStep ==
  ASSUME UsageTypeOK, WaitingHoldsNothing, [Next]_vars
  PROVE  WaitingHoldsNothing'
<1>1. ASSUME NEW r \in Request, NEW s \in Stage \cup {Autonomous}, NEW w \in Workspace, Arrive(r, s, w)
      PROVE  WaitingHoldsNothing'
  BY <1>1 DEF UsageTypeOK, WaitingHoldsNothing, Waiting, Arrive, Moves, action
<1>2. ASSUME NEW r \in Request, Admit(r)
      PROVE  WaitingHoldsNothing'
  <2>1. pc' = [pc EXCEPT ![r] = "working"]
    BY <1>2 DEF Admit, Moves
  <2>2. \A q \in Request : q # r /\ claim[q] = "NONE" => claim'[q] = "NONE"
    BY <1>2 DEF Admit, Claim, action, Lapsed, UsageTypeOK
  <2>3. \A q \in Request \ {r} : \A l \in Allowance : row'[q][l] = Unexpired(arrived[r])[q][l]
    BY <1>2, UnexpiredType DEF Admit, Reserve
  <2>4. \A q \in Request \ {r} : \A l \in Allowance : row[q][l] = "NONE" => row'[q][l] = "NONE"
    BY <2>3 DEF Unexpired
  <2>5. QED
    BY <2>1, <2>2, <2>4 DEF UsageTypeOK, WaitingHoldsNothing, Waiting
<1>3. ASSUME NEW r \in Request, Refuse(r) \/ Die(r) \/ Keep(r)
      PROVE  WaitingHoldsNothing'
  BY <1>3 DEF UsageTypeOK, WaitingHoldsNothing, Waiting, Refuse, Die, Keep, Moves, action
<1>4. ASSUME NEW r \in Request, SettleFailure(r) \/ Unreserve(r) \/ SettleSuccess(r)
      PROVE  WaitingHoldsNothing'
  <2>1. \A q \in Request : pc'[q] \in Waiting => pc[q] \in Waiting /\ q # r
    BY <1>4 DEF UsageTypeOK, SettleFailure, Unreserve, SettleSuccess, Moves, Waiting
  <2>2. \A q \in Request \ {r} : claim'[q] = claim[q] /\ row'[q] = row[q]
    BY <1>4 DEF UsageTypeOK, SettleFailure, Unreserve, SettleSuccess, FinishAction, Settled, action
  <2>3. QED
    BY <2>1, <2>2 DEF WaitingHoldsNothing
<1>5. CASE SweepExpired
  BY <1>5 DEF WaitingHoldsNothing, SweepExpired, Unexpired, action
<1>6. CASE Time \/ UNCHANGED vars
  BY <1>6 DEF WaitingHoldsNothing, Time, vars, action
<1>7. QED
  BY <1>1, <1>2, <1>3, <1>4, <1>5, <1>6 DEF Next

(* Steps that leave the claims and what they are of alone.                 *)
LEMMA QuietClaims ==
  ASSUME ClaimsInv, UNCHANGED action,
         \A r \in Request : claim[r] # "NONE" =>
           stage'[r] = stage[r] /\ workspace'[r] = workspace[r] /\ arrived'[r] = arrived[r]
  PROVE  OneRunning' /\ RunningIsLater' /\ SuccessesAreSequential'
BY DEF ClaimsInv, OneRunning, RunningIsLater, SuccessesAreSequential, Same, action

LEMMA AdmitClaims ==
  ASSUME ClaimsInv, NEW r \in Request, Admit(r)
  PROVE  OneRunning' /\ RunningIsLater' /\ SuccessesAreSequential'
<1>1. CASE stage[r] = Autonomous
  BY <1>1, QuietClaims DEF Admit, request
<1>2. CASE stage[r] # Autonomous
  <2>1. ~InProgress(r) /\ Claim(r) /\ UNCHANGED request
    BY <1>2 DEF Admit
  <2>2. claim[r] = "NONE"
    BY DEF Admit, Moves, ClaimsInv, WaitingHoldsNothing, Waiting
  <2>3. /\ claim'[r] = "RUNNING"
        /\ \A q \in Request \ {r} : claim'[q] = "RUNNING" => claim[q] = "RUNNING" /\ ~Same(r, q)
        /\ \A q \in Request : claim'[q] = "SUCCEEDED" =>
             claim[q] = "SUCCEEDED" /\ finished'[q] = finished[q] /\ q # r
    BY <2>1, <2>2 DEF Claim, InProgress, Lapsed, ClaimsInv, UsageTypeOK
  <2>4. \A q \in Request : Same(r, q) /\ claim[q] = "SUCCEEDED" => arrived[r] >= finished[q]
    BY <2>1 DEF InProgress, ClaimsInv, UsageTypeOK
  <2>5. Same(r, r) /\ \A p, q \in Request : (Same(p, q)' <=> Same(p, q)) /\ (Same(p, q) <=> Same(q, p))
    BY <2>1 DEF Same, request
  <2>6. OneRunning'
    BY <2>3, <2>5 DEF ClaimsInv, OneRunning
  <2>7. RunningIsLater'
    BY <2>1, <2>3, <2>4, <2>5 DEF ClaimsInv, RunningIsLater, request
  <2>8. SuccessesAreSequential'
    BY <2>1, <2>3, <2>5 DEF ClaimsInv, SuccessesAreSequential, request
  <2>9. QED
    BY <2>6, <2>7, <2>8
<1>3. QED
  BY <1>1, <1>2

LEMMA FinishClaims ==
  ASSUME ClaimsInv, NEW r \in Request, NEW status \in {"SUCCEEDED", "FAILED"},
         FinishAction(r, status), UNCHANGED request
  PROVE  OneRunning' /\ RunningIsLater' /\ SuccessesAreSequential'
<1>1. CASE claim[r] # "RUNNING"
  BY <1>1, QuietClaims DEF FinishAction, request
<1>2. CASE claim[r] = "RUNNING"
  <2>1. /\ claim'[r] = status
        /\ \A q \in Request \ {r} : claim'[q] = claim[q] /\ finished'[q] = finished[q]
    BY <1>2 DEF FinishAction, ClaimsInv, UsageTypeOK
  <2>2. \A p, q \in Request : (Same(p, q)' <=> Same(p, q)) /\ (Same(p, q) <=> Same(q, p))
    BY DEF Same, request
  <2>3. OneRunning'
    BY <2>1, <2>2 DEF ClaimsInv, OneRunning
  <2>4. RunningIsLater'
    BY <1>2, <2>1, <2>2 DEF ClaimsInv, OneRunning, RunningIsLater, request
  <2>5. SuccessesAreSequential'
    BY <1>2, <2>1, <2>2 DEF ClaimsInv, RunningIsLater, SuccessesAreSequential, request
  <2>6. QED
    BY <2>3, <2>4, <2>5
<1>3. QED
  BY <1>1, <1>2

LEMMA ClaimsStep ==
  ASSUME ClaimsInv, [Next]_vars
  PROVE  ClaimsInv'
<1>1. UsageTypeOK' /\ WaitingHoldsNothing'
  BY TypeStep, WaitingStep DEF ClaimsInv
<1>2. ASSUME NEW r \in Request, NEW s \in Stage \cup {Autonomous}, NEW w \in Workspace, Arrive(r, s, w)
      PROVE  OneRunning' /\ RunningIsLater' /\ SuccessesAreSequential'
  <2>1. claim[r] = "NONE"
    BY <1>2 DEF Arrive, Moves, ClaimsInv, WaitingHoldsNothing, Waiting
  <2>2. QED
    BY <1>2, <2>1, QuietClaims DEF Arrive, ClaimsInv, UsageTypeOK
<1>3. ASSUME NEW r \in Request, SettleFailure(r) \/ Unreserve(r) \/ SettleSuccess(r)
      PROVE  OneRunning' /\ RunningIsLater' /\ SuccessesAreSequential'
  BY <1>3, FinishClaims, QuietClaims DEF SettleFailure, Unreserve, SettleSuccess, request
<1>4. ASSUME NEW r \in Request, Refuse(r) \/ Die(r) \/ Keep(r)
      PROVE  OneRunning' /\ RunningIsLater' /\ SuccessesAreSequential'
  BY <1>4, QuietClaims DEF Refuse, Die, Keep, request
<1>5. CASE SweepExpired \/ Time \/ UNCHANGED vars
  BY <1>1, <1>5, QuietClaims DEF ClaimsInv, SweepExpired, Time, vars, request
<1>6. QED
  BY <1>1, <1>2, <1>3, <1>4, <1>5, AdmitClaims DEF Next, ClaimsInv

LEMMA ClaimsInit == Init => ClaimsInv
BY InitType DEF Init, ClaimsInv, WaitingHoldsNothing, OneRunning, RunningIsLater, SuccessesAreSequential

LEMMA ClaimsAlways == Spec => []ClaimsInv
BY ClaimsInit, ClaimsStep, PTL DEF Spec

(* Of two executions of an action that count as succeeded, one was asked   *)
(* for after the other had finished, for any number of requests, takeovers *)
(* and deaths.                                                             *)
THEOREM SuccessesAreSequentialAlways == Spec => []SuccessesAreSequential
<1>1. ClaimsInv => SuccessesAreSequential
  BY DEF ClaimsInv
<1>2. QED
  BY <1>1, ClaimsAlways, PTL

-----------------------------------------------------------------------------
(* Units.  What a request relies on is accounted for from its admission    *)
(* on: its unit is settled, or expired, or belongs to a request that may   *)
(* still settle it or has failed.                                          *)

Admitted == {"working", "done", "failed", "dead"}

KeptWasAdmitted == \A r \in Request : kept[r] => pc[r] \in Admitted

ArrivedBefore == \A r \in Request : arrived[r] <= clock

ReservedIsPending ==
  \A r \in Request : \A l \in Allowance : row[r][l] = "RESERVED" => pc[r] \in {"working", "dead"}

Accounted(r, q, l) ==
  \/ row[q][l] = "CONSUMED"
  \/ row[q][l] = "SWEPT" /\ arrived[q] + TTL <= clock
  \/ row[q][l] = "RELEASED" /\ pc[q] = "failed"
  \/ row[q][l] = "RESERVED" /\ (pc[r] \in {"done", "failed"} => q # r)

UnitsAccounted ==
  \A r \in Request : \A l \in Needs(r) : pc[r] \in Admitted => Accounted(r, unit[r][l], l)

UnitsInv ==
  /\ UsageTypeOK /\ WaitingHoldsNothing
  /\ KeptWasAdmitted /\ ArrivedBefore /\ ReservedIsPending /\ UnitsAccounted

(* The assumption, in the form the arithmetic needs.                       *)
LEMMA TimesAreNat == TTL \in Nat /\ MaxTime \in Nat
BY UsageAssumption DEF UsageAssumption

LEMMA NeedsAreAllowances == \A r : Needs(r) \subseteq Allowance
BY DEF Needs, Allowance

LEMMA UnitsImpliesPaid == UnitsInv => KeptWorkIsPaid
<1> SUFFICES ASSUME UnitsInv, NEW r \in Request, NEW l \in Needs(r), kept[r], pc[r] # "working"
             PROVE  LET q == unit[r][l] IN
                    \/ row[q][l] = "CONSUMED"
                    \/ row[q][l] = "SWEPT" /\ arrived[q] + TTL <= clock
                    \/ row[q][l] = "RELEASED" /\ pc[q] = "failed"
                    \/ row[q][l] = "RESERVED" /\ (pc[q] = "dead" \/ (q # r /\ pc[q] = "working"))
  BY DEF KeptWorkIsPaid
<1>1. unit[r][l] \in Request /\ l \in Allowance
  BY NeedsAreAllowances DEF UnitsInv, UsageTypeOK
<1>2. Accounted(r, unit[r][l], l)
  BY DEF UnitsInv, UnitsAccounted, KeptWasAdmitted
<1>3. QED
  BY <1>1, <1>2 DEF UnitsInv, ReservedIsPending, Accounted

LEMMA UnitsInit == Init => UnitsInv
BY InitType, ClaimsInit, TimesAreNat
   DEF Init, UnitsInv, ClaimsInv, KeptWasAdmitted, ArrivedBefore, ReservedIsPending, UnitsAccounted, Admitted

(* What admitting a request does to the rows: those that expired before it *)
(* arrived are swept, and its own are reserved where nobody has one.       *)
LEMMA AdmitRows ==
  ASSUME UnitsInv, NEW r \in Request, Admit(r)
  PROVE  /\ pc[r] = "arrived" /\ pc' = [pc EXCEPT ![r] = "working"]
         /\ UNCHANGED <<clock, request>>
         /\ \A q \in Request \ {r} : \A l \in Allowance :
              row'[q][l] = IF row[q][l] = "RESERVED" /\ Expired(q, arrived[r]) THEN "SWEPT" ELSE row[q][l]
         /\ \A l \in Allowance : row'[r][l] \in {"NONE", "RESERVED"}
         /\ \A q \in Request \ {r} : unit'[q] = unit[q]
         /\ \A l \in Needs(r) : LET q == unit'[r][l] IN
              /\ q \in Request
              /\ row'[q][l] \in LIVE_STATUSES
<1> DEFINE rows == Unexpired(arrived[r])
           live(l) == LiveByKey(rows, workspace[r], l)
           new == {l \in Needs(r) : live(l) = {}}
<1>1. /\ row' = [rows EXCEPT ![r] = [l \in Allowance |-> IF l \in new THEN "RESERVED" ELSE @[l]]]
      /\ unit' = [unit EXCEPT ![r] = [l \in Allowance |->
                    IF l \in Needs(r) \ new THEN CHOOSE q \in live(l) : TRUE ELSE r]]
  BY DEF Admit, Reserve
<1>2. rows \in [Request -> [Allowance -> Status]]
  BY UnexpiredType DEF UnitsInv
<1>3. pc[r] = "arrived" /\ pc' = [pc EXCEPT ![r] = "working"] /\ UNCHANGED <<clock, request>>
  BY DEF Admit, Moves
<1>4. \A l \in Allowance : row[r][l] = "NONE"
  BY <1>3 DEF UnitsInv, WaitingHoldsNothing, Waiting
<1>5. \A l \in Allowance : rows[r][l] = "NONE"
  BY <1>4 DEF Unexpired
<1>6. \A q \in Request : \A l \in Allowance :
        rows[q][l] = IF row[q][l] = "RESERVED" /\ Expired(q, arrived[r]) THEN "SWEPT" ELSE row[q][l]
  BY DEF Unexpired
<1>7. \A l \in Needs(r) \ new : (CHOOSE q \in live(l) : TRUE) \in live(l)
  OBVIOUS
<1>8. \A l : \A q \in live(l) : q \in Request /\ rows[q][l] \in LIVE_STATUSES
  BY DEF LiveByKey
<1> HIDE DEF rows, live, new
<1>9. \A q \in Request \ {r} : row'[q] = rows[q] /\ unit'[q] = unit[q]
  BY <1>1, <1>2 DEF UnitsInv, UsageTypeOK
<1>10. \A l \in Allowance : row'[r][l] = IF l \in new THEN "RESERVED" ELSE rows[r][l]
  BY <1>1, <1>2
<1>11. \A l \in Allowance : unit'[r][l] = IF l \in Needs(r) \ new THEN CHOOSE q \in live(l) : TRUE ELSE r
  BY <1>1 DEF UnitsInv, UsageTypeOK
<1>12. ASSUME NEW l \in Needs(r)
       PROVE  unit'[r][l] \in Request /\ row'[unit'[r][l]][l] \in LIVE_STATUSES
  <2>1. l \in Allowance
    BY NeedsAreAllowances
  <2>2. CASE l \in new
    BY <2>1, <2>2, <1>10, <1>11 DEF LIVE_STATUSES
  <2>3. CASE l \notin new
    <3>1. unit'[r][l] \in live(l)
      BY <2>1, <2>3, <1>7, <1>11
    <3>2. unit'[r][l] \in Request \ {r}
      BY <3>1, <2>1, <1>5, <1>8 DEF LIVE_STATUSES
    <3>3. QED
      BY <3>1, <3>2, <1>8, <1>9
  <2>4. QED
    BY <2>2, <2>3
<1>13. QED
  BY <1>3, <1>5, <1>6, <1>9, <1>10, <1>12

LEMMA AdmitUnits ==
  ASSUME UnitsInv, NEW r \in Request, Admit(r)
  PROVE  ArrivedBefore' /\ ReservedIsPending' /\ UnitsAccounted'
<1>1. /\ pc[r] = "arrived" /\ pc' = [pc EXCEPT ![r] = "working"]
      /\ UNCHANGED <<clock, stage, workspace, arrived>>
      /\ \A q \in Request \ {r} : \A l \in Allowance :
           row'[q][l] = IF row[q][l] = "RESERVED" /\ Expired(q, arrived[r]) THEN "SWEPT" ELSE row[q][l]
      /\ \A q \in Request \ {r} : unit'[q] = unit[q]
  BY AdmitRows DEF request
<1>2. \A l \in Allowance : row[r][l] = "NONE"
  BY <1>1 DEF UnitsInv, WaitingHoldsNothing, Waiting
<1>3. ArrivedBefore'
  BY <1>1 DEF UnitsInv, ArrivedBefore
<1>4. ReservedIsPending'
  BY <1>1 DEF UnitsInv, UsageTypeOK, ReservedIsPending
<1>5. \A q \in Request : Expired(q, arrived[r]) => arrived[q] + TTL <= clock
  BY TimesAreNat DEF UnitsInv, UsageTypeOK, ArrivedBefore, Expired
<1>6. ASSUME NEW p \in Request, NEW l \in Needs(p)', pc'[p] \in Admitted
      PROVE  Accounted(p, unit[p][l], l)'
  <2>1. l \in Needs(p) /\ l \in Allowance
    BY <1>1, <1>6, NeedsAreAllowances DEF Needs
  <2>2. CASE p = r
    <3>1. unit'[r][l] \in Request /\ row'[unit'[r][l]][l] \in LIVE_STATUSES
      BY <2>1, <2>2, AdmitRows
    <3>2. pc'[r] = "working"
      BY <1>1 DEF UnitsInv, UsageTypeOK
    <3>3. QED
      BY <2>2, <3>1, <3>2 DEF Accounted, LIVE_STATUSES
  <2>3. CASE p # r
    <3>1. pc'[p] = pc[p] /\ unit'[p] = unit[p] /\ unit[p][l] \in Request
      BY <1>1, <2>1, <2>3 DEF UnitsInv, UsageTypeOK
    <3>2. Accounted(p, unit[p][l], l)
      BY <1>6, <2>1, <3>1 DEF UnitsInv, UnitsAccounted
    <3>3. unit[p][l] # r
      BY <1>2, <2>1, <3>2 DEF Accounted
    <3>4. pc'[unit[p][l]] = pc[unit[p][l]]
      BY <1>1, <3>1, <3>3 DEF UnitsInv, UsageTypeOK
    <3>5. QED
      BY <1>1, <1>5, <2>1, <3>1, <3>2, <3>3, <3>4 DEF Accounted
  <2>4. QED
    BY <2>2, <2>3
<1>7. UnitsAccounted'
  BY <1>6 DEF UnitsAccounted
<1>8. QED
  BY <1>3, <1>4, <1>7

LEMMA SettleUnits ==
  ASSUME UnitsInv, NEW r \in Request, SettleFailure(r) \/ Unreserve(r) \/ SettleSuccess(r)
  PROVE  ArrivedBefore' /\ ReservedIsPending' /\ UnitsAccounted'
<1>1. PICK end \in {<<"failed", "RELEASED">>, <<"done", "CONSUMED">>} :
        /\ pc[r] = "working" /\ pc' = [pc EXCEPT ![r] = end[1]]
        /\ row' = Settled(r, end[2])
        /\ UNCHANGED <<clock, stage, workspace, arrived, unit>>
  BY DEF SettleFailure, Unreserve, SettleSuccess, Moves, request
<1>2. /\ \A l \in Allowance : row'[r][l] = IF row[r][l] = "RESERVED" THEN end[2] ELSE row[r][l]
      /\ \A q \in Request \ {r} : row'[q] = row[q] /\ pc'[q] = pc[q]
      /\ pc'[r] = end[1]
  BY <1>1 DEF Settled, UnitsInv, UsageTypeOK
<1>3. ArrivedBefore'
  BY <1>1 DEF UnitsInv, ArrivedBefore
<1>4. ReservedIsPending'
  BY <1>2 DEF UnitsInv, ReservedIsPending
<1>5. ASSUME NEW p \in Request, NEW l \in Needs(p)', pc'[p] \in Admitted
      PROVE  Accounted(p, unit[p][l], l)'
  <2>1. l \in Needs(p) /\ l \in Allowance /\ unit[p][l] \in Request
    BY <1>1, <1>5, NeedsAreAllowances DEF Needs, UnitsInv, UsageTypeOK
  <2>2. pc[p] \in Admitted /\ Accounted(p, unit[p][l], l)
    BY <1>1, <1>2, <1>5, <2>1 DEF UnitsInv, UnitsAccounted, Admitted
  <2>3. QED
    BY <1>1, <1>2, <1>5, <2>1, <2>2 DEF Accounted, Admitted
<1>6. UnitsAccounted'
  BY <1>5 DEF UnitsAccounted
<1>7. QED
  BY <1>3, <1>4, <1>6

LEMMA KeptStep ==
  ASSUME UsageTypeOK, KeptWasAdmitted, [Next]_vars
  PROVE  KeptWasAdmitted'
<1>1. ASSUME NEW r \in Request, Keep(r)
      PROVE  KeptWasAdmitted'
  BY <1>1 DEF Keep, KeptWasAdmitted, Admitted, UsageTypeOK
<1>2. ASSUME kept' = kept, \A q \in Request : pc[q] \in Admitted => pc'[q] \in Admitted
      PROVE  KeptWasAdmitted'
  BY <1>2 DEF KeptWasAdmitted
<1>3. ASSUME NEW r \in Request,
             \/ \E s \in Stage \cup {Autonomous}, w \in Workspace : Arrive(r, s, w)
             \/ Admit(r) \/ Refuse(r) \/ SettleFailure(r) \/ Unreserve(r) \/ SettleSuccess(r) \/ Die(r)
      PROVE  kept' = kept /\ \A q \in Request : pc[q] \in Admitted => pc'[q] \in Admitted
  BY <1>3 DEF Arrive, Admit, Refuse, SettleFailure, Unreserve, SettleSuccess, Die, Moves, Admitted, UsageTypeOK
<1>4. SweepExpired \/ Time \/ UNCHANGED vars => kept' = kept /\ pc' = pc
  BY DEF SweepExpired, Time, vars
<1>5. QED
  BY <1>1, <1>2, <1>3, <1>4 DEF Next

LEMMA UnitsStep ==
  ASSUME UnitsInv, [Next]_vars
  PROVE  UnitsInv'
<1>1. UsageTypeOK' /\ WaitingHoldsNothing' /\ KeptWasAdmitted'
  BY TypeStep, WaitingStep, KeptStep DEF UnitsInv
<1>2. ASSUME NEW r \in Request, NEW s \in Stage \cup {Autonomous}, NEW w \in Workspace, Arrive(r, s, w)
      PROVE  ArrivedBefore' /\ ReservedIsPending' /\ UnitsAccounted'
  <2>1. /\ pc[r] = "idle" /\ pc' = [pc EXCEPT ![r] = "arrived"]
        /\ arrived' = [arrived EXCEPT ![r] = clock] /\ stage' = [stage EXCEPT ![r] = s]
        /\ UNCHANGED <<clock, row, unit>>
    BY <1>2 DEF Arrive, Moves
  <2>2. \A l \in Allowance : row[r][l] = "NONE"
    BY <2>1 DEF UnitsInv, WaitingHoldsNothing, Waiting
  <2>3. ArrivedBefore' /\ ReservedIsPending'
    BY <2>1 DEF UnitsInv, UsageTypeOK, ArrivedBefore, ReservedIsPending
  <2>4. ASSUME NEW p \in Request, NEW l \in Needs(p)', pc'[p] \in Admitted
        PROVE  Accounted(p, unit[p][l], l)'
    <3>1. p # r /\ pc'[p] = pc[p]
      BY <2>1, <2>4 DEF UnitsInv, UsageTypeOK, Admitted
    <3>2. l \in Needs(p) /\ l \in Allowance /\ unit[p][l] \in Request
      BY <2>1, <2>4, <3>1, NeedsAreAllowances DEF Needs, UnitsInv, UsageTypeOK
    <3>3. Accounted(p, unit[p][l], l)
      BY <2>4, <3>1, <3>2 DEF UnitsInv, UnitsAccounted
    <3>4. unit[p][l] # r
      BY <2>2, <3>2, <3>3 DEF Accounted
    <3>5. QED
      BY <2>1, <3>1, <3>2, <3>3, <3>4 DEF Accounted, UnitsInv, UsageTypeOK
  <2>5. QED
    BY <2>3, <2>4 DEF UnitsAccounted
<1>3. ASSUME NEW r \in Request, Refuse(r) \/ Die(r)
      PROVE  ArrivedBefore' /\ ReservedIsPending' /\ UnitsAccounted'
  <2>1. /\ pc[r] \in {"arrived", "working"}
        /\ pc' = [pc EXCEPT ![r] = IF pc[r] = "working" THEN "dead" ELSE "refused"]
        /\ UNCHANGED <<clock, stage, workspace, arrived, row, unit>>
    BY <1>3 DEF Refuse, Die, Moves, request
  <2>2. ArrivedBefore'
    BY <2>1 DEF UnitsInv, ArrivedBefore
  <2>3. ReservedIsPending'
    BY <2>1 DEF UnitsInv, UsageTypeOK, ReservedIsPending
  <2>4. ASSUME NEW p \in Request, NEW l \in Needs(p)', pc'[p] \in Admitted
        PROVE  Accounted(p, unit[p][l], l)'
    <3>1. l \in Needs(p) /\ l \in Allowance /\ unit[p][l] \in Request
      BY <2>1, <2>4, NeedsAreAllowances DEF Needs, UnitsInv, UsageTypeOK
    <3>2. /\ pc[p] \in Admitted
          /\ pc'[p] \in {"done", "failed"} => pc[p] = pc'[p]
      BY <2>1, <2>4 DEF UnitsInv, UsageTypeOK, Admitted
    <3>3. Accounted(p, unit[p][l], l)
      BY <3>1, <3>2 DEF UnitsInv, UnitsAccounted
    <3>4. \A q \in Request : pc[q] = "failed" => pc'[q] = "failed"
      BY <2>1 DEF UnitsInv, UsageTypeOK
    <3>5. QED
      BY <2>1, <3>1, <3>2, <3>3, <3>4 DEF Accounted
  <2>5. QED
    BY <2>2, <2>3, <2>4 DEF UnitsAccounted
<1>4. ASSUME SweepExpired
      PROVE  ArrivedBefore' /\ ReservedIsPending' /\ UnitsAccounted'
  <2>1. /\ UNCHANGED <<clock, pc, stage, workspace, arrived, unit>>
        /\ \A q \in Request : \A l \in Allowance :
             row'[q][l] = IF row[q][l] = "RESERVED" /\ arrived[q] + TTL <= clock THEN "SWEPT" ELSE row[q][l]
    BY <1>4 DEF SweepExpired, Unexpired, Expired, request
  <2>2. ArrivedBefore' /\ ReservedIsPending'
    BY <2>1 DEF UnitsInv, ArrivedBefore, ReservedIsPending
  <2>3. ASSUME NEW p \in Request, NEW l \in Needs(p)', pc'[p] \in Admitted
        PROVE  Accounted(p, unit[p][l], l)'
    <3>1. pc[p] \in Admitted /\ l \in Needs(p) /\ l \in Allowance /\ unit[p][l] \in Request
      BY <2>1, <2>3, NeedsAreAllowances DEF Needs, UnitsInv, UsageTypeOK
    <3>2. Accounted(p, unit[p][l], l)
      BY <3>1 DEF UnitsInv, UnitsAccounted
    <3>3. QED
      BY <2>1, <3>1, <3>2 DEF Accounted
  <2>4. QED
    BY <2>2, <2>3 DEF UnitsAccounted
<1>5. CASE Time
  <2>1. clock' = clock + 1 /\ UNCHANGED <<pc, stage, workspace, arrived, row, unit>>
    BY <1>5 DEF Time, request
  <2>2. \A r \in Request : arrived[r] \in Nat /\ clock \in Nat
    BY TimesAreNat DEF UnitsInv, UsageTypeOK
  <2>3. ArrivedBefore' /\ ReservedIsPending'
    BY <2>1, <2>2 DEF UnitsInv, ArrivedBefore, ReservedIsPending
  <2>4. ASSUME NEW p \in Request, NEW l \in Needs(p)', pc'[p] \in Admitted
        PROVE  Accounted(p, unit[p][l], l)'
    <3>1. pc[p] \in Admitted /\ l \in Needs(p) /\ unit[p][l] \in Request
      BY <2>1, <2>4, NeedsAreAllowances DEF Needs, UnitsInv, UsageTypeOK
    <3>2. Accounted(p, unit[p][l], l)
      BY <3>1 DEF UnitsInv, UnitsAccounted
    <3>3. arrived[unit[p][l]] + TTL <= clock => arrived[unit[p][l]] + TTL <= clock + 1
      BY <2>2, <3>1, TimesAreNat
    <3>4. QED
      BY <2>1, <3>2, <3>3 DEF Accounted
  <2>5. QED
    BY <1>1, <2>3, <2>4 DEF UnitsAccounted, UnitsInv
<1>6. ASSUME UNCHANGED <<clock, pc, request, action, row, unit>>
      PROVE  ArrivedBefore' /\ ReservedIsPending' /\ UnitsAccounted'
  BY <1>6 DEF request, UnitsInv, ArrivedBefore, ReservedIsPending, UnitsAccounted, Accounted, Needs
<1>8. ASSUME NEW r \in Request, Keep(r)
      PROVE  UNCHANGED <<clock, pc, request, action, row, unit>>
  BY <1>8 DEF Keep
<1>9. UNCHANGED vars => UNCHANGED <<clock, pc, request, action, row, unit>>
  BY DEF vars
<1>7. QED
  BY <1>1, <1>2, <1>3, <1>4, <1>5, <1>6, <1>8, <1>9, AdmitUnits, SettleUnits DEF Next, UnitsInv

(* Work that is kept is paid for, except in the ways that the property     *)
(* names, for any number of requests and any limits.                       *)
THEOREM KeptWorkIsPaidAlways == Spec => []KeptWorkIsPaid
BY UnitsInit, UnitsStep, UnitsImpliesPaid, PTL DEF Spec

-----------------------------------------------------------------------------
(* The limit.  Rows become live only when a request is admitted, at most   *)
(* one of each allowance, of a workspace that had none, and within the     *)
(* limit; every other step only ends rows.                                 *)

LimitInv == UsageTypeOK /\ WaitingHoldsNothing /\ UsedWithinLimit

LEMMA LimitsAreNat == IsFiniteSet(Request) /\ \A l \in Allowance : Limit[l] \in Nat
BY UsageAssumption DEF UsageAssumption

LEMMA Counting ==
  ASSUME NEW S \in SUBSET Request, NEW T \in SUBSET S
  PROVE  /\ IsFiniteSet(S) /\ IsFiniteSet(T)
         /\ Cardinality(S) \in Nat /\ Cardinality(T) \in Nat /\ Cardinality(T) <= Cardinality(S)
<1>1. IsFiniteSet(S)
  BY LimitsAreNat, FS_Subset
<1>2. IsFiniteSet(T) /\ Cardinality(T) <= Cardinality(S)
  BY <1>1, FS_Subset
<1>3. QED
  BY <1>1, <1>2, FS_CardinalityType

(* Steps that make no row live and move no live row to another workspace.  *)
LEMMA EndingRows ==
  ASSUME LimitInv,
         \A q \in Request : \A l \in Allowance :
           row'[q][l] \in LIVE_STATUSES => row[q][l] \in LIVE_STATUSES /\ workspace'[q] = workspace[q]
  PROVE  UsedWithinLimit'
<1> SUFFICES ASSUME NEW l \in Allowance
             PROVE  /\ Used(row', l) <= Limit[l]
                    /\ \A w \in Workspace : Cardinality(LiveByKey(row, w, l)') <= 1
  BY DEF UsedWithinLimit, Used
<1>1. Used(row', l) <= Limit[l]
  <2> DEFINE S == {q \in Request : row[q][l] \in LIVE_STATUSES}
             T == {q \in Request : row'[q][l] \in LIVE_STATUSES}
  <2>1. T \in SUBSET S /\ S \in SUBSET Request
    OBVIOUS
  <2>2. Cardinality(S) <= Limit[l]
    BY DEF LimitInv, UsedWithinLimit, Used
  <2> HIDE DEF S, T
  <2>3. Cardinality(T) <= Limit[l]
    BY <2>1, <2>2, Counting, LimitsAreNat
  <2>4. QED
    BY <2>3 DEF Used, T
<1>2. ASSUME NEW w \in Workspace
      PROVE  Cardinality(LiveByKey(row, w, l)') <= 1
  <2> DEFINE S == LiveByKey(row, w, l)
             T == LiveByKey(row, w, l)'
  <2>1. T \in SUBSET S /\ S \in SUBSET Request
    BY DEF LiveByKey
  <2>2. Cardinality(S) <= 1
    BY DEF LimitInv, UsedWithinLimit
  <2> HIDE DEF S, T
  <2>3. Cardinality(T) <= 1
    BY <2>1, <2>2, Counting
  <2>4. QED
    BY <2>3 DEF T
<1>3. QED
  BY <1>1, <1>2

LEMMA AdmitLimit ==
  ASSUME LimitInv, NEW r \in Request, Admit(r)
  PROVE  UsedWithinLimit'
<1> DEFINE rows == Unexpired(arrived[r])
           new == {l \in Needs(r) : LiveByKey(rows, workspace[r], l) = {}}
<1>1. /\ \A l \in new : Used(rows, l) + 1 <= Limit[l]
      /\ row' = [rows EXCEPT ![r] = [l \in Allowance |-> IF l \in new THEN "RESERVED" ELSE @[l]]]
      /\ UNCHANGED <<stage, workspace, arrived>>
  BY DEF Admit, Reserve, request
<1>2. rows \in [Request -> [Allowance -> Status]]
  BY UnexpiredType DEF LimitInv
<1>3. \A l \in Allowance : row[r][l] = "NONE"
  BY DEF Admit, Moves, LimitInv, WaitingHoldsNothing, Waiting
<1>4. \A q \in Request : \A l \in Allowance :
        /\ rows[q][l] \in LIVE_STATUSES => row[q][l] \in LIVE_STATUSES
        /\ rows[r][l] = "NONE"
  BY <1>3 DEF Unexpired, LIVE_STATUSES
<1>5. \A l \in new : \A q \in Request :
        rows[q][l] \in LIVE_STATUSES => workspace[q] # workspace[r]
  BY DEF LiveByKey
<1> HIDE DEF rows, new
<1>6. \A q \in Request : \A l \in Allowance :
        row'[q][l] = IF q = r /\ l \in new THEN "RESERVED" ELSE rows[q][l]
  BY <1>1, <1>2
<1> SUFFICES ASSUME NEW l \in Allowance
             PROVE  /\ Used(row', l) <= Limit[l]
                    /\ \A w \in Workspace : Cardinality(LiveByKey(row, w, l)') <= 1
  BY DEF UsedWithinLimit, Used
<1>7. Used(row', l) <= Limit[l]
  <2> DEFINE S == {q \in Request : row[q][l] \in LIVE_STATUSES}
             U == {q \in Request : rows[q][l] \in LIVE_STATUSES}
             T == {q \in Request : row'[q][l] \in LIVE_STATUSES}
  <2>1. U \in SUBSET S /\ S \in SUBSET Request /\ U \in SUBSET Request /\ r \notin U
    BY <1>4 DEF LIVE_STATUSES
  <2>2. Cardinality(S) <= Limit[l] /\ Used(rows, l) = Cardinality(U)
    BY DEF LimitInv, UsedWithinLimit, Used
  <2>3. T = IF l \in new THEN U \cup {r} ELSE U
    BY <1>6 DEF LIVE_STATUSES
  <2> HIDE DEF S, U, T
  <2>4. IsFiniteSet(U) /\ Cardinality(U) \in Nat /\ Cardinality(S) \in Nat /\ Cardinality(U) <= Cardinality(S)
    BY <2>1, Counting
  <2>5. Cardinality(U \cup {r}) = Cardinality(U) + 1
    BY <2>1, <2>4, FS_AddElement
  <2>6. Cardinality(T) <= Limit[l]
    BY <1>1, <2>2, <2>3, <2>4, <2>5, LimitsAreNat
  <2>7. QED
    BY <2>6 DEF Used, T
<1>8. ASSUME NEW w \in Workspace
      PROVE  Cardinality(LiveByKey(row, w, l)') <= 1
  <2> DEFINE S == LiveByKey(row, w, l)
             T == LiveByKey(row, w, l)'
  <2>1. S \in SUBSET Request /\ T \in SUBSET Request /\ Cardinality(S) <= 1
    BY DEF LiveByKey, LimitInv, UsedWithinLimit
  <2>2. CASE l \in new /\ w = workspace[r]
    <3>1. T = {r}
      BY <1>1, <1>5, <1>6, <2>2 DEF LiveByKey, LIVE_STATUSES
    <3> HIDE DEF S, T
    <3>2. Cardinality(T) = 1
      BY <3>1, FS_Singleton
    <3>3. Cardinality(T) <= 1
      BY <3>2
    <3>4. QED
      BY <3>3 DEF T
  <2>3. CASE ~(l \in new /\ w = workspace[r])
    <3>1. T \in SUBSET S
      BY <1>1, <1>4, <1>6, <2>3 DEF LiveByKey
    <3> HIDE DEF S, T
    <3>2. Cardinality(T) <= 1
      BY <2>1, <3>1, Counting
    <3>3. QED
      BY <3>2 DEF T
  <2>4. QED
    BY <2>2, <2>3
<1>9. QED
  BY <1>7, <1>8

LEMMA LimitStep ==
  ASSUME LimitInv, [Next]_vars
  PROVE  LimitInv'
<1>1. UsageTypeOK' /\ WaitingHoldsNothing'
  BY TypeStep, WaitingStep DEF LimitInv
<1>2. ASSUME NEW r \in Request, NEW s \in Stage \cup {Autonomous}, NEW w \in Workspace, Arrive(r, s, w)
      PROVE  UsedWithinLimit'
  <2>1. \A l \in Allowance : row[r][l] = "NONE"
    BY <1>2 DEF Arrive, Moves, LimitInv, WaitingHoldsNothing, Waiting
  <2>2. row' = row /\ workspace' = [workspace EXCEPT ![r] = w]
    BY <1>2 DEF Arrive
  <2>3. \A q \in Request : \A l \in Allowance :
          row'[q][l] \in LIVE_STATUSES => row[q][l] \in LIVE_STATUSES /\ workspace'[q] = workspace[q]
    BY <2>1, <2>2 DEF LimitInv, UsageTypeOK, LIVE_STATUSES
  <2>4. QED
    BY <2>3, EndingRows
<1>3. ASSUME NEW r \in Request, SettleFailure(r) \/ Unreserve(r) \/ SettleSuccess(r)
      PROVE  UsedWithinLimit'
  <2>1. PICK status \in {"RELEASED", "CONSUMED"} : row' = Settled(r, status) /\ workspace' = workspace
    BY <1>3 DEF SettleFailure, Unreserve, SettleSuccess, request
  <2>2. \A q \in Request : \A l \in Allowance :
          row'[q][l] \in LIVE_STATUSES => row[q][l] \in LIVE_STATUSES /\ workspace'[q] = workspace[q]
    BY <2>1 DEF Settled, LimitInv, UsageTypeOK, LIVE_STATUSES
  <2>3. QED
    BY <2>2, EndingRows
<1>4. CASE SweepExpired
  <2>1. \A q \in Request : \A l \in Allowance :
          row'[q][l] \in LIVE_STATUSES => row[q][l] \in LIVE_STATUSES /\ workspace'[q] = workspace[q]
    BY <1>4 DEF SweepExpired, Unexpired, LIVE_STATUSES, request
  <2>2. QED
    BY <1>1, <2>1, EndingRows DEF LimitInv
<1>5. ASSUME UNCHANGED <<row, workspace>>
      PROVE  UsedWithinLimit'
  BY <1>5, EndingRows
<1>6. ASSUME NEW r \in Request, Refuse(r) \/ Die(r) \/ Keep(r)
      PROVE  UNCHANGED <<row, workspace>>
  BY <1>6 DEF Refuse, Die, Keep, request
<1>7. Time \/ UNCHANGED vars => UNCHANGED <<row, workspace>>
  BY DEF Time, vars, request
<1>8. QED
  BY <1>1, <1>2, <1>3, <1>4, <1>5, <1>6, <1>7, AdmitLimit DEF Next, LimitInv

LEMMA LimitInit == Init => LimitInv
<1> SUFFICES ASSUME Init
             PROVE  LimitInv
  OBVIOUS
<1>1. UsageTypeOK /\ WaitingHoldsNothing
  BY InitType, ClaimsInit DEF ClaimsInv
<1>2. \A l \in Allowance : \A q \in Request : row[q][l] \notin LIVE_STATUSES
  BY DEF Init, LIVE_STATUSES
<1>3. \A l \in Allowance : /\ {q \in Request : row[q][l] \in LIVE_STATUSES} = {}
                          /\ \A w \in Workspace : LiveByKey(row, w, l) = {}
  BY <1>2 DEF LiveByKey
<1>4. UsedWithinLimit
  BY <1>3, FS_EmptySet, LimitsAreNat DEF UsedWithinLimit, Used
<1>5. QED
  BY <1>1, <1>4 DEF LimitInv

(* An allowance is never used beyond the plan's limit, nor twice for one   *)
(* workspace, for any number of requests, workspaces and limits.           *)
THEOREM UsedWithinLimitAlways == Spec => []UsedWithinLimit
<1>1. LimitInv => UsedWithinLimit
  BY DEF LimitInv
<1>2. QED
  BY <1>1, LimitInit, LimitStep, PTL DEF Spec

-----------------------------------------------------------------------------
(* The refinement of Budget.  A step of a request or of the sweep settles  *)
(* reserved rows of a set of requests, or reserves the new ones of one.    *)

LEMMA UnitsOfStatus ==
  /\ UnitOf("NONE") = "none" /\ UnitOf("RESERVED") = "reserved" /\ UnitOf("CONSUMED") = "spent"
  /\ UnitOf("RELEASED") = "freed" /\ UnitOf("SWEPT") = "freed"
BY DEF UnitOf

LEMMA StatusOfUnits ==
  ASSUME NEW status \in Status
  PROVE  /\ UnitOf(status) = "none" <=> status = "NONE"
         /\ UnitOf(status) = "reserved" <=> status = "RESERVED"
         /\ UnitOf(status) = "spent" <=> status = "CONSUMED"
BY UnitsOfStatus DEF Status

(* Budget counts with the operator of this module.                         *)
LEMMA SameCount == \A S : Promise!Cardinality(S) = Cardinality(S)
BY DEF Promise!Cardinality, Cardinality

(* Rows of the requests S that were reserved get one status, no other row  *)
(* changes: Budget settles the charges S.                                  *)
LEMMA SettlingMaps ==
  ASSUME UsageTypeOK, NEW S \in SUBSET Request, NEW status \in {"CONSUMED", "RELEASED", "SWEPT"},
         \A q \in Request : \A l \in Allowance :
           row'[q][l] = IF q \in S /\ row[q][l] = "RESERVED" THEN status ELSE row[q][l]
  PROVE  Units' = Promise!Settled(S, UnitOf(status))
<1>1. \A q \in Request : \A l \in Allowance : row[q][l] \in Status
  BY DEF UsageTypeOK
<1>2. \A q \in Request : \A l \in Allowance :
        UnitOf(row'[q][l]) = IF q \in S /\ UnitOf(row[q][l]) = "reserved" THEN UnitOf(status) ELSE UnitOf(row[q][l])
  BY <1>1, StatusOfUnits
<1>3. QED
  BY <1>2 DEF Units, Promise!Settled

LEMMA AdmitMaps ==
  ASSUME LimitInv, NEW r \in Request, Admit(r)
  PROVE  Promise!Next
<1> DEFINE rows == Unexpired(arrived[r])
           new == {l \in Needs(r) : LiveByKey(rows, workspace[r], l) = {}}
           S == {q \in Request : Expired(q, arrived[r])}
<1>1. /\ \A l \in new : Used(rows, l) + 1 <= Limit[l]
      /\ row' = [rows EXCEPT ![r] = [l \in Allowance |-> IF l \in new THEN "RESERVED" ELSE @[l]]]
  BY DEF Admit, Reserve
<1>2. rows \in [Request -> [Allowance -> Status]] /\ row \in [Request -> [Allowance -> Status]]
  BY UnexpiredType DEF LimitInv, UsageTypeOK
<1>3. \A l \in Allowance : row[r][l] = "NONE"
  BY DEF Admit, Moves, LimitInv, WaitingHoldsNothing, Waiting
<1>4. \A q \in Request : \A l \in Allowance :
        rows[q][l] = IF q \in S /\ row[q][l] = "RESERVED" THEN "SWEPT" ELSE row[q][l]
  BY DEF Unexpired
<1>5. new \in SUBSET Allowance /\ S \in SUBSET Request
  BY NeedsAreAllowances
<1> HIDE DEF rows, new, S
<1>6. \A q \in Request : \A l \in Allowance :
        row'[q][l] = IF q = r THEN IF l \in new THEN "RESERVED" ELSE "NONE"
                     ELSE IF q \in S /\ row[q][l] = "RESERVED" THEN "SWEPT" ELSE row[q][l]
  BY <1>1, <1>2, <1>3, <1>4
<1>7. \A q \in Request : \A l \in Allowance :
        UnitOf(row'[q][l]) =
          IF q = r THEN IF l \in new THEN "reserved" ELSE "none"
          ELSE IF q \in S /\ UnitOf(row[q][l]) = "reserved" THEN "freed" ELSE UnitOf(row[q][l])
  BY <1>2, <1>6, UnitsOfStatus, StatusOfUnits
<1>8. Units' = [Promise!Settled(S, "freed") EXCEPT
                  ![r] = [l \in Allowance |-> IF l \in new THEN "reserved" ELSE "none"]]
  BY <1>7 DEF Units, Promise!Settled
<1>9. \A l \in Allowance : Units[r][l] = "none"
  BY <1>3, UnitsOfStatus DEF Units
<1>10. ASSUME NEW l \in new
       PROVE  Cardinality(Promise!InUse(l, S)) < Limit[l]
  <2> DEFINE U == {q \in Request : rows[q][l] \in LIVE_STATUSES}
  <2>1. l \in Allowance /\ Cardinality(U) + 1 <= Limit[l]
    BY <1>1, <1>5 DEF Used
  <2>2. Promise!InUse(l, S) = U
    BY <1>2, <1>4, <2>1, UnitsOfStatus, StatusOfUnits DEF Promise!InUse, Units, LIVE_STATUSES, Status
  <2>3. Cardinality(U) \in Nat
    BY Counting
  <2> HIDE DEF U
  <2>4. QED
    BY <2>1, <2>2, <2>3, LimitsAreNat
<1>11. \A l \in new : Promise!Cardinality(Promise!InUse(l, S)) < Limit[l]
  BY <1>10, SameCount
<1>12. Promise!Reserve(r, new, S)
  BY <1>8, <1>9, <1>11 DEF Promise!Reserve
<1>13. QED
  BY <1>5, <1>12 DEF Promise!Next

LEMMA BudgetStep ==
  ASSUME LimitInv, [Next]_vars
  PROVE  [Promise!Next]_Units
<1> USE DEF LimitInv
<1>1. ASSUME NEW r \in Request, NEW status \in {"RELEASED", "CONSUMED"}, row' = Settled(r, status)
      PROVE  Promise!Next
  <2>1. \A q \in Request : \A l \in Allowance :
          row'[q][l] = IF q \in {r} /\ row[q][l] = "RESERVED" THEN status ELSE row[q][l]
    BY <1>1 DEF Settled, UsageTypeOK
  <2>2. Units' = Promise!Settled({r}, UnitOf(status))
    BY <2>1, SettlingMaps
  <2>3. Promise!Spend(r) \/ Promise!Free({r})
    BY <2>2, UnitsOfStatus DEF Promise!Spend, Promise!Free
  <2>4. QED
    BY <2>3 DEF Promise!Next
<1>2. ASSUME SweepExpired
      PROVE  Promise!Next
  <2> DEFINE S == {q \in Request : Expired(q, clock)}
  <2>1. \A q \in Request : \A l \in Allowance :
          row'[q][l] = IF q \in S /\ row[q][l] = "RESERVED" THEN "SWEPT" ELSE row[q][l]
    BY <1>2 DEF SweepExpired, Unexpired
  <2> HIDE DEF S
  <2>2. S \in SUBSET Request
    BY DEF S
  <2>3. Promise!Free(S)
    BY <2>1, <2>2, SettlingMaps, UnitsOfStatus DEF Promise!Free
  <2>4. QED
    BY <2>2, <2>3 DEF Promise!Next
<1>3. row' = row => UNCHANGED Units
  BY DEF Units
<1>4. ASSUME NEW r \in Request, NEW s \in Stage \cup {Autonomous}, NEW w \in Workspace, Arrive(r, s, w)
      PROVE  row' = row
  BY <1>4 DEF Arrive
<1>5. ASSUME NEW r \in Request, Refuse(r) \/ Die(r) \/ Keep(r)
      PROVE  row' = row
  BY <1>5 DEF Refuse, Die, Keep
<1>6. Time \/ UNCHANGED vars => row' = row
  BY DEF Time, vars
<1>7. ASSUME NEW r \in Request, SettleFailure(r) \/ Unreserve(r) \/ SettleSuccess(r)
      PROVE  Promise!Next
  BY <1>1, <1>7 DEF SettleFailure, Unreserve, SettleSuccess
<1>8. QED
  BY <1>2, <1>3, <1>4, <1>5, <1>6, <1>7, AdmitMaps DEF Next

LEMMA BudgetInit == Init => Promise!Init
BY UnitsOfStatus DEF Init, Promise!Init, Units

(* The ledger keeps its budgets, for any requests, workspaces and limits:  *)
(* units are taken together or not at all and within the limit, and what   *)
(* has settled once, by its request or by a sweep, stays settled.          *)
THEOREM KeepsPlanAlways == Spec => KeepsPlan
<1>1. Init /\ [][Next]_vars => []LimitInv
  BY LimitInit, LimitStep, PTL
<1>2. QED
  BY <1>1, BudgetInit, BudgetStep, PTL DEF Spec, KeepsPlan, Promise!Spec

=============================================================================

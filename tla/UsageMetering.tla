---------------------------- MODULE UsageMetering ----------------------------
(***************************************************************************)
(* The units of a plan that paid work uses up, for one account and window  *)
(* (webapp/services/usage.py, webapp/persistence/usage.py,                 *)
(* webapp/services/autonomy_entitlements.py).  A request reserves before   *)
(* its work, which runs outside any lock, and settles after it.  A manual  *)
(* request also claims its action, a stage of a workspace; an autonomous   *)
(* preparation has no claim but reserves a second allowance.  A request is *)
(* run once: a repetition of it is another request.                        *)
(*                                                                         *)
(* Row r of the ledger is what request r inserted; it expires TTL after    *)
(* the request arrived, its claim TTL after the account's lock was got.    *)
(***************************************************************************)
EXTENDS Integers, FiniteSets

CONSTANTS
  Request, Workspace, Stage,
  Autonomous,             \* the "stage" of an autonomous preparation
  Ask,                    \* the stage and workspace that a request may be for
  TTL,                    \* RESERVATION_TTL
  Limit,                  \* the plan's units of each allowance
  LastArrival, MaxTime    \* bounds of the exploration

Allowance == {"prepare", "automation"}

ASSUME UsageAssumption ==
  /\ Autonomous \notin Stage /\ Workspace # {}
  /\ IsFiniteSet(Request)
  /\ Ask \in [Request -> SUBSET ((Stage \cup {Autonomous}) \X Workspace)]
  /\ {TTL, LastArrival, MaxTime} \subseteq Nat
  /\ Limit \in [Allowance -> Nat]

VARIABLES
  clock,
  pc,
  stage, workspace, arrived,   \* of a request
  claim, claimed, finished,    \* its row of metered_actions: status, started_at, finished_at
  row,                         \* its rows of usage_reservations
  unit,                        \* the request whose row it relies on
  kept                         \* what its work wrote is in the database (history)

request == <<stage, workspace, arrived>>
action == <<claim, claimed, finished>>
vars == <<clock, pc, request, action, row, unit, kept>>

Place == {"idle", "arrived", "working", "done", "failed", "refused", "dead"}
Status == {"NONE", "RESERVED", "CONSUMED", "RELEASED", "SWEPT"}
LIVE_STATUSES == {"RESERVED", "CONSUMED"}

Needs(r) == IF stage[r] = Autonomous THEN Allowance ELSE {"prepare"}

UsageTypeOK ==
  /\ clock \in 0 .. MaxTime
  /\ pc \in [Request -> Place]
  /\ stage \in [Request -> Stage \cup {Autonomous}]
  /\ workspace \in [Request -> Workspace]
  /\ arrived \in [Request -> 0 .. MaxTime]
  /\ claim \in [Request -> {"NONE", "RUNNING", "SUCCEEDED", "FAILED", "ABANDONED"}]
  /\ claimed \in [Request -> 0 .. MaxTime]
  /\ finished \in [Request -> 0 .. MaxTime]
  /\ row \in [Request -> [Allowance -> Status]]
  /\ unit \in [Request -> [Allowance -> Request]]
  /\ kept \in [Request -> BOOLEAN]
  /\ \A r \in Request : claim[r] = "RUNNING" => stage[r] # Autonomous /\ pc[r] \in {"working", "dead"}

Init ==
  /\ clock = 0
  /\ pc = [r \in Request |-> "idle"]
  /\ stage = [r \in Request |-> Autonomous]
  /\ workspace = [r \in Request |-> CHOOSE w \in Workspace : TRUE]
  /\ arrived = [r \in Request |-> 0]
  /\ claim = [r \in Request |-> "NONE"]
  /\ claimed = [r \in Request |-> 0]
  /\ finished = [r \in Request |-> 0]
  /\ row = [r \in Request |-> [l \in Allowance |-> "NONE"]]
  /\ unit = [r \in Request |-> [l \in Allowance |-> r]]
  /\ kept = [r \in Request |-> FALSE]

-----------------------------------------------------------------------------
(* The ledger.                                                             *)

(* Seeded fault: the sweep spares what a running claim may still need.     *)
ExpiredUnclaimed(q, t) == arrived[q] + TTL <= t /\ claim[q] # "RUNNING"

Expired(q, t) == arrived[q] + TTL <= t

(* The rows once release_expired has run.                                  *)
Unexpired(t) ==
  [q \in Request |-> [l \in Allowance |->
     IF row[q][l] = "RESERVED" /\ Expired(q, t) THEN "SWEPT" ELSE row[q][l]]]

(* live_by_key: the key is the workspace, whatever the stage.              *)
LiveByKey(rows, w, l) == {q \in Request : workspace[q] = w /\ rows[q][l] \in LIVE_STATUSES}

(* Seeded fault: only settled units count.                                 *)
ConsumedOnly(rows, l) == Cardinality({q \in Request : rows[q][l] = "CONSUMED"})

Used(rows, l) == Cardinality({q \in Request : rows[q][l] \in LIVE_STATUSES})

(* reserve of every allowance a request needs, all or none: a live row of  *)
(* the same key is shared, else a row is inserted within the limit.        *)
Reserve(r) ==
  LET rows == Unexpired(arrived[r])
      live(l) == LiveByKey(rows, workspace[r], l)
      new == {l \in Needs(r) : live(l) = {}} IN
  /\ \A l \in new : Used(rows, l) + 1 <= Limit[l]
  /\ row' = [rows EXCEPT ![r] = [l \in Allowance |-> IF l \in new THEN "RESERVED" ELSE @[l]]]
  /\ unit' = [unit EXCEPT ![r] = [l \in Allowance |->
                IF l \in Needs(r) \ new THEN CHOOSE q \in live(l) : TRUE ELSE r]]

(* Seeded fault: whatever became of the row.                               *)
SettledAnyway(r, status) ==
  [row EXCEPT ![r] = [l \in Allowance |-> IF @[l] # "NONE" THEN status ELSE @[l]]]

(* settle: only a reserved row, and only by the request that inserted it.  *)
Settled(r, status) ==
  [row EXCEPT ![r] = [l \in Allowance |-> IF @[l] = "RESERVED" THEN status ELSE @[l]]]

-----------------------------------------------------------------------------
(* The claims of an action: claim_action and finish_action.                *)

Same(r, q) == stage[q] = stage[r] /\ workspace[q] = workspace[r]

Lapsed(q) == claim[q] = "RUNNING" /\ claimed[q] + TTL <= clock

(* Seeded fault: a request that waited for the lock reruns the action.     *)
InProgressIfRunning(r) == \E q \in Request : Same(r, q) /\ claim[q] = "RUNNING" /\ ~Lapsed(q)

InProgress(r) ==
  \E q \in Request :
    /\ Same(r, q)
    /\ \/ claim[q] = "RUNNING" /\ ~Lapsed(q)
       \/ claim[q] = "SUCCEEDED" /\ finished[q] > arrived[r]

Claim(r) ==
  /\ claim' = [q \in Request |-> CASE q = r -> "RUNNING"
                                   [] q # r /\ Same(r, q) /\ Lapsed(q) -> "ABANDONED"
                                   [] OTHER -> claim[q]]
  /\ claimed' = [claimed EXCEPT ![r] = clock]
  /\ finished' = [q \in Request |-> IF q # r /\ Same(r, q) /\ Lapsed(q) THEN clock ELSE finished[q]]

FinishAction(r, status) ==
  IF claim[r] = "RUNNING"
  THEN /\ claim' = [claim EXCEPT ![r] = status]
       /\ finished' = [finished EXCEPT ![r] = clock]
       /\ UNCHANGED claimed
  ELSE UNCHANGED action

-----------------------------------------------------------------------------
(* metered, and the two halves of an autonomous step.                      *)

Moves(r, from, to) == pc[r] = from /\ pc' = [pc EXCEPT ![r] = to]

Arrive(r, s, w) ==
  /\ clock <= LastArrival /\ <<s, w>> \in Ask[r]
  /\ Moves(r, "idle", "arrived")
  /\ stage' = [stage EXCEPT ![r] = s]
  /\ workspace' = [workspace EXCEPT ![r] = w]
  /\ arrived' = [arrived EXCEPT ![r] = clock]
  /\ UNCHANGED <<clock, action, row, unit, kept>>

(* The first account transaction: all of it, or nothing.                   *)
Admit(r) ==
  /\ Moves(r, "arrived", "working")
  /\ IF stage[r] = Autonomous THEN UNCHANGED action ELSE ~InProgress(r) /\ Claim(r)
  /\ Reserve(r)
  /\ UNCHANGED <<clock, request, kept>>

(* ActionInProgress or AllowanceExhausted.                                 *)
Refuse(r) ==
  /\ Moves(r, "arrived", "refused")
  /\ \/ stage[r] # Autonomous /\ InProgress(r)
     \/ LET rows == Unexpired(arrived[r]) IN
        \E l \in Needs(r) : LiveByKey(rows, workspace[r], l) = {} /\ Used(rows, l) >= Limit[l]
  /\ UNCHANGED <<clock, request, action, row, unit, kept>>

(* The work commits what it wrote: during it (an artifact as it is saved, a*)
(* paid step through its fence) or at its end.  The thread of an autonomous*)
(* step may still do so when its driver has given it up.                   *)
Keep(r) ==
  /\ ~kept[r]
  /\ pc[r] = "working" \/ (stage[r] = Autonomous /\ pc[r] \in {"failed", "dead"})
  /\ kept' = [kept EXCEPT ![r] = TRUE]
  /\ UNCHANGED <<clock, pc, request, action, row, unit>>

(* Seeded fault: a failure releases the unit although another inserted it. *)
ReleaseUnit(r) ==
  /\ stage[r] # Autonomous
  /\ Moves(r, "working", "failed")
  /\ row' = [q \in Request |-> [l \in Allowance |->
               IF l \in Needs(r) /\ q = unit[r][l] /\ row[q][l] = "RESERVED" THEN "RELEASED" ELSE row[q][l]]]
  /\ FinishAction(r, "FAILED")
  /\ UNCHANGED <<clock, request, unit, kept>>

(* metered: the work raised.  Only what it had not committed is rolled     *)
(* back.                                                                   *)
SettleFailure(r) ==
  /\ stage[r] # Autonomous
  /\ Moves(r, "working", "failed")
  /\ row' = Settled(r, "RELEASED")
  /\ FinishAction(r, "FAILED")
  /\ UNCHANGED <<clock, request, unit, kept>>

(* settle_autonomous_prepare: the attempt did not begin, or the step raised*)
(* or timed out or lost its lease, whether or not it had committed.        *)
Unreserve(r) ==
  /\ stage[r] = Autonomous
  /\ Moves(r, "working", "failed")
  /\ row' = Settled(r, "RELEASED")
  /\ UNCHANGED <<clock, request, action, unit, kept>>

(* The work has committed.  A unit released meanwhile is not consumed,     *)
(* and only warned of.                                                     *)
SettleSuccess(r) ==
  /\ kept[r]
  /\ Moves(r, "working", "done")
  /\ row' = Settled(r, "CONSUMED")
  /\ FinishAction(r, "SUCCEEDED")
  /\ UNCHANGED <<clock, request, unit, kept>>

(* The process dies, before or after the work's own commit, or the         *)
(* transaction that settles fails.                                         *)
Die(r) ==
  /\ Moves(r, "working", "dead")
  /\ UNCHANGED <<clock, request, action, row, unit, kept>>

(* usage.sweep of the worker.                                              *)
SweepExpired ==
  /\ row # Unexpired(clock)
  /\ row' = Unexpired(clock)
  /\ UNCHANGED <<clock, pc, request, action, unit, kept>>

Time ==
  /\ clock < MaxTime
  /\ clock' = clock + 1
  /\ UNCHANGED <<pc, request, action, row, unit, kept>>

Next ==
  \/ \E r \in Request :
       \/ \E s \in Stage \cup {Autonomous}, w \in Workspace : Arrive(r, s, w)
       \/ Admit(r) \/ Refuse(r) \/ Keep(r)
       \/ SettleFailure(r) \/ Unreserve(r) \/ SettleSuccess(r) \/ Die(r)
  \/ SweepExpired
  \/ Time

(* The worker's schedule and a clock that runs; work may take for ever.    *)
Fairness == WF_clock(Time) /\ WF_vars(SweepExpired)

Spec == Init /\ [][Next]_vars /\ Fairness

-----------------------------------------------------------------------------
(* Properties.                                                             *)

(* No order of arrivals, sweeps, failures and late settlements uses more   *)
(* of an allowance than the plan has, or two units for one workspace:      *)
(* "one unit per application and window".                                  *)
UsedWithinLimit ==
  \A l \in Allowance :
    /\ Used(row, l) <= Limit[l]
    /\ \A w \in Workspace : Cardinality(LiveByKey(row, w, l)) <= 1

(* Of two executions of an action that count as succeeded, one was asked   *)
(* for after the other had finished: neither a duplicate that waited for   *)
(* the lock nor a worker that was taken over after its lease is another.   *)
SuccessesAreSequential ==
  \A r, q \in Request :
    r # q /\ Same(r, q) /\ claim[r] = "SUCCEEDED" /\ claim[q] = "SUCCEEDED" =>
      arrived[r] >= finished[q] \/ arrived[q] >= finished[r]

(* Work that is kept is paid for, also when its request failed or died     *)
(* after it: it is free only if the unit it relied on expired under way, or*)
(* the request that reserved that unit (it or another) failed, or died with*)
(* it reserved, or is another that still works.                            *)
KeptWorkIsPaid ==
  \A r \in Request : \A l \in Needs(r) :
    LET q == unit[r][l] IN
    kept[r] /\ pc[r] # "working" =>
      \/ row[q][l] = "CONSUMED"
      \/ row[q][l] = "SWEPT" /\ arrived[q] + TTL <= clock
      \/ row[q][l] = "RELEASED" /\ pc[q] = "failed"
      \/ row[q][l] = "RESERVED" /\ (pc[q] = "dead" \/ (q # r /\ pc[q] = "working"))

(* No unit stays reserved for ever, even when the process that reserved it *)
(* died: there is always a later moment with none (the requests are finite *)
(* in number).                                                             *)
ReservationsSettle ==
  []<>(\A r \in Request : \A l \in Allowance : row[r][l] # "RESERVED")

-----------------------------------------------------------------------------
(* What the ledger is for: a Budget of both allowances, seen through the   *)
(* rows of the requests.                                                   *)

UnitOf(status) ==
  CASE status = "NONE" -> "none"
    [] status = "RESERVED" -> "reserved"
    [] status = "CONSUMED" -> "spent"
    [] status \in {"RELEASED", "SWEPT"} -> "freed"

Units == [r \in Request |-> [l \in Allowance |-> UnitOf(row[r][l])]]

Promise == INSTANCE Budget WITH Charge <- Request, Scope <- Allowance, unit <- Units

(* Every history of the ledger is one of its budgets: a request takes its  *)
(* units together or not at all, what a sweep has freed no late settlement *)
(* takes back, and a unit that was consumed is never freed.                *)
KeepsPlan == Promise!Spec

=============================================================================

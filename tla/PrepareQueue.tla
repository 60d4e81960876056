---------------------------- MODULE PrepareQueue ----------------------------
(***************************************************************************)
(* The unattended preparation of applications and candidates               *)
(* (webapp/services/autonomy_scheduler.py, autonomy_fence.py and           *)
(* webapp/persistence/autonomy_prepare.py).  Drivers (the in-app thread,   *)
(* the worker's tick, the command line) share a queue of items under fenced*)
(* leases.  A tick sweeps orphaned attempts, then runs at most one paid    *)
(* step of each due item on a thread of its own, which commits only while  *)
(* its lease is held.                                                      *)
(*                                                                         *)
(* A tick judges its leases by the time it began at (now); the step's fence*)
(* and the end of a step read the clock.  An attempt is a row STARTED of   *)
(* autonomy_prepare_steps together with the thread that runs it and its    *)
(* budget reservations, one unit of the day and one of the item.           *)
(***************************************************************************)
EXTENDS Integers, FiniteSets

CONSTANTS
  Item, Driver, NoDriver,
  Steps,               \* paid steps of a preparation
  StepTimeout, LeaseMargin, RetryDelay,
  MaxAttemptsPerCycle, \* MAX_ATTEMPTS_PER_CYCLE
  DayCap, ItemCap,     \* policy limits.budgets.LLM: per_day, per_application
  MaxAttempts, MaxLeases,  \* bounds of the exploration
  MaxFaults,           \* changes of inputs and crashes together
  LastLease, MaxTime   \* no lease is taken after LastLease; the clock's end

ASSUME PrepareAssumption ==
  /\ NoDriver \notin Driver
  /\ IsFiniteSet(Item) /\ Item # {}
  /\ {Steps, StepTimeout, LeaseMargin, RetryDelay, MaxAttemptsPerCycle, DayCap,
      ItemCap, MaxAttempts, MaxLeases, MaxFaults, LastLease, MaxTime} \subseteq Nat
  /\ StepTimeout + LeaseMargin > 0

VARIABLES
  clock,
  lease,     \* lease_holder, lease_generation, lease_expires_at of an item
  eligible,  \* next_eligible_at; Dormant for NULL
  inputs,    \* how often the material inputs of an item have changed
  stage,     \* how many steps have a current output
  failures,  \* cycle_failures of the item's next step
  started,   \* attempts begun so far
  attempt,   \* item, holder, generation, step, inputs and time of a STARTED row
  thread,    \* where the step of an attempt is
  res,       \* the status of its reservations
  verdicts,  \* its terminal rows
  pc, tick, job,  \* a driver: its place, its tick, the item it is working on
  faults          \* changes of inputs and crashes so far

leases == <<lease, eligible>>
facts == <<inputs, stage>>
log == <<started, attempt, res, verdicts, failures>>
driver == <<pc, tick, job>>
vars == <<clock, leases, facts, log, thread, driver, faults>>

Dormant == -1
Attempt == 1 .. MaxAttempts
Lease == [holder : Driver \cup {NoDriver}, gen : Nat, expires : Nat]
Row == [item : Item, owner : Driver, gen : Nat, step : Nat, basis : Nat, since : Nat]
Done == {"COMMITTED", "TRANSIENT", "OTHER", "REFUSED"}
Thread == {"NONE", "RUNNING", "DEAD"} \cup Done
Verdict == {"SUCCEEDED", "REUSED", "FAILED", "ABANDONED"}
(* seen: the lease generation that the tick read of each item, Vacant when *)
(* the lease was free or had expired, Swept when it is done with the item. *)
Vacant == -1
Swept == -2
Tick == [now : Nat, seen : [Item -> Nat \cup {Vacant, Swept}], orphans : SUBSET Attempt, due : SUBSET Item]
(* step: what next_prepare_step gave, 0 when the item is done or needs its *)
(* user; tries: cycle_failures then.                                       *)
Job == [item : Item, gen : Nat, att : Attempt \cup {0}, basis : Nat, step : Nat, tries : Nat,
        late : BOOLEAN]
Place == {"idle", "sweep", "pick", "derived", "wait", "finish"}

NoTick == [now |-> 0, seen |-> [i \in Item |-> Swept], orphans |-> {}, due |-> {}]
NoJob == [item |-> CHOOSE i \in Item : TRUE, gen |-> 0, att |-> 0, basis |-> 0, step |-> 0, tries |-> 0,
          late |-> FALSE]

PrepareTypeOK ==
  /\ clock \in 0 .. MaxTime
  /\ lease \in [Item -> Lease]
  /\ eligible \in [Item -> Nat \cup {Dormant}]
  /\ inputs \in [Item -> 0 .. MaxFaults]
  /\ stage \in [Item -> 0 .. Steps]
  /\ failures \in [Item -> Nat]
  /\ started \in 0 .. MaxAttempts
  /\ attempt \in [1 .. started -> Row]
  /\ thread \in [Attempt -> Thread]
  /\ res \in [Attempt -> {"NONE", "RESERVED", "CONSUMED"}]
  /\ verdicts \in [Attempt -> SUBSET Verdict]
  /\ pc \in [Driver -> Place]
  /\ tick \in [Driver -> Tick]
  /\ job \in [Driver -> Job]
  /\ faults \in 0 .. MaxFaults
  /\ \A a \in Attempt : res[a] = "NONE" <=> a > started

Init ==
  /\ clock = 0
  /\ lease = [i \in Item |-> [holder |-> NoDriver, gen |-> 0, expires |-> 0]]
  /\ eligible = [i \in Item |-> 0]
  /\ inputs = [i \in Item |-> 0]
  /\ stage = [i \in Item |-> 0]
  /\ failures = [i \in Item |-> 0]
  /\ started = 0
  /\ attempt = <<>>
  /\ thread = [a \in Attempt |-> "NONE"]
  /\ res = [a \in Attempt |-> "NONE"]
  /\ verdicts = [a \in Attempt |-> {}]
  /\ pc = [d \in Driver |-> "idle"]
  /\ tick = [d \in Driver |-> NoTick]
  /\ job = [d \in Driver |-> NoJob]
  /\ faults = 0

-----------------------------------------------------------------------------
(* Leases.                                                                 *)

(* lease_is_held.                                                          *)
Held(i, d, g, t) == lease[i].holder = d /\ lease[i].gen = g /\ lease[i].expires > t

(* Seeded fault: a lease ends only when its holder gives it back.          *)
FreeWhenReleased(i, t) == lease[i].holder = NoDriver

Free(i, t) == lease[i].holder = NoDriver \/ lease[i].expires <= t

(* due_items, and the condition of acquire_lease.                          *)
Due(i, t) == eligible[i] # Dormant /\ eligible[i] <= t /\ Free(i, t)

Mine(d, t) == Held(job[d].item, d, job[d].gen, t)

(* finalize_lease: writes only for the holder of an unexpired lease.       *)
Finalize(d, t, next) ==
  LET i == job[d].item IN
  IF Mine(d, t)
  THEN /\ lease' = [lease EXCEPT ![i] = [@ EXCEPT !.holder = NoDriver, !.expires = 0]]
       /\ eligible' = [eligible EXCEPT ![i] = next]
  ELSE UNCHANGED leases

(* The rows that a budget counts: reserved and consumed alike.             *)
Charged == {a \in Attempt : res[a] # "NONE"}
ChargedTo(i) == {a \in Charged : attempt[a].item = i}

Expected(a) == attempt[a].basis = inputs[attempt[a].item] /\ attempt[a].step = stage[attempt[a].item] + 1

(* What a terminal row adds to cycle_failures of the item's next step.     *)
Count(a, failed) ==
  failures' = IF Expected(a)
              THEN [failures EXCEPT ![attempt[a].item] = IF failed THEN @ + 1 ELSE 0]
              ELSE failures

Goto(d, place) == pc' = [pc EXCEPT ![d] = place]

-----------------------------------------------------------------------------
(* The sweep of a tick: _recover_orphans.                                  *)

(* run_tick: the rows of the queue are read at once.                       *)
StartTick(d) ==
  /\ pc[d] = "idle"
  /\ tick' = [tick EXCEPT ![d] =
       [NoTick EXCEPT !.now = clock,
                      !.seen = [i \in Item |-> IF Free(i, clock) THEN Vacant ELSE lease[i].gen]]]
  /\ Goto(d, "sweep")
  /\ UNCHANGED <<clock, leases, facts, log, thread, job, faults>>

(* orphaned_attempts of one item, judged by the row read before.           *)
VisitItem(d, i) ==
  /\ pc[d] = "sweep" /\ tick[d].orphans = {}
  /\ tick[d].seen[i] # Swept
  /\ LET gen == tick[d].seen[i] IN
     tick' = [tick EXCEPT ![d].seen[i] = Swept,
                          ![d].orphans = {a \in 1 .. started :
                             /\ attempt[a].item = i /\ verdicts[a] = {}
                             /\ gen = Vacant \/ gen > attempt[a].gen}]
  /\ UNCHANGED <<clock, leases, facts, log, thread, pc, job, faults>>

(* Seeded fault: the sweep gives the reservation back.                     *)
SettleByRelease(a) == res' = [res EXCEPT ![a] = "NONE"]

(* settle_reservation: only a reserved row.                                *)
Settle(a) == res' = [res EXCEPT ![a] = IF @ = "RESERVED" THEN "CONSUMED" ELSE @]

(* settles at the reserved maximum and ends the attempt, whatever others   *)
(* have made of it since the query.  _already_produced reads just before   *)
(* the transaction; what happens in between gives the same as after it.    *)
Recover(d, a) ==
  LET reused == stage[attempt[a].item] >= attempt[a].step IN
  /\ a \in tick[d].orphans
  /\ Settle(a)
  /\ verdicts' = [verdicts EXCEPT ![a] = @ \cup {IF reused THEN "REUSED" ELSE "ABANDONED"}]
  /\ Count(a, ~reused)
  /\ tick' = [tick EXCEPT ![d].orphans = @ \ {a}]
  /\ UNCHANGED <<clock, leases, facts, started, attempt, thread, pc, job, faults>>

(* The tick goes on with the items due, or ends.                           *)
Continue(d, due) ==
  /\ tick' = [tick EXCEPT ![d] = IF due = {} THEN NoTick ELSE [@ EXCEPT !.due = due]]
  /\ Goto(d, IF due = {} THEN "idle" ELSE "pick")

(* The items due at the time of the tick.                                  *)
SelectDue(d) ==
  /\ pc[d] = "sweep" /\ \A i \in Item : tick[d].seen[i] = Swept /\ tick[d].orphans = {}
  /\ Continue(d, {i \in Item : Due(i, tick[d].now)})
  /\ UNCHANGED <<clock, leases, facts, log, thread, job, faults>>

-----------------------------------------------------------------------------
(* One item.                                                               *)

CanLease(i, t) == t <= LastLease /\ lease[i].gen < MaxLeases /\ Due(i, t)

(* acquire_lease, for StepTimeout + LeaseMargin from when the tick began;  *)
(* prepare_snapshot and next_prepare_step.                                 *)
Acquire(d, i) ==
  /\ pc[d] = "pick" /\ i \in tick[d].due /\ CanLease(i, tick[d].now)
  /\ lease' = [lease EXCEPT ![i] = [holder |-> d, gen |-> @.gen + 1,
                                    expires |-> tick[d].now + StepTimeout + LeaseMargin]]
  /\ tick' = [tick EXCEPT ![d].due = @ \ {i}]
  /\ job' = [job EXCEPT ![d] =
       [NoJob EXCEPT !.item = i, !.gen = lease[i].gen + 1, !.basis = inputs[i], !.tries = failures[i],
                     !.step = IF stage[i] < Steps THEN stage[i] + 1 ELSE 0]]
  /\ Goto(d, "derived")
  /\ UNCHANGED <<clock, eligible, facts, log, thread, faults>>

(* Another driver was faster.                                              *)
Skip(d, i) ==
  /\ pc[d] = "pick" /\ i \in tick[d].due /\ ~CanLease(i, tick[d].now)
  /\ Continue(d, tick[d].due \ {i})
  /\ UNCHANGED <<clock, leases, facts, log, thread, job, faults>>

EndJob(d) == Continue(d, tick[d].due) /\ job' = [job EXCEPT ![d] = NoJob]

(* Paused, unenrolled or halted since: release_lease leaves it eligible.   *)
Release(d) ==
  /\ pc[d] = "derived"
  /\ Finalize(d, tick[d].now, eligible[job[d].item])
  /\ EndJob(d)
  /\ UNCHANGED <<clock, facts, log, thread, faults>>

(* Nothing left to run, or the person is needed.                           *)
GoDormant(d) ==
  /\ pc[d] = "derived" /\ job[d].step = 0
  /\ Finalize(d, tick[d].now, Dormant)
  /\ EndJob(d)
  /\ UNCHANGED <<clock, facts, log, thread, faults>>

(* The gate does not permit it for now or a budget is used up (until a     *)
(* time past the clock's end), or the cycle is escalated.                  *)
Decline(d) ==
  /\ pc[d] = "derived" /\ job[d].step # 0
  /\ Finalize(d, tick[d].now, IF job[d].tries >= MaxAttemptsPerCycle THEN Dormant ELSE MaxTime + 1)
  /\ EndJob(d)
  /\ UNCHANGED <<clock, facts, log, thread, faults>>

(* Seeded fault: a budget admits one call more.                            *)
WithinCapsAndOne(i) == Cardinality(Charged) <= DayCap /\ Cardinality(ChargedTo(i)) <= ItemCap

(* reserve_within_cap of both counters.                                    *)
WithinCaps(i) == Cardinality(Charged) < DayCap /\ Cardinality(ChargedTo(i)) < ItemCap

(* begin: reservations and the STARTED row, in one transaction; the thread *)
(* starts.                                                                 *)
Begin(d) ==
  LET i == job[d].item
      a == started + 1 IN
  /\ pc[d] = "derived" /\ job[d].step # 0
  /\ job[d].tries < MaxAttemptsPerCycle
  /\ started < MaxAttempts
  /\ Mine(d, tick[d].now)
  /\ WithinCaps(i)
  /\ started' = a
  /\ attempt' = [b \in 1 .. a |-> IF b = a
                   THEN [item |-> i, owner |-> d, gen |-> job[d].gen, step |-> job[d].step,
                         basis |-> job[d].basis, since |-> clock]
                   ELSE attempt[b]]
  /\ res' = [res EXCEPT ![a] = "RESERVED"]
  /\ thread' = [thread EXCEPT ![a] = "RUNNING"]
  /\ job' = [job EXCEPT ![d].att = a]
  /\ Goto(d, "wait")
  /\ UNCHANGED <<clock, leases, facts, verdicts, failures, tick, faults>>

(* The lease was lost before the step.                                     *)
LoseBefore(d) ==
  /\ pc[d] = "derived" /\ ~Mine(d, tick[d].now)
  /\ EndJob(d)
  /\ UNCHANGED <<clock, leases, facts, log, thread, faults>>

-----------------------------------------------------------------------------
(* The thread of a step: FencedStep and FencedConnection.                  *)

StillHeld(a) == Held(attempt[a].item, attempt[a].owner, attempt[a].gen, clock)

Moves(a, from, to) == thread[a] = from /\ thread' = [thread EXCEPT ![a] = to]

(* FencedConnection.commit: the output is current unless the inputs have   *)
(* changed since they were read.                                           *)
StepCommits(a) ==
  /\ StillHeld(a)
  /\ Moves(a, "RUNNING", "COMMITTED")
  /\ LET i == attempt[a].item IN
     IF Expected(a)
     THEN stage' = [stage EXCEPT ![i] = @ + 1] /\ failures' = [failures EXCEPT ![i] = 0]
     ELSE UNCHANGED <<stage, failures>>
  /\ UNCHANGED <<clock, leases, inputs, started, attempt, res, verdicts, driver, faults>>

(* LeaseLost: rolled back.                                                 *)
StepRefused(a) ==
  /\ ~StillHeld(a) /\ Moves(a, "RUNNING", "REFUSED")
  /\ UNCHANGED <<clock, leases, facts, log, driver, faults>>

StepRaises(a) ==
  /\ \E error \in {"TRANSIENT", "OTHER"} : Moves(a, "RUNNING", error)
  /\ UNCHANGED <<clock, leases, facts, log, driver, faults>>

-----------------------------------------------------------------------------
(* The driver after the step: _run_paid_fenced and _finish_paid.           *)

(* The step was done before the hard timeout.                              *)
StepDone(d) ==
  LET outcome == thread[job[d].att] IN
  /\ pc[d] = "wait" /\ outcome \in Done
  /\ IF outcome = "REFUSED" THEN EndJob(d) ELSE Goto(d, "finish") /\ UNCHANGED <<tick, job>>
  /\ UNCHANGED <<clock, leases, facts, log, thread, faults>>

(* Seeded fault: the timeout does not supersede the lease.                 *)
KeepGeneration(d, late) ==
  /\ job' = [job EXCEPT ![d].late = late]
  /\ UNCHANGED lease

(* supersede_lease: the driver's generation moves on, its lease remains.   *)
Supersede(d, late) ==
  /\ lease' = [lease EXCEPT ![job[d].item].gen = @ + 1]
  /\ job' = [job EXCEPT ![d].gen = @ + 1, ![d].late = late]

(* StepTimeout, unless the step has committed and returns before the       *)
(* driver looks again.                                                     *)
StepTimesOut(d) ==
  LET a == job[d].att IN
  /\ pc[d] = "wait" /\ thread[a] \in {"RUNNING", "COMMITTED"}
  /\ clock >= attempt[a].since + StepTimeout
  /\ IF Mine(d, clock)
     THEN /\ \E late \in BOOLEAN : (~late => thread[a] = "COMMITTED") /\ Supersede(d, late)
          /\ Goto(d, "finish")
          /\ UNCHANGED tick
     ELSE UNCHANGED lease /\ EndJob(d)
  /\ UNCHANGED <<clock, eligible, facts, log, thread, faults>>

(* _finish_paid: one transaction, only under the lease.  It counts the     *)
(* failures of its cycle again, its own included; those of inputs that are *)
(* no longer current are not kept here.                                    *)
Finish(d) ==
  LET a == job[d].att
      retry == job[d].late \/ thread[a] = "TRANSIENT"
      ok == ~retry /\ thread[a] = "COMMITTED" IN
  /\ pc[d] = "finish" /\ Mine(d, clock)
  /\ Settle(a)
  /\ verdicts' = [verdicts EXCEPT ![a] = @ \cup {IF ok THEN "SUCCEEDED" ELSE "FAILED"}]
  /\ Count(a, retry)
  /\ \E exhausted \in BOOLEAN :
       /\ Expected(a) => exhausted = (failures[attempt[a].item] + 1 >= MaxAttemptsPerCycle)
       /\ Finalize(d, clock, CASE ok -> clock
                               [] retry /\ ~exhausted -> clock + RetryDelay
                               [] OTHER -> Dormant)
  /\ EndJob(d)
  /\ UNCHANGED <<clock, facts, started, attempt, thread, faults>>

(* The attempt is left to recovery.                                        *)
LoseAfter(d) ==
  /\ pc[d] = "finish" /\ ~Mine(d, clock)
  /\ EndJob(d)
  /\ UNCHANGED <<clock, leases, facts, log, thread, faults>>

-----------------------------------------------------------------------------
(* The people, the process, the time.                                      *)

Wake(i) == eligible' = [eligible EXCEPT ![i] = clock]

(* New inputs wake the item in the transaction that writes them; they make *)
(* some of its outputs stale, and begin a new cycle.                       *)
InputsChange(i) ==
  /\ faults < MaxFaults
  /\ faults' = faults + 1
  /\ inputs' = [inputs EXCEPT ![i] = @ + 1]
  /\ \E s \in 0 .. stage[i] : stage' = [stage EXCEPT ![i] = s]
  /\ failures' = [failures EXCEPT ![i] = 0]
  /\ Wake(i)
  /\ UNCHANGED <<clock, lease, started, attempt, res, verdicts, thread, driver>>

(* A process dies with its threads; wake_all_on_start at its restart.      *)
CrashAndRestart(d) ==
  /\ faults < MaxFaults
  /\ faults' = faults + 1
  /\ thread' = [a \in Attempt |-> IF /\ a <= started /\ thread[a] = "RUNNING" /\ attempt[a].owner = d
                                  THEN "DEAD" ELSE thread[a]]
  /\ Goto(d, "idle")
  /\ tick' = [tick EXCEPT ![d] = NoTick]
  /\ job' = [job EXCEPT ![d] = NoJob]
  /\ eligible' = [i \in Item |-> clock]
  /\ UNCHANGED <<clock, lease, facts, log>>

Time ==
  /\ clock < MaxTime
  /\ clock' = clock + 1
  /\ UNCHANGED <<leases, facts, log, thread, driver, faults>>

Works(d) ==
  \/ StartTick(d) \/ SelectDue(d)
  \/ \E i \in Item : VisitItem(d, i) \/ Acquire(d, i)
  \/ \E a \in Attempt : Recover(d, a)
  \/ GoDormant(d) \/ Begin(d) \/ LoseBefore(d)
  \/ StepDone(d) \/ StepTimesOut(d) \/ Finish(d) \/ LoseAfter(d)

Declines(d) == Release(d) \/ Decline(d) \/ \E i \in Item : Skip(d, i)

Runs(a) == StepCommits(a) \/ StepRefused(a) \/ StepRaises(a)

Next ==
  \/ \E d \in Driver : Works(d) \/ Declines(d) \/ CrashAndRestart(d)
  \/ \E a \in 1 .. started : Runs(a)
  \/ \E i \in Item : InputsChange(i)
  \/ Time

(* A driver's loop goes on and a clock runs.  A step may take for ever: it *)
(* is the driver that stops waiting for it.                                *)
Fairness == WF_clock(Time) /\ \A d \in Driver : WF_vars(Works(d) \/ Declines(d))

Spec == Init /\ [][Next]_vars /\ Fairness

-----------------------------------------------------------------------------
(* Properties.                                                             *)

(* The unsettled and the settled calls of a day, and of an item, stay      *)
(* within the person's budget, whichever drivers reserve them: "concurrent *)
(* workers cannot overspend" (the design, 11.3).                           *)
SpendWithinCaps ==
  /\ Cardinality(Charged) <= DayCap
  /\ \A i \in Item : Cardinality(ChargedTo(i)) <= ItemCap

(* A step never writes its output after its driver declared it timed out   *)
(* or failed, nor beside a driver that works on the item under a younger   *)
(* lease: an abandoned thread cannot surface later (autonomy_fence.py).    *)
OnlyTheYoungestCommits ==
  [][\A a \in 1 .. started :
       thread[a] # "COMMITTED" /\ thread'[a] = "COMMITTED" =>
         /\ "FAILED" \notin verdicts[a]
         /\ \A d \in Driver : pc[d] \in {"derived", "wait", "finish"} /\ job[d].item = attempt[a].item =>
              job[d].gen <= attempt[a].gen /\ ~(job[d].att = a /\ job[d].late)]_vars

(* Every attempt begun gets a terminal row and its reservations are        *)
(* settled, whatever crashes, by its driver or by a sweep: as there are at *)
(* most MaxAttempts, there is always a later moment with none open.        *)
AttemptsEnd ==
  []<>(\A a \in 1 .. started : verdicts[a] # {} /\ res[a] = "CONSUMED")

-----------------------------------------------------------------------------
(* What the reservations are for: a Budget of the day and of each item,    *)
(* seen through the rows that count.                                       *)

Scope == {[per |-> "day", of |-> Item]} \cup {[per |-> "application", of |-> {i}] : i \in Item}

Cap == [s \in Scope |-> IF s.per = "day" THEN DayCap ELSE ItemCap]

UnitOf(a, s) ==
  IF a \in Charged /\ attempt[a].item \in s.of
  THEN IF res[a] = "RESERVED" THEN "reserved" ELSE "spent"
  ELSE "none"

Units == [a \in Attempt |-> [s \in Scope |-> UnitOf(a, s)]]

Promise == INSTANCE Budget WITH Charge <- Attempt, Limit <- Cap, unit <- Units

(* Every history of the queue is one of its budgets: an attempt is charged *)
(* once, to its day and its item together, within both caps, and stays     *)
(* charged when its driver and a sweep both settle it.                     *)
KeepsBudgets == Promise!Spec

=============================================================================

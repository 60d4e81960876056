------------------------- MODULE PrepareQueueProofs -------------------------
(***************************************************************************)
(* Proofs about PrepareQueue for any items, drivers, limits and bounds.    *)
(***************************************************************************)
EXTENDS PrepareQueue, FiniteSetTheorems, TLAPS

LEMMA Constants ==
  /\ Steps \in Nat /\ StepTimeout \in Nat /\ LeaseMargin \in Nat /\ RetryDelay \in Nat
  /\ MaxAttemptsPerCycle \in Nat /\ DayCap \in Nat /\ ItemCap \in Nat /\ MaxAttempts \in Nat
  /\ MaxLeases \in Nat /\ MaxFaults \in Nat /\ LastLease \in Nat /\ MaxTime \in Nat
  /\ NoDriver \notin Driver /\ Item # {}
BY PrepareAssumption DEF PrepareAssumption

-----------------------------------------------------------------------------
(* Types.                                                                  *)

(* No attempt is past the last step, and every change was counted.         *)
StepsExist ==
  /\ \A a \in 1 .. started : attempt[a].step <= Steps
  /\ \A d \in Driver : job[d].step <= Steps
InputsCounted == \A i \in Item : inputs[i] <= faults

TypeInv == PrepareTypeOK /\ StepsExist /\ InputsCounted

(* The rest of the type invariant, for the steps that leave it alone.      *)
FactsType ==
  /\ clock \in 0 .. MaxTime
  /\ inputs \in [Item -> 0 .. MaxFaults]
  /\ stage \in [Item -> 0 .. Steps]
  /\ faults \in 0 .. MaxFaults
  /\ InputsCounted
QueueType ==
  /\ lease \in [Item -> Lease]
  /\ eligible \in [Item -> Nat \cup {Dormant}]
LogType ==
  /\ failures \in [Item -> Nat]
  /\ started \in 0 .. MaxAttempts
  /\ attempt \in [1 .. started -> Row]
  /\ \A a \in 1 .. started : attempt[a].step <= Steps
  /\ verdicts \in [Attempt -> SUBSET Verdict]
RunType ==
  /\ thread \in [Attempt -> Thread]
  /\ res \in [Attempt -> {"NONE", "RESERVED", "CONSUMED"}]
  /\ \A a \in Attempt : res[a] = "NONE" <=> a > started
DriverType ==
  /\ pc \in [Driver -> Place]
  /\ tick \in [Driver -> Tick]
  /\ job \in [Driver -> Job]
  /\ \A d \in Driver : job[d].step <= Steps

LEMMA Parts == TypeInv <=> FactsType /\ QueueType /\ LogType /\ RunType /\ DriverType
BY DEF TypeInv, PrepareTypeOK, StepsExist, FactsType, QueueType, LogType, RunType, DriverType

LEMMA Together == FactsType' /\ QueueType' /\ LogType' /\ RunType' /\ DriverType' => TypeInv'
BY DEF TypeInv, PrepareTypeOK, StepsExist, FactsType, QueueType, LogType, RunType, DriverType

LEMMA NoTickType == NoTick \in Tick /\ NoJob \in Job /\ NoJob.step = 0
<1>1. (CHOOSE i \in Item : TRUE) \in Item
  BY Constants
<1>2. NoTick \in Tick
  BY DEF NoTick, Tick
<1>3. QED
  BY <1>1, <1>2 DEF NoJob, Job

LEMMA FinalizeType ==
  ASSUME TypeInv, NEW d \in Driver, NEW t, NEW next \in Nat \cup {Dormant}, Finalize(d, t, next)
  PROVE  /\ QueueType'
         /\ \A i \in Item : lease'[i].gen = lease[i].gen
<1>1. QueueType
  BY Parts
<1>2. CASE Mine(d, t)
  <2> DEFINE old == lease[job[d].item]
             freed == [old EXCEPT !.holder = NoDriver, !.expires = 0]
  <2>1. /\ lease' = [lease EXCEPT ![job[d].item] = freed]
        /\ eligible' = [eligible EXCEPT ![job[d].item] = next]
    BY <1>2 DEF Finalize
  <2>2. job[d].item \in Item
    BY DEF TypeInv, PrepareTypeOK, Job
  <2>3. old \in Lease
    BY <1>1, <2>2 DEF QueueType
  <2>4. freed \in Lease /\ freed.gen = old.gen
    BY <2>3 DEF Lease
  <2> HIDE DEF freed
  <2>5. QED
    BY <1>1, <2>1, <2>2, <2>4 DEF QueueType
<1>3. CASE ~Mine(d, t)
  BY <1>1, <1>3 DEF Finalize, leases, QueueType
<1>4. QED
  BY <1>2, <1>3

LEMMA ContinueType ==
  ASSUME TypeInv, NEW d \in Driver, NEW due \in SUBSET Item, Continue(d, due)
  PROVE  /\ pc' \in [Driver -> Place] /\ tick' \in [Driver -> Tick]
         /\ pc'[d] \in {"idle", "pick"} /\ \A e \in Driver \ {d} : pc'[e] = pc[e]
<1>1. tick[d] \in Tick
  BY DEF TypeInv, PrepareTypeOK
<1>2. [tick[d] EXCEPT !.due = due] \in Tick
  BY <1>1 DEF Tick
<1>3. tick' \in [Driver -> Tick]
  BY <1>2, NoTickType DEF Continue, TypeInv, PrepareTypeOK
<1>4. QED
  BY <1>3 DEF Continue, Goto, TypeInv, PrepareTypeOK, Place

LEMMA EndJobType ==
  ASSUME TypeInv, NEW d \in Driver, EndJob(d)
  PROVE  /\ DriverType'
         /\ pc'[d] \in {"idle", "pick"}
         /\ \A e \in Driver \ {d} : pc'[e] = pc[e] /\ job'[e] = job[e]
<1>1. tick[d].due \in SUBSET Item
  BY DEF TypeInv, PrepareTypeOK, Tick
<1>2. /\ pc' \in [Driver -> Place] /\ tick' \in [Driver -> Tick]
      /\ pc'[d] \in {"idle", "pick"} /\ \A e \in Driver \ {d} : pc'[e] = pc[e]
  BY <1>1, ContinueType DEF EndJob
<1>3. /\ job' \in [Driver -> Job] /\ job'[d] = NoJob
      /\ \A e \in Driver \ {d} : job'[e] = job[e]
  BY NoTickType DEF EndJob, TypeInv, PrepareTypeOK
<1>4. \A e \in Driver : job'[e].step <= Steps
  BY <1>3, NoTickType, Constants DEF TypeInv, StepsExist
<1>5. QED
  BY <1>2, <1>3, <1>4 DEF DriverType

LEMMA SettleType ==
  ASSUME TypeInv, NEW a, Settle(a), UNCHANGED <<started, thread>>
  PROVE  /\ RunType'
         /\ \A b \in Attempt : res'[b] = "NONE" <=> res[b] = "NONE"
<1>1. RunType
  BY Parts
<1>2. \A b \in Attempt : res'[b] = IF b = a /\ res[b] = "RESERVED" THEN "CONSUMED" ELSE res[b]
  BY <1>1 DEF Settle, RunType
<1>3. res' \in [Attempt -> {"NONE", "RESERVED", "CONSUMED"}]
  BY <1>1 DEF Settle, RunType
<1>4. QED
  BY <1>1, <1>2, <1>3 DEF RunType, Attempt

LEMMA CountType ==
  ASSUME TypeInv, NEW a, NEW failed \in BOOLEAN, Count(a, failed)
  PROVE  failures' \in [Item -> Nat]
<1>1. failures \in [Item -> Nat]
  BY DEF TypeInv, PrepareTypeOK
<1>2. \A x : [failures EXCEPT ![x] = IF failed THEN @ + 1 ELSE 0] \in [Item -> Nat]
  <2> SUFFICES ASSUME NEW x
               PROVE  [failures EXCEPT ![x] = IF failed THEN @ + 1 ELSE 0] \in [Item -> Nat]
    OBVIOUS
  <2>1. CASE x \in Item
    <3>1. failures[x] + 1 \in Nat
      BY <1>1, <2>1
    <3>2. QED
      BY <1>1, <3>1
  <2>2. CASE x \notin Item
    BY <1>1, <2>2
  <2>3. QED
    BY <2>1, <2>2
<1>3. QED
  BY <1>1, <1>2 DEF Count

LEMMA InitType == Init => TypeInv
<1> SUFFICES ASSUME Init
             PROVE  TypeInv
  OBVIOUS
<1>1. FactsType
  BY Constants DEF Init, FactsType, InputsCounted
<1>2. QueueType
  BY DEF Init, QueueType, Lease
<1>3. LogType
  BY Constants DEF Init, LogType
<1>4. RunType
  BY DEF Init, RunType, Attempt, Thread
<1>5. DriverType
  BY NoTickType, Constants DEF Init, DriverType, Place
<1>6. QED
  BY <1>1, <1>2, <1>3, <1>4, <1>5, Parts

(* The sweep.                                                              *)
LEMMA SweepType ==
  ASSUME TypeInv, NEW d \in Driver,
         StartTick(d) \/ (\E i \in Item : VisitItem(d, i)) \/ SelectDue(d)
  PROVE  TypeInv'
<1>1. /\ FactsType /\ QueueType /\ LogType /\ RunType /\ DriverType
      /\ UNCHANGED <<clock, leases, facts, log, thread, job, faults>>
  BY Parts DEF StartTick, VisitItem, SelectDue
<1>2. FactsType' /\ QueueType' /\ LogType' /\ RunType'
  BY <1>1 DEF FactsType, InputsCounted, QueueType, LogType, RunType, leases, facts, log
<1>3. CASE StartTick(d)
  <2> DEFINE seen == [i \in Item |-> IF Free(i, clock) THEN Vacant ELSE lease[i].gen]
  <2>1. seen \in [Item -> Nat \cup {Vacant, Swept}] /\ clock \in Nat
    BY <1>1 DEF QueueType, Lease, FactsType
  <2>2. tick' = [tick EXCEPT ![d] = [NoTick EXCEPT !.now = clock, !.seen = seen]]
    BY <1>3 DEF StartTick
  <2> HIDE DEF seen
  <2>3. [NoTick EXCEPT !.now = clock, !.seen = seen] \in Tick
    BY <2>1, NoTickType DEF Tick
  <2>4. tick' \in [Driver -> Tick] /\ pc' \in [Driver -> Place]
    BY <1>1, <1>3, <2>2, <2>3 DEF DriverType, StartTick, Goto, Place
  <2>5. QED
    BY <1>1, <1>2, <2>4, Together DEF DriverType
<1>4. CASE \E i \in Item : VisitItem(d, i)
  <2>1. PICK i \in Item : VisitItem(d, i)
    BY <1>4
  <2>2. PICK orphans \in SUBSET (1 .. started) :
          tick' = [tick EXCEPT ![d].seen[i] = Swept, ![d].orphans = orphans]
    BY <2>1 DEF VisitItem
  <2>3. orphans \in SUBSET Attempt
    BY <1>1, Constants DEF LogType, Attempt
  <2>4. tick[d] \in Tick
    BY <1>1 DEF DriverType
  <2>5. [tick[d] EXCEPT !.seen[i] = Swept, !.orphans = orphans] \in Tick
    BY <2>3, <2>4 DEF Tick
  <2>6. tick' = [tick EXCEPT ![d] = [tick[d] EXCEPT !.seen[i] = Swept, !.orphans = orphans]]
    BY <1>1, <2>2 DEF DriverType
  <2>7. tick' \in [Driver -> Tick] /\ pc' = pc
    BY <1>1, <2>1, <2>5, <2>6 DEF DriverType, VisitItem
  <2>8. QED
    BY <1>1, <1>2, <2>7, Together DEF DriverType
<1>5. CASE SelectDue(d)
  <2>1. pc' \in [Driver -> Place] /\ tick' \in [Driver -> Tick]
    BY <1>5, ContinueType DEF SelectDue
  <2>2. QED
    BY <1>1, <1>2, <2>1, Together DEF DriverType
<1>6. QED
  BY <1>3, <1>4, <1>5

LEMMA RecoverType ==
  ASSUME TypeInv, NEW d \in Driver, NEW a \in Attempt, Recover(d, a)
  PROVE  TypeInv'
<1>1. /\ FactsType /\ QueueType /\ LogType /\ RunType /\ DriverType
      /\ UNCHANGED <<clock, leases, facts, started, attempt, thread, pc, job, faults>>
  BY Parts DEF Recover
<1>2. FactsType' /\ QueueType'
  BY <1>1 DEF FactsType, InputsCounted, QueueType, leases, facts
<1>3. RunType'
  BY <1>1, SettleType DEF Recover
<1>4. PICK reused \in BOOLEAN :
        /\ verdicts' = [verdicts EXCEPT ![a] = @ \cup {IF reused THEN "REUSED" ELSE "ABANDONED"}]
        /\ Count(a, ~reused)
  BY DEF Recover
<1>5. failures' \in [Item -> Nat]
  BY <1>4, CountType
<1>6. verdicts' \in [Attempt -> SUBSET Verdict]
  BY <1>1, <1>4 DEF LogType, Verdict
<1>7. LogType'
  BY <1>1, <1>5, <1>6 DEF LogType
<1>8. tick[d] \in Tick
  BY <1>1 DEF DriverType
<1>9. [tick[d] EXCEPT !.orphans = @ \ {a}] \in Tick
  BY <1>8 DEF Tick
<1>10. tick' = [tick EXCEPT ![d] = [tick[d] EXCEPT !.orphans = @ \ {a}]]
  BY <1>1 DEF Recover, DriverType
<1>11. DriverType'
  BY <1>1, <1>9, <1>10 DEF DriverType
<1>12. QED
  BY <1>2, <1>3, <1>7, <1>11, Together

(* One item, until its step begins.                                        *)
LEMMA AcquireType ==
  ASSUME TypeInv, NEW d \in Driver, NEW i \in Item, Acquire(d, i)
  PROVE  TypeInv'
<1>1. /\ FactsType /\ QueueType /\ LogType /\ RunType /\ DriverType
      /\ UNCHANGED <<clock, eligible, facts, log, thread, faults>>
  BY Parts DEF Acquire
<1>2. FactsType' /\ LogType' /\ RunType'
  BY <1>1 DEF FactsType, InputsCounted, LogType, RunType, facts, log
<1>3. tick[d] \in Tick /\ tick[d].now \in Nat /\ lease[i].gen \in Nat
  BY <1>1 DEF DriverType, QueueType, Lease, Tick
<1> DEFINE taken == [holder |-> d, gen |-> lease[i].gen + 1,
                     expires |-> tick[d].now + StepTimeout + LeaseMargin]
           new == [NoJob EXCEPT !.item = i, !.gen = lease[i].gen + 1, !.basis = inputs[i],
                                !.tries = failures[i],
                                !.step = IF stage[i] < Steps THEN stage[i] + 1 ELSE 0]
<1>4. taken \in Lease
  BY <1>3, Constants DEF Lease
<1>5. /\ inputs[i] \in Nat /\ failures[i] \in Nat /\ stage[i] \in Nat
      /\ stage[i] < Steps => stage[i] + 1 <= Steps
  BY <1>1, Constants DEF FactsType, LogType
<1>6. new \in Job /\ new.step <= Steps
  <2>1. NoJob \in Job
    BY NoTickType
  <2> DEFINE step == IF stage[i] < Steps THEN stage[i] + 1 ELSE 0
             gen == lease[i].gen + 1
             basis == inputs[i]
             tries == failures[i]
  <2>2. step \in Nat /\ step <= Steps /\ gen \in Nat /\ basis \in Nat /\ tries \in Nat
    BY <1>3, <1>5, Constants
  <2>3. new = [NoJob EXCEPT !.item = i, !.gen = gen, !.basis = basis, !.tries = tries, !.step = step]
    OBVIOUS
  <2> HIDE DEF step, gen, basis, tries, new
  <2>4. QED
    BY <2>1, <2>2, <2>3 DEF Job
<1>7. lease' = [lease EXCEPT ![i] = taken] /\ job' = [job EXCEPT ![d] = new]
  BY <1>1 DEF Acquire, QueueType
<1> HIDE DEF taken, new
<1>8. QueueType'
  BY <1>1, <1>4, <1>7 DEF QueueType
<1>9. [tick[d] EXCEPT !.due = @ \ {i}] \in Tick
  BY <1>3 DEF Tick
<1>10. tick' = [tick EXCEPT ![d] = [tick[d] EXCEPT !.due = @ \ {i}]]
  BY <1>1 DEF Acquire, DriverType
<1>11. DriverType'
  <2>1. pc' \in [Driver -> Place]
    BY <1>1 DEF DriverType, Acquire, Goto, Place
  <2>2. tick' \in [Driver -> Tick] /\ job' \in [Driver -> Job]
    BY <1>1, <1>6, <1>7, <1>9, <1>10 DEF DriverType
  <2>3. \A e \in Driver : job'[e].step <= Steps
    BY <1>1, <1>6, <1>7 DEF DriverType
  <2>4. QED
    BY <2>1, <2>2, <2>3 DEF DriverType
<1>12. QED
  BY <1>2, <1>8, <1>11, Together

LEMMA LeavingType ==
  ASSUME TypeInv, NEW d \in Driver,
         (\E i \in Item : Skip(d, i)) \/ LoseBefore(d) \/ LoseAfter(d) \/ Release(d) \/ GoDormant(d) \/ Decline(d)
  PROVE  TypeInv'
<1>1. /\ FactsType /\ QueueType /\ LogType /\ RunType /\ DriverType
      /\ UNCHANGED <<clock, facts, log, thread, faults>>
  BY Parts DEF Skip, LoseBefore, LoseAfter, Release, GoDormant, Decline
<1>2. FactsType' /\ LogType' /\ RunType'
  BY <1>1 DEF FactsType, InputsCounted, LogType, RunType, facts, log
<1>3. ASSUME NEW i \in Item, Skip(d, i)
      PROVE  TypeInv'
  <2>1. tick[d].due \ {i} \in SUBSET Item
    BY <1>1 DEF DriverType, Tick
  <2>2. pc' \in [Driver -> Place] /\ tick' \in [Driver -> Tick]
    BY <1>3, <2>1, ContinueType DEF Skip
  <2>3. QueueType' /\ DriverType'
    BY <1>1, <1>3, <2>2 DEF Skip, leases, QueueType, DriverType
  <2>4. QED
    BY <1>2, <2>3, Together
<1>4. CASE LoseBefore(d) \/ LoseAfter(d)
  <2>1. DriverType' /\ QueueType'
    BY <1>1, <1>4, EndJobType DEF LoseBefore, LoseAfter, leases, QueueType
  <2>2. QED
    BY <1>2, <2>1, Together
<1>5. CASE Release(d) \/ GoDormant(d) \/ Decline(d)
  <2>1. eligible[job[d].item] \in Nat \cup {Dormant} /\ MaxTime + 1 \in Nat
    BY <1>1, Constants DEF QueueType, DriverType, Job
  <2>2. PICK next \in Nat \cup {Dormant} : Finalize(d, tick[d].now, next) /\ EndJob(d)
    BY <1>5, <2>1 DEF Release, GoDormant, Decline
  <2>3. QueueType' /\ DriverType'
    BY <2>2, FinalizeType, EndJobType
  <2>4. QED
    BY <1>2, <2>3, Together
<1>6. QED
  BY <1>3, <1>4, <1>5

LEMMA BeginType ==
  ASSUME TypeInv, NEW d \in Driver, Begin(d)
  PROVE  TypeInv'
<1>1. /\ FactsType /\ QueueType /\ LogType /\ RunType /\ DriverType
      /\ UNCHANGED <<clock, leases, facts, verdicts, failures, tick, faults>>
  BY Parts DEF Begin
<1>2. FactsType' /\ QueueType'
  BY <1>1 DEF FactsType, InputsCounted, QueueType, leases, facts
<1> DEFINE a == started + 1
           row == [item |-> job[d].item, owner |-> d, gen |-> job[d].gen, step |-> job[d].step,
                   basis |-> job[d].basis, since |-> clock]
<1>3. /\ started' = a /\ attempt' = [b \in 1 .. a |-> IF b = a THEN row ELSE attempt[b]]
      /\ res' = [res EXCEPT ![a] = "RESERVED"] /\ thread' = [thread EXCEPT ![a] = "RUNNING"]
      /\ job' = [job EXCEPT ![d].att = a] /\ pc' = [pc EXCEPT ![d] = "wait"]
  BY DEF Begin, Goto
<1>4. /\ a \in Attempt /\ a \in Nat /\ started \in Nat /\ job[d] \in Job /\ job[d].step <= Steps
      /\ 1 .. a = (1 .. started) \cup {a}
  BY <1>1, Constants DEF LogType, DriverType, Attempt, Begin
<1>5. row \in Row /\ row.step <= Steps
  BY <1>1, <1>4, Constants DEF Row, Job, FactsType
<1> HIDE DEF row
<1>6. attempt' \in [1 .. started' -> Row] /\ \A b \in 1 .. started' : attempt'[b].step <= Steps
  BY <1>1, <1>3, <1>4, <1>5 DEF LogType
<1>7. LogType'
  BY <1>1, <1>3, <1>4, <1>6 DEF LogType, Attempt
<1>8. RunType'
  <2>1. thread' \in [Attempt -> Thread] /\ res' \in [Attempt -> {"NONE", "RESERVED", "CONSUMED"}]
    BY <1>1, <1>3 DEF RunType, Thread
  <2>2. \A b \in Attempt : res'[b] = IF b = a THEN "RESERVED" ELSE res[b]
    BY <1>1, <1>3 DEF RunType
  <2>3. \A b \in Attempt : b > a <=> b > started /\ b # a
    BY <1>4 DEF Attempt
  <2>4. QED
    BY <1>1, <1>3, <2>1, <2>2, <2>3 DEF RunType
<1>9. [job[d] EXCEPT !.att = a] \in Job /\ [job[d] EXCEPT !.att = a].step = job[d].step
  BY <1>4 DEF Job
<1>10. job' = [job EXCEPT ![d] = [job[d] EXCEPT !.att = a]]
  BY <1>1, <1>3 DEF DriverType
<1>11. DriverType'
  BY <1>1, <1>3, <1>9, <1>10 DEF DriverType, Place
<1>12. QED
  BY <1>2, <1>7, <1>8, <1>11, Together

(* The thread of a step.                                                   *)
LEMMA ThreadType ==
  ASSUME TypeInv, NEW a \in 1 .. started, Runs(a)
  PROVE  TypeInv'
<1>1. /\ FactsType /\ QueueType /\ LogType /\ RunType /\ DriverType
      /\ UNCHANGED <<clock, leases, inputs, started, attempt, res, verdicts, driver, faults>>
  BY Parts DEF Runs, StepCommits, StepRefused, StepRaises, facts, log
<1>2. \E to \in Done : Moves(a, "RUNNING", to)
  BY DEF Runs, StepCommits, StepRefused, StepRaises, Done
<1>3. RunType'
  BY <1>1, <1>2 DEF Moves, RunType, Thread
<1>4. QueueType' /\ DriverType'
  BY <1>1 DEF QueueType, DriverType, leases, driver
<1>5. FactsType' /\ LogType'
  <2>1. CASE stage' = stage /\ failures' = failures
    BY <1>1, <2>1 DEF FactsType, LogType, InputsCounted
  <2>2. CASE StepCommits(a) /\ Expected(a)
    <3> DEFINE i == attempt[a].item
    <3>1. /\ stage' = [stage EXCEPT ![i] = @ + 1] /\ failures' = [failures EXCEPT ![i] = 0]
          /\ attempt[a].step = stage[i] + 1 /\ attempt[a].step <= Steps /\ i \in Item
      BY <1>1, <2>2 DEF StepCommits, Expected, LogType, Row
    <3> HIDE DEF i
    <3>2. stage[i] \in 0 .. Steps /\ stage[i] + 1 \in 0 .. Steps
      BY <1>1, <3>1, Constants DEF FactsType
    <3>3. stage' \in [Item -> 0 .. Steps] /\ failures' \in [Item -> Nat]
      BY <1>1, <3>1, <3>2 DEF FactsType, LogType
    <3>4. QED
      BY <1>1, <3>3 DEF FactsType, LogType, InputsCounted
  <2>3. QED
    BY <2>1, <2>2 DEF Runs, StepCommits, StepRefused, StepRaises, facts, log
<1>6. QED
  BY <1>3, <1>4, <1>5, Together

(* The driver after the step.                                              *)
LEMMA WaitType ==
  ASSUME TypeInv, NEW d \in Driver, StepDone(d) \/ StepTimesOut(d)
  PROVE  TypeInv'
<1>1. /\ FactsType /\ QueueType /\ LogType /\ RunType /\ DriverType
      /\ UNCHANGED <<clock, eligible, facts, log, thread, faults>>
  BY Parts DEF StepDone, StepTimesOut, leases
<1>2. FactsType' /\ LogType' /\ RunType'
  BY <1>1 DEF FactsType, InputsCounted, LogType, RunType, facts, log
<1>3. CASE EndJob(d) /\ UNCHANGED lease
  BY <1>1, <1>2, <1>3, EndJobType, Together DEF QueueType
<1>4. CASE Goto(d, "finish") /\ UNCHANGED <<lease, tick, job>>
  BY <1>1, <1>2, <1>4, Together DEF Goto, QueueType, DriverType, Place
<1>5. ASSUME NEW late \in BOOLEAN, Supersede(d, late), Goto(d, "finish"), UNCHANGED tick
      PROVE  TypeInv'
  <2> DEFINE i == job[d].item
             moved == [job[d] EXCEPT !.gen = @ + 1, !.late = late]
             older == [lease[i] EXCEPT !.gen = @ + 1]
  <2>1. i \in Item /\ job[d] \in Job /\ lease[i] \in Lease /\ job[d].step <= Steps
    <3>1. job[d] \in Job /\ job[d].step <= Steps
      BY <1>1 DEF DriverType
    <3>2. i \in Item
      BY <3>1 DEF Job
    <3>3. QED
      BY <1>1, <3>1, <3>2 DEF QueueType
  <2>2. moved \in Job /\ moved.step <= Steps /\ older \in Lease
    <3>1. job[d].gen + 1 \in Nat /\ lease[i].gen + 1 \in Nat
      BY <2>1 DEF Job, Lease
    <3> HIDE DEF i
    <3>2. QED
      BY <1>5, <2>1, <3>1 DEF Job, Lease
  <2>3. lease' = [lease EXCEPT ![i] = older] /\ job' = [job EXCEPT ![d] = moved]
    BY <1>1, <1>5, <2>1 DEF Supersede, DriverType, QueueType
  <2> HIDE DEF i, moved, older
  <2>4. QueueType'
    BY <1>1, <2>2, <2>3 DEF QueueType
  <2>5. DriverType'
    BY <1>1, <1>5, <2>2, <2>3 DEF DriverType, Goto, Place
  <2>6. QED
    BY <1>2, <2>4, <2>5, Together
<1>6. QED
  BY <1>3, <1>4, <1>5 DEF StepDone, StepTimesOut, leases

LEMMA FinishType ==
  ASSUME TypeInv, NEW d \in Driver, Finish(d)
  PROVE  TypeInv'
<1>1. /\ FactsType /\ QueueType /\ LogType /\ RunType /\ DriverType
      /\ UNCHANGED <<clock, facts, started, attempt, thread, faults>>
  BY Parts DEF Finish
<1>2. FactsType'
  BY <1>1 DEF FactsType, InputsCounted, facts
<1>3. RunType'
  BY <1>1, SettleType DEF Finish
<1>4. PICK ok, retry \in BOOLEAN :
        /\ verdicts' = [verdicts EXCEPT ![job[d].att] = @ \cup {IF ok THEN "SUCCEEDED" ELSE "FAILED"}]
        /\ Count(job[d].att, retry)
  BY DEF Finish
<1>5. failures' \in [Item -> Nat]
  BY <1>4, CountType
<1>6. verdicts' \in [Attempt -> SUBSET Verdict]
  BY <1>1, <1>4 DEF LogType, Verdict
<1>7. LogType'
  BY <1>1, <1>5, <1>6 DEF LogType
<1>8. clock \in Nat /\ clock + RetryDelay \in Nat
  BY <1>1, Constants DEF FactsType
<1>9. \E next \in Nat \cup {Dormant} : Finalize(d, clock, next)
  BY <1>8 DEF Finish
<1>10. QueueType' /\ DriverType'
  BY <1>9, FinalizeType, EndJobType DEF Finish
<1>11. QED
  BY <1>2, <1>3, <1>7, <1>10, Together

(* The people, the process, the time.                                      *)
LEMMA WorldType ==
  ASSUME TypeInv, Time \/ (\E i \in Item : InputsChange(i)) \/ (\E d \in Driver : CrashAndRestart(d))
  PROVE  TypeInv'
<1>1. FactsType /\ QueueType /\ LogType /\ RunType /\ DriverType
  BY Parts
<1>2. CASE Time
  BY <1>1, <1>2, Together, Constants
  DEF Time, FactsType, InputsCounted, QueueType, LogType, RunType, DriverType, leases, facts, log, driver
<1>3. ASSUME NEW i \in Item, InputsChange(i)
      PROVE  TypeInv'
  <2>1. /\ faults' = faults + 1 /\ faults' \in 0 .. MaxFaults /\ faults \in Nat
        /\ inputs' = [inputs EXCEPT ![i] = @ + 1] /\ clock \in Nat
    BY <1>1, <1>3, Constants DEF InputsChange, FactsType
  <2>2. \A j \in Item : inputs'[j] \in 0 .. MaxFaults /\ inputs'[j] <= faults'
    <3>1. \A j \in Item : inputs[j] \in Nat /\ inputs[j] <= faults
      BY <1>1 DEF FactsType, InputsCounted
    <3>2. \A j \in Item : inputs'[j] = IF j = i THEN inputs[j] + 1 ELSE inputs[j]
      BY <1>1, <2>1 DEF FactsType
    <3>3. QED
      BY <2>1, <3>1, <3>2, Constants
  <2>3. inputs' \in [Item -> 0 .. MaxFaults]
    BY <1>1, <2>1, <2>2 DEF FactsType
  <2>4. stage' \in [Item -> 0 .. Steps]
    <3>1. PICK s \in 0 .. stage[i] : stage' = [stage EXCEPT ![i] = s]
      BY <1>3 DEF InputsChange
    <3>2. s \in 0 .. Steps
      BY <1>1, <3>1, Constants DEF FactsType
    <3>3. QED
      BY <1>1, <3>1, <3>2 DEF FactsType
  <2>5. FactsType'
    BY <1>1, <1>3, <2>1, <2>2, <2>3, <2>4 DEF FactsType, InputsCounted, InputsChange
  <2>6. QueueType' /\ LogType'
    BY <1>1, <1>3, <2>1 DEF InputsChange, Wake, QueueType, LogType
  <2>7. RunType' /\ DriverType'
    BY <1>1, <1>3 DEF InputsChange, RunType, DriverType, driver
  <2>8. QED
    BY <2>5, <2>6, <2>7, Together
<1>4. ASSUME NEW d \in Driver, CrashAndRestart(d)
      PROVE  TypeInv'
  <2>1. FactsType'
    BY <1>1, <1>4, Constants DEF CrashAndRestart, FactsType, InputsCounted, facts
  <2>2. QueueType' /\ LogType'
    BY <1>1, <1>4 DEF CrashAndRestart, QueueType, LogType, FactsType, log
  <2>3. RunType'
    BY <1>1, <1>4 DEF CrashAndRestart, RunType, Thread, log
  <2>4. pc' \in [Driver -> Place] /\ tick' \in [Driver -> Tick] /\ job' \in [Driver -> Job]
    BY <1>1, <1>4, NoTickType DEF CrashAndRestart, Goto, Place, DriverType
  <2>5. \A e \in Driver : job'[e] = NoJob \/ job'[e] = job[e]
    BY <1>1, <1>4 DEF CrashAndRestart, DriverType
  <2>6. DriverType'
    BY <1>1, <2>4, <2>5, NoTickType, Constants DEF DriverType
  <2>7. QED
    BY <2>1, <2>2, <2>3, <2>6, Together
<1>5. QED
  BY <1>2, <1>3, <1>4

LEMMA TypeStep == TypeInv /\ [Next]_vars => TypeInv'
<1> SUFFICES ASSUME TypeInv, [Next]_vars
             PROVE  TypeInv'
  OBVIOUS
<1>1. ASSUME NEW d \in Driver, Works(d) \/ Declines(d)
      PROVE  TypeInv'
  BY <1>1, SweepType, RecoverType, AcquireType, LeavingType, BeginType, WaitType, FinishType
  DEF Works, Declines
<1>2. CASE UNCHANGED vars
  BY <1>2, Parts, Together
  DEF vars, FactsType, InputsCounted, QueueType, LogType, RunType, DriverType, leases, facts, log, driver
<1>3. QED
  BY <1>1, <1>2, ThreadType, WorldType DEF Next

(* In every state of every behaviour the queue, the attempts, their        *)
(* reservations and the drivers' memories are as the tables and the code   *)
(* declare them: no attempt is past the last step and exactly the attempts *)
(* begun have reservations.                                                *)
THEOREM PrepareTypeCorrect == Spec => []PrepareTypeOK
<1>1. TypeInv => PrepareTypeOK
  BY DEF TypeInv
<1>2. QED
  BY <1>1, InitType, TypeStep, PTL DEF Spec

-----------------------------------------------------------------------------
(* Budgets.                                                                *)

SpendInv == TypeInv /\ SpendWithinCaps

(* One set of reservations for each attempt.                               *)
LEMMA Charging ==
  ASSUME TypeInv
  PROVE  /\ Charged = 1 .. started /\ IsFiniteSet(Charged)
         /\ \A i : IsFiniteSet(ChargedTo(i)) /\ ChargedTo(i) \subseteq Charged
<1>1. started \in Nat /\ MaxAttempts \in Nat /\ started <= MaxAttempts
  BY Constants DEF TypeInv, PrepareTypeOK
<1>2. Charged = 1 .. started
  BY <1>1 DEF TypeInv, PrepareTypeOK, Charged, Attempt
<1>3. IsFiniteSet(Charged)
  BY <1>1, <1>2, FS_Interval
<1>4. \A i : ChargedTo(i) \subseteq Charged
  BY DEF ChargedTo
<1>5. QED
  BY <1>2, <1>3, <1>4, FS_Subset

LEMMA BeginSpends ==
  ASSUME SpendInv, NEW d \in Driver, Begin(d), TypeInv'
  PROVE  SpendWithinCaps'
<1> DEFINE a == started + 1
           C == Charged
           D == Charged'
<1>1. /\ C = 1 .. started /\ IsFiniteSet(C)
      /\ \A i : IsFiniteSet(ChargedTo(i)) /\ ChargedTo(i) \subseteq C
  BY Charging DEF SpendInv
<1>2. /\ started' = a /\ started \in Nat /\ DayCap \in Nat /\ ItemCap \in Nat
      /\ Cardinality(C) < DayCap /\ Cardinality(ChargedTo(job[d].item)) < ItemCap
  BY Constants DEF Begin, SpendInv, TypeInv, PrepareTypeOK, WithinCaps
<1>3. attempt'[a].item = job[d].item /\ \A b \in 1 .. started : attempt'[b] = attempt[b]
  <2>1. a \in 1 .. a /\ \A b \in 1 .. started : b \in 1 .. a /\ b # a
    BY <1>2
  <2>2. QED
    BY <2>1 DEF Begin
<1>4. D = C \cup {a} /\ a \notin C
  <2>1. a \in Attempt /\ a \notin C
    BY <1>1, <1>2, Constants DEF Begin, Attempt
  <2>2. \A b \in Attempt : res'[b] = IF b = a THEN "RESERVED" ELSE res[b]
    BY DEF Begin, SpendInv, TypeInv, PrepareTypeOK
  <2>3. QED
    BY <2>1, <2>2 DEF Charged
<1>5. \A i : ChargedTo(i)' = IF i = job[d].item THEN ChargedTo(i) \cup {a} ELSE ChargedTo(i)
  BY <1>1, <1>3, <1>4 DEF ChargedTo
<1> HIDE DEF C, D, a
<1>6. Cardinality(D) <= DayCap
  <2>1. Cardinality(C \cup {a}) = Cardinality(C) + 1 /\ Cardinality(C) \in Nat
    BY <1>1, <1>4, FS_AddElement, FS_CardinalityType
  <2>2. QED
    BY <1>2, <1>4, <2>1
<1>7. ASSUME NEW i \in Item
      PROVE  Cardinality(ChargedTo(i)') <= ItemCap
  <2>1. CASE i = job[d].item
    <3>1. a \notin ChargedTo(i)
      BY <1>1, <1>4
    <3>2. Cardinality(ChargedTo(i) \cup {a}) = Cardinality(ChargedTo(i)) + 1
      BY <1>1, <3>1, FS_AddElement
    <3>3. Cardinality(ChargedTo(i)) \in Nat
      BY <1>1, FS_CardinalityType
    <3> DEFINE S == ChargedTo(i)
               T == ChargedTo(i)'
    <3>4. T = S \cup {a} /\ Cardinality(S) < ItemCap
      BY <1>2, <1>5, <2>1
    <3> HIDE DEF S, T
    <3>5. QED
      BY <1>2, <3>2, <3>3, <3>4 DEF S, T
  <2>2. CASE i # job[d].item
    <3>1. ChargedTo(i)' = ChargedTo(i) /\ Cardinality(ChargedTo(i)) <= ItemCap
      BY <1>5, <2>2 DEF SpendInv, SpendWithinCaps
    <3>2. QED
      BY <3>1
  <2>3. QED
    BY <2>1, <2>2
<1>8. QED
  BY <1>6, <1>7 DEF SpendWithinCaps, D

(* No other step adds a reservation or moves an attempt to another item.   *)
LEMMA OtherSpends ==
  ASSUME SpendInv, TypeInv', UNCHANGED <<started, attempt>>
  PROVE  SpendWithinCaps'
<1>1. Charged' = Charged
  <2>1. \A b \in Attempt : res'[b] = "NONE" <=> res[b] = "NONE"
    BY DEF SpendInv, TypeInv, PrepareTypeOK
  <2>2. QED
    BY <2>1 DEF Charged
<1>2. \A i : ChargedTo(i)' = ChargedTo(i)
  BY <1>1 DEF ChargedTo
<1>3. QED
  BY <1>1, <1>2 DEF SpendInv, SpendWithinCaps

LEMMA AttemptsStay ==
  ASSUME [Next]_vars
  PROVE  UNCHANGED <<started, attempt>> \/ \E d \in Driver : Begin(d)
<1>1. ASSUME NEW d \in Driver, Works(d), ~Begin(d)
      PROVE  UNCHANGED <<started, attempt>>
  BY <1>1 DEF Works, StartTick, SelectDue, VisitItem, Acquire, Recover, GoDormant, LoseBefore, StepDone,
              StepTimesOut, Finish, LoseAfter, log
<1>2. ASSUME NEW d \in Driver, Declines(d) \/ CrashAndRestart(d)
      PROVE  UNCHANGED <<started, attempt>>
  BY <1>2 DEF Declines, Release, Decline, Skip, CrashAndRestart, log
<1>3. ASSUME NEW a \in 1 .. started, Runs(a)
      PROVE  UNCHANGED <<started, attempt>>
  BY <1>3 DEF Runs, StepCommits, StepRefused, StepRaises, log
<1>4. Time \/ (\E i \in Item : InputsChange(i)) \/ UNCHANGED vars => UNCHANGED <<started, attempt>>
  BY DEF Time, InputsChange, vars, log
<1>5. QED
  BY <1>1, <1>2, <1>3, <1>4 DEF Next

LEMMA ThreadsMove ==
  ASSUME [Next]_vars
  PROVE  UNCHANGED thread \/ (\E b \in 1 .. started : Runs(b)) \/ \E d \in Driver : Begin(d) \/ CrashAndRestart(d)
<1>1. ASSUME NEW d \in Driver, Works(d), ~Begin(d)
      PROVE  UNCHANGED thread
  BY <1>1 DEF Works, StartTick, SelectDue, VisitItem, Acquire, Recover, GoDormant, LoseBefore, StepDone,
              StepTimesOut, Finish, LoseAfter
<1>2. ASSUME NEW d \in Driver, Declines(d)
      PROVE  UNCHANGED thread
  BY <1>2 DEF Declines, Release, Decline, Skip
<1>3. Time \/ (\E i \in Item : InputsChange(i)) \/ UNCHANGED vars => UNCHANGED thread
  BY DEF Time, InputsChange, vars
<1>4. QED
  BY <1>1, <1>2, <1>3 DEF Next

LEMMA SpendStep == SpendInv /\ [Next]_vars => SpendInv'
<1> SUFFICES ASSUME SpendInv, [Next]_vars
             PROVE  SpendInv'
  OBVIOUS
<1>1. TypeInv'
  BY TypeStep DEF SpendInv
<1>2. QED
  BY <1>1, AttemptsStay, BeginSpends, OtherSpends DEF SpendInv

LEMMA SpendInit == Init => SpendInv
<1> SUFFICES ASSUME Init
             PROVE  SpendInv
  OBVIOUS
<1>1. TypeInv /\ Charged = {} /\ \A i : ChargedTo(i) = {}
  BY InitType DEF Init, Charged, ChargedTo
<1>2. QED
  BY <1>1, FS_EmptySet, Constants DEF SpendInv, SpendWithinCaps

(* However many drivers reserve for however many items, and whatever       *)
(* crashes between, neither the budget of the day nor that of an item is   *)
(* exceeded.                                                               *)
THEOREM SpendWithinCapsAlways == Spec => []SpendWithinCaps
<1>1. SpendInv => SpendWithinCaps
  BY DEF SpendInv
<1>2. QED
  BY <1>1, SpendInit, SpendStep, PTL DEF Spec

-----------------------------------------------------------------------------
(* The refinement of Budget: Begin reserves a unit of the day and of the   *)
(* item, settling an attempt spends both, and nothing else moves a unit.   *)

(* Budget counts with the operator of this module.                         *)
LEMMA SameCount == \A S : Promise!Cardinality(S) = Cardinality(S)
BY DEF Promise!Cardinality, Cardinality

LEMMA Scopes ==
  ASSUME NEW s \in Scope
  PROVE  \/ s.per = "day" /\ s.of = Item /\ Cap[s] = DayCap
         \/ s.per = "application" /\ Cap[s] = ItemCap /\ \E i \in Item : s.of = {i}
BY DEF Scope, Cap

LEMMA ItemsOfAttempts == TypeInv => \A a \in Charged : attempt[a].item \in Item
<1> SUFFICES ASSUME TypeInv, NEW a \in Charged
             PROVE  attempt[a].item \in Item
  OBVIOUS
<1>1. a \in 1 .. started
  BY Charging
<1>2. QED
  BY <1>1 DEF TypeInv, PrepareTypeOK, Row

(* The units in use in a scope are the rows that its counter counts.       *)
LEMMA Counters ==
  ASSUME TypeInv, NEW s \in Scope
  PROVE  /\ s.per = "day" => Promise!InUse(s, {}) = Charged
         /\ \A i \in Item : s.of = {i} /\ s.per = "application" => Promise!InUse(s, {}) = ChargedTo(i)
<1>1. Promise!InUse(s, {}) = {a \in Charged : attempt[a].item \in s.of}
  <2>1. \A a \in Attempt : UnitOf(a, s) \in {"spent", "reserved"} <=> a \in Charged /\ attempt[a].item \in s.of
    BY DEF UnitOf
  <2>2. Charged \subseteq Attempt
    BY DEF Charged
  <2>3. QED
    BY <2>1, <2>2 DEF Promise!InUse, Units
<1>2. s.per = "day" => s.of = Item
  BY Scopes
<1>3. QED
  BY <1>1, <1>2, ItemsOfAttempts DEF ChargedTo

LEMMA BeginReserves ==
  ASSUME SpendInv, TypeInv', NEW d \in Driver, Begin(d),
         NEW a, a = started + 1, NEW i, i = job[d].item
  PROVE  Promise!Next
<1> DEFINE T == {s \in Scope : i \in s.of}
<1>1. /\ started \in Nat /\ started' = a /\ a \in Attempt /\ i \in Item
      /\ Cardinality(Charged) < DayCap /\ Cardinality(ChargedTo(i)) < ItemCap
  BY Constants DEF Begin, SpendInv, TypeInv, PrepareTypeOK, WithinCaps, Attempt, Job
<1>2. Charged = 1 .. started
  BY Charging DEF SpendInv
<1>3. attempt'[a].item = i /\ \A b \in 1 .. started : attempt'[b] = attempt[b]
  <2>1. a \in 1 .. a /\ \A b \in 1 .. started : b \in 1 .. a /\ b # a
    BY <1>1
  <2>2. QED
    BY <2>1 DEF Begin
<1>4. res'[a] = "RESERVED" /\ \A b \in Attempt : b # a => res'[b] = res[b]
  BY <1>1 DEF Begin, SpendInv, TypeInv, PrepareTypeOK
<1>5. a \notin Charged /\ a \in Charged' /\ \A b \in Attempt \ {a} : b \in Charged' <=> b \in Charged
  BY <1>1, <1>2, <1>4 DEF Charged
<1>6. \A s \in Scope : UnitOf(a, s) = "none"
  BY <1>5 DEF UnitOf
<1>7. \A s \in Scope : UnitOf(a, s)' = IF s \in T THEN "reserved" ELSE "none"
  BY <1>3, <1>4, <1>5 DEF UnitOf
<1>8. \A b \in Attempt \ {a} : \A s \in Scope : UnitOf(b, s)' = UnitOf(b, s)
  BY <1>2, <1>3, <1>4, <1>5 DEF UnitOf
<1>9. T \in SUBSET Scope
  OBVIOUS
<1> HIDE DEF T
<1>10. Units' = [Promise!Settled({}, "freed") EXCEPT ![a] = [s \in Scope |-> IF s \in T THEN "reserved" ELSE "none"]]
  BY <1>1, <1>7, <1>8 DEF Units, Promise!Settled
<1>11. \A s \in Scope : Units[a][s] = "none"
  BY <1>1, <1>6 DEF Units
<1>12. ASSUME NEW s \in T
       PROVE  Promise!Cardinality(Promise!InUse(s, {})) < Cap[s]
  <2>1. s \in Scope /\ i \in s.of
    BY DEF T
  <2>2. CASE s.per = "day"
    BY <1>1, <2>1, <2>2, Scopes, Counters, SameCount DEF SpendInv
  <2>3. CASE s.per # "day"
    <3>1. s.per = "application" /\ Cap[s] = ItemCap /\ s.of = {i}
      BY <2>1, <2>3, Scopes
    <3>2. QED
      BY <1>1, <2>1, <3>1, Counters, SameCount DEF SpendInv
  <2>4. QED
    BY <2>2, <2>3
<1>13. Promise!Reserve(a, T, {})
  BY <1>10, <1>11, <1>12 DEF Promise!Reserve
<1>14. QED
  BY <1>1, <1>9, <1>13 DEF Promise!Next

(* A second settlement finds nothing reserved: it spends the unit that is  *)
(* spent.                                                                  *)
LEMMA SettleSpends ==
  ASSUME TypeInv, NEW a, Settle(a), UNCHANGED <<started, attempt>>
  PROVE  Promise!Next \/ UNCHANGED Units
<1>1. \A b \in Attempt : res'[b] = IF b = a /\ res[b] = "RESERVED" THEN "CONSUMED" ELSE res[b]
  BY DEF Settle, TypeInv, PrepareTypeOK
<1>2. Charged' = Charged
  BY <1>1 DEF Charged
<1>3. \A b \in Attempt : \A s \in Scope :
        UnitOf(b, s)' = IF b \in {a} /\ UnitOf(b, s) = "reserved" THEN "spent" ELSE UnitOf(b, s)
  BY <1>1, <1>2 DEF UnitOf
<1>4. CASE a \in Attempt
  BY <1>3, <1>4 DEF Units, Promise!Settled, Promise!Spend, Promise!Next
<1>5. CASE a \notin Attempt
  BY <1>3, <1>5 DEF Units
<1>6. QED
  BY <1>4, <1>5

LEMMA UnitsMove ==
  ASSUME [Next]_vars
  PROVE  UNCHANGED res \/ (\E a : Settle(a)) \/ \E d \in Driver : Begin(d)
<1>1. ASSUME NEW d \in Driver, Works(d), ~Begin(d)
      PROVE  UNCHANGED res \/ \E a : Settle(a)
  BY <1>1 DEF Works, StartTick, SelectDue, VisitItem, Acquire, Recover, GoDormant, LoseBefore, StepDone,
              StepTimesOut, Finish, LoseAfter, log
<1>2. ASSUME NEW d \in Driver, Declines(d) \/ CrashAndRestart(d)
      PROVE  UNCHANGED res
  BY <1>2 DEF Declines, Release, Decline, Skip, CrashAndRestart, log
<1>3. ASSUME NEW a \in 1 .. started, Runs(a)
      PROVE  UNCHANGED res
  BY <1>3 DEF Runs, StepCommits, StepRefused, StepRaises, log
<1>4. Time \/ (\E i \in Item : InputsChange(i)) \/ UNCHANGED vars => UNCHANGED res
  BY DEF Time, InputsChange, vars, log
<1>5. QED
  BY <1>1, <1>2, <1>3, <1>4 DEF Next

LEMMA BudgetStep == SpendInv /\ [Next]_vars => [Promise!Next]_Units
<1> SUFFICES ASSUME SpendInv, [Next]_vars
             PROVE  Promise!Next \/ UNCHANGED Units
  OBVIOUS
<1>1. TypeInv /\ TypeInv'
  BY TypeStep DEF SpendInv
<1>2. CASE \E d \in Driver : Begin(d)
  BY <1>1, <1>2, BeginReserves
<1>3. CASE UNCHANGED <<started, attempt>>
  <2>1. CASE UNCHANGED res
    BY <1>3, <2>1 DEF Units, UnitOf, Charged
  <2>2. CASE \E a : Settle(a)
    BY <1>1, <1>3, <2>2, SettleSpends
  <2>3. QED
    BY <1>2, <2>1, <2>2, UnitsMove
<1>4. QED
  BY <1>2, <1>3, AttemptsStay

LEMMA BudgetInit == Init => Promise!Init
BY DEF Init, Promise!Init, Units, UnitOf, Charged

(* The queue keeps its budgets, for any items, drivers, caps and crashes:  *)
(* an attempt is charged once, to its day and its item together and within *)
(* both caps, and no later settlement or sweep gives the unit back.        *)
THEOREM KeepsBudgetsAlways == Spec => KeepsBudgets
<1>1. Init /\ [][Next]_vars => []SpendInv
  BY SpendInit, SpendStep, PTL
<1>2. QED
  BY <1>1, BudgetInit, BudgetStep, PTL DEF Spec, KeepsBudgets, Promise!Spec

-----------------------------------------------------------------------------
(* What a thread may still write.  The lease generation of an item only    *)
(* grows and a driver never knows a greater one; it was an attempt's when  *)
(* the attempt began, and a driver that gives up on a thread that may      *)
(* still run has moved it on.                                              *)

Sound(d) ==
  /\ pc[d] \in {"derived", "wait", "finish"} => job[d].gen <= lease[job[d].item].gen
  /\ pc[d] = "derived" => job[d].att = 0 /\ ~job[d].late
  /\ pc[d] \in {"wait", "finish"} =>
       /\ job[d].att \in 1 .. started
       /\ attempt[job[d].att].item = job[d].item
       /\ job[d].att \in Attempt
  /\ pc[d] = "wait" => ~job[d].late /\ attempt[job[d].att].gen <= job[d].gen
  /\ pc[d] = "finish" =>
       /\ thread[job[d].att] \in Done \/ attempt[job[d].att].gen < job[d].gen
       /\ job[d].late => attempt[job[d].att].gen < job[d].gen

FailedIsOver ==
  \A a \in Attempt : "FAILED" \in verdicts[a] =>
    /\ a \in 1 .. started
    /\ thread[a] # "RUNNING" \/ attempt[a].gen < lease[attempt[a].item].gen

CommitInv ==
  /\ TypeInv
  /\ \A d \in Driver : Sound(d)
  /\ FailedIsOver

(* Nothing of this is ever taken back.                                     *)
Onward ==
  /\ \A i \in Item : lease'[i].gen >= lease[i].gen
  /\ 1 .. started \subseteq 1 .. started'
  /\ \A a \in 1 .. started : /\ attempt'[a] = attempt[a]
                             /\ thread[a] \in Done => thread'[a] = thread[a]
                             /\ thread'[a] = "RUNNING" => thread[a] = "RUNNING"

LEMMA Rows ==
  ASSUME TypeInv
  PROVE  /\ \A a \in 1 .. started : a \in Attempt /\ attempt[a].item \in Item /\ attempt[a].gen \in Nat
         /\ \A i \in Item : lease[i].gen \in Nat
         /\ \A d \in Driver : job[d].item \in Item /\ job[d].gen \in Nat
         /\ started \in Nat
<1>1. QueueType /\ LogType /\ DriverType /\ MaxAttempts \in Nat
  BY Parts, Constants
<1>2. \A i \in Item : lease[i].gen \in Nat
  BY <1>1 DEF QueueType, Lease
<1>3. \A d \in Driver : job[d].item \in Item /\ job[d].gen \in Nat
  BY <1>1 DEF DriverType, Job
<1>4. \A a \in 1 .. started : a \in Attempt /\ attempt[a].item \in Item /\ attempt[a].gen \in Nat
  BY <1>1 DEF LogType, Row, Attempt
<1>5. QED
  BY <1>1, <1>2, <1>3, <1>4 DEF LogType

LEMMA GoesOnward ==
  ASSUME TypeInv, [Next]_vars
  PROVE  Onward
<1>1. \A i \in Item : lease[i].gen \in Nat
  BY Rows
<1>2. \A i \in Item : lease'[i].gen >= lease[i].gen
  <2>1. ASSUME UNCHANGED lease
        PROVE  \A i \in Item : lease'[i].gen >= lease[i].gen
    BY <1>1, <2>1
  <2>2. ASSUME NEW d \in Driver, NEW t, NEW next \in Nat \cup {Dormant}, Finalize(d, t, next)
        PROVE  \A i \in Item : lease'[i].gen >= lease[i].gen
    BY <1>1, <2>2, FinalizeType
  <2>3. ASSUME NEW d \in Driver, Finish(d) \/ Release(d) \/ GoDormant(d) \/ Decline(d)
        PROVE  \E t : \E next \in Nat \cup {Dormant} : Finalize(d, t, next)
    <3>1. clock \in Nat /\ clock + RetryDelay \in Nat /\ MaxTime + 1 \in Nat
      BY Constants DEF TypeInv, PrepareTypeOK
    <3>2. eligible[job[d].item] \in Nat \cup {Dormant}
      BY Rows DEF TypeInv, PrepareTypeOK
    <3>3. QED
      BY <2>3, <3>1, <3>2 DEF Finish, Release, GoDormant, Decline
  <2>4. ASSUME NEW i \in Item, lease' = [lease EXCEPT ![i].gen = @ + 1]
        PROVE  \A j \in Item : lease'[j].gen >= lease[j].gen
    <3>1. \A j \in Item : lease'[j].gen = IF j = i THEN lease[i].gen + 1 ELSE lease[j].gen
      BY <2>4 DEF TypeInv, PrepareTypeOK, Lease
    <3>2. QED
      BY <1>1, <3>1
  <2>5. ASSUME NEW d \in Driver, NEW i \in Item, Acquire(d, i)
        PROVE  \A j \in Item : lease'[j].gen >= lease[j].gen
    <3>1. \A j \in Item : lease'[j].gen = IF j = i THEN lease[i].gen + 1 ELSE lease[j].gen
      BY <2>5 DEF Acquire, TypeInv, PrepareTypeOK
    <3>2. QED
      BY <1>1, <3>1
  <2>6. ASSUME NEW d \in Driver, StepTimesOut(d)
        PROVE  UNCHANGED lease \/ \E i \in Item : lease' = [lease EXCEPT ![i].gen = @ + 1]
    BY <2>6, Rows DEF StepTimesOut, Supersede
  <2>7. ASSUME NEW d \in Driver, Works(d) \/ Declines(d) \/ CrashAndRestart(d)
        PROVE  \A i \in Item : lease'[i].gen >= lease[i].gen
    <3>1. \/ UNCHANGED lease \/ Finish(d) \/ Release(d) \/ GoDormant(d) \/ Decline(d)
          \/ (\E i \in Item : Acquire(d, i)) \/ StepTimesOut(d)
      BY <2>7 DEF Works, Declines, StartTick, SelectDue, VisitItem, Recover, Begin, LoseBefore, StepDone,
                  LoseAfter, Skip, CrashAndRestart, leases
    <3>2. QED
      BY <2>1, <2>2, <2>3, <2>4, <2>5, <2>6, <3>1
  <2>8. ASSUME (\E a \in 1 .. started : Runs(a)) \/ (\E i \in Item : InputsChange(i)) \/ Time \/ UNCHANGED vars
        PROVE  UNCHANGED lease
    BY <2>8 DEF Runs, StepCommits, StepRefused, StepRaises, InputsChange, Time, vars, leases
  <2>9. QED
    BY <2>1, <2>7, <2>8 DEF Next
<1>3. CASE UNCHANGED <<started, attempt>>
  <2>1. UNCHANGED thread \/ (\E b \in 1 .. started : Runs(b)) \/ \E d \in Driver : Begin(d) \/ CrashAndRestart(d)
    BY ThreadsMove
  <2>2. ~\E d \in Driver : Begin(d)
    BY <1>3, Rows DEF Begin
  <2>3. \A a \in 1 .. started : /\ thread[a] \in Done => thread'[a] = thread[a]
                                /\ thread'[a] = "RUNNING" => thread[a] = "RUNNING"
    <3>1. CASE UNCHANGED thread
      BY <3>1
    <3>2. CASE \E b \in 1 .. started : Runs(b)
      <4>1. PICK b \in 1 .. started, to \in Done : Moves(b, "RUNNING", to)
        BY <3>2 DEF Runs, StepCommits, StepRefused, StepRaises, Done
      <4>2. \A a \in 1 .. started : thread'[a] = IF a = b THEN to ELSE thread[a]
        BY <4>1, Rows DEF Moves, TypeInv, PrepareTypeOK
      <4>3. thread[b] \notin Done /\ to # "RUNNING"
        BY <4>1 DEF Moves, Done
      <4>4. QED
        BY <4>2, <4>3
    <3>3. CASE \E d \in Driver : CrashAndRestart(d)
      BY <3>3, Rows DEF CrashAndRestart, Done
    <3>4. QED
      BY <2>1, <2>2, <3>1, <3>2, <3>3
  <2>4. QED
    BY <1>2, <1>3, <2>3 DEF Onward
<1>4. ASSUME NEW d \in Driver, Begin(d)
      PROVE  Onward
  <2>1. started' = started + 1 /\ started \in Nat
    BY <1>4, Rows DEF Begin
  <2>2. \A a \in 1 .. started : a \in 1 .. started' /\ a # started + 1
    BY <2>1
  <2>3. \A a \in 1 .. started : attempt'[a] = attempt[a] /\ thread'[a] = thread[a]
    BY <1>4, <2>1, <2>2 DEF Begin, TypeInv, PrepareTypeOK
  <2>4. QED
    BY <1>2, <2>2, <2>3 DEF Onward
<1>5. QED
  BY <1>3, <1>4, AttemptsStay

LEMMA RestsSound ==
  ASSUME NEW d \in Driver, pc'[d] \in {"idle", "sweep", "pick"}
  PROVE  Sound(d)'
BY DEF Sound

LEMMA StaysSound ==
  ASSUME CommitInv, Onward, TypeInv', NEW d \in Driver, pc'[d] = pc[d], job'[d] = job[d]
  PROVE  Sound(d)'
<1> DEFINE a == job[d].att
           i == job[d].item
<1>1. Sound(d) /\ i \in Item /\ job[d].gen \in Nat
  BY Rows DEF CommitInv
<1>2. lease[i].gen \in Nat /\ lease'[i].gen \in Nat /\ lease'[i].gen >= lease[i].gen
  <2>1. \A j \in Item : lease'[j].gen \in Nat
    BY DEF TypeInv, PrepareTypeOK, Lease
  <2>2. QED
    BY <1>1, <2>1, Rows DEF CommitInv, Onward
<1>3. a \in 1 .. started =>
        /\ a \in 1 .. started' /\ attempt'[a] = attempt[a]
        /\ thread[a] \in Done => thread'[a] \in Done
  BY DEF Onward
<1> HIDE DEF a, i
<1>4. job[d].gen <= lease[i].gen => job[d].gen <= lease'[i].gen
  BY <1>1, <1>2
<1>5. QED
  BY <1>1, <1>3, <1>4 DEF Sound, a, i

LEMMA StaysFailed ==
  ASSUME CommitInv, Onward, TypeInv', NEW a \in Attempt, "FAILED" \in verdicts[a]
  PROVE  a \in 1 .. started' /\ (thread'[a] # "RUNNING" \/ attempt'[a].gen < lease'[attempt'[a].item].gen)
<1> DEFINE i == attempt[a].item
<1>1. a \in 1 .. started /\ (thread[a] # "RUNNING" \/ attempt[a].gen < lease[i].gen)
  BY DEF CommitInv, FailedIsOver
<1>2. /\ a \in 1 .. started' /\ attempt'[a] = attempt[a]
      /\ thread'[a] = "RUNNING" => thread[a] = "RUNNING"
  BY <1>1 DEF Onward
<1>3. i \in Item /\ attempt[a].gen \in Nat /\ lease[i].gen \in Nat
  BY <1>1, Rows DEF CommitInv
<1>4. lease'[i].gen \in Nat /\ lease'[i].gen >= lease[i].gen
  <2>1. \A j \in Item : lease'[j].gen \in Nat
    BY DEF TypeInv, PrepareTypeOK, Lease
  <2>2. QED
    BY <1>3, <2>1 DEF Onward
<1> HIDE DEF i
<1>5. attempt[a].gen < lease[i].gen => attempt[a].gen < lease'[i].gen
  BY <1>3, <1>4
<1>6. QED
  BY <1>1, <1>2, <1>5 DEF i

LEMMA SameFailed ==
  ASSUME CommitInv, Onward, TypeInv', \A a \in Attempt : "FAILED" \in verdicts'[a] => "FAILED" \in verdicts[a]
  PROVE  FailedIsOver'
BY StaysFailed DEF FailedIsOver, Attempt

(* A driver's own steps.                                                   *)
LEMMA WorkSound ==
  ASSUME CommitInv, Onward, TypeInv', NEW d \in Driver, Works(d) \/ Declines(d)
  PROVE  Sound(d)'
<1>1. TypeInv /\ Sound(d)
  BY DEF CommitInv
<1>2. CASE StartTick(d)
  BY <1>1, <1>2, RestsSound DEF StartTick, Goto, TypeInv, PrepareTypeOK
<1>3. CASE (\E i \in Item : VisitItem(d, i)) \/ \E a \in Attempt : Recover(d, a)
  BY <1>3, StaysSound DEF VisitItem, Recover
<1>4. ASSUME NEW due \in SUBSET Item, Continue(d, due)
      PROVE  Sound(d)'
  BY <1>1, <1>4, ContinueType, RestsSound
<1>5. CASE SelectDue(d)
  BY <1>4, <1>5 DEF SelectDue
<1>6. CASE \E i \in Item : Skip(d, i)
  <2>1. PICK i \in Item : Continue(d, tick[d].due \ {i})
    BY <1>6 DEF Skip
  <2>2. tick[d].due \ {i} \in SUBSET Item
    BY <1>1 DEF TypeInv, PrepareTypeOK, Tick
  <2>3. QED
    BY <1>4, <2>1, <2>2
<1>7. ASSUME EndJob(d)
      PROVE  Sound(d)'
  BY <1>1, <1>7, EndJobType, RestsSound
<1>8. CASE Release(d) \/ GoDormant(d) \/ Decline(d) \/ LoseBefore(d) \/ Finish(d) \/ LoseAfter(d)
  BY <1>7, <1>8 DEF Release, GoDormant, Decline, LoseBefore, Finish, LoseAfter
<1>9. ASSUME NEW i \in Item, Acquire(d, i)
      PROVE  Sound(d)'
  <2>1. lease'[i].gen = lease[i].gen + 1 /\ lease[i].gen \in Nat /\ pc'[d] = "derived"
    BY <1>1, <1>9, Rows DEF Acquire, Goto, TypeInv, PrepareTypeOK
  <2>2. job'[d] = [NoJob EXCEPT !.item = i, !.gen = lease[i].gen + 1, !.basis = inputs[i],
                                !.tries = failures[i], !.step = IF stage[i] < Steps THEN stage[i] + 1 ELSE 0]
    BY <1>1, <1>9 DEF Acquire, TypeInv, PrepareTypeOK
  <2>3. job'[d].item = i /\ job'[d].gen = lease[i].gen + 1 /\ job'[d].att = 0 /\ ~job'[d].late
    BY <2>2 DEF NoJob
  <2>4. QED
    BY <2>1, <2>3 DEF Sound
<1>10. CASE Begin(d)
  <2> DEFINE a == started + 1
  <2>1. /\ job'[d] = [job[d] EXCEPT !.att = a] /\ pc'[d] = "wait" /\ pc[d] = "derived"
        /\ started' = a /\ UNCHANGED lease /\ job[d] \in Job
        /\ a \in Nat /\ a >= 1 /\ a \in Attempt
    BY <1>1, <1>10, Rows, Constants DEF Begin, Goto, leases, TypeInv, PrepareTypeOK, Attempt
  <2>2. /\ job'[d].att = a /\ job'[d].item = job[d].item /\ job'[d].gen = job[d].gen
        /\ job'[d].late = job[d].late
    BY <2>1 DEF Job
  <2>3. a \in 1 .. a
    BY <2>1
  <2>4. attempt'[a].item = job[d].item /\ attempt'[a].gen = job[d].gen
    BY <1>10, <2>3 DEF Begin
  <2>5. job[d].gen \in Nat
    BY <1>1, Rows
  <2>6. QED
    BY <1>1, <2>1, <2>2, <2>3, <2>4, <2>5 DEF Sound
<1>11. CASE StepDone(d)
  <2>1. CASE EndJob(d)
    BY <1>7, <2>1
  <2>2. CASE Goto(d, "finish") /\ UNCHANGED job /\ pc[d] = "wait" /\ thread[job[d].att] \in Done
    <3>1. /\ pc'[d] = "finish" /\ job'[d] = job[d] /\ UNCHANGED <<lease, started, attempt, thread>>
      BY <1>1, <1>11, <2>2 DEF StepDone, Goto, leases, log, TypeInv, PrepareTypeOK
    <3>2. QED
      BY <1>1, <2>2, <3>1 DEF Sound
  <2>3. QED
    BY <1>11, <2>1, <2>2 DEF StepDone
<1>12. CASE StepTimesOut(d)
  <2>1. CASE EndJob(d)
    BY <1>7, <2>1
  <2>2. ASSUME NEW late \in BOOLEAN, Supersede(d, late), Goto(d, "finish")
        PROVE  Sound(d)'
    <3> DEFINE i == job[d].item
    <3>1. /\ pc'[d] = "finish" /\ pc[d] = "wait" /\ UNCHANGED <<started, attempt, thread>>
          /\ job[d] \in Job /\ i \in Item /\ lease[i] \in Lease
      BY <1>1, <1>12, <2>2, Rows DEF StepTimesOut, Goto, log, TypeInv, PrepareTypeOK
    <3>2. /\ job'[d].att = job[d].att /\ job'[d].item = i /\ job'[d].gen = job[d].gen + 1
          /\ lease'[i].gen = lease[i].gen + 1
      BY <1>1, <2>2, <3>1 DEF Supersede, Job, Lease, TypeInv, PrepareTypeOK
    <3>3. /\ job[d].gen \in Nat /\ lease[i].gen \in Nat /\ attempt[job[d].att].gen \in Nat
          /\ job[d].gen <= lease[i].gen /\ attempt[job[d].att].gen <= job[d].gen
      BY <1>1, <3>1, Rows DEF Sound
    <3>4. job[d].gen + 1 <= lease[i].gen + 1 /\ attempt[job[d].att].gen < job[d].gen + 1
      BY <3>3
    <3>5. QED
      BY <1>1, <3>1, <3>2, <3>4 DEF Sound
  <2>3. QED
    BY <1>12, <2>1, <2>2 DEF StepTimesOut
<1>13. QED
  BY <1>2, <1>3, <1>5, <1>6, <1>8, <1>9, <1>10, <1>11, <1>12 DEF Works, Declines

LEMMA FinishFails ==
  ASSUME CommitInv, Onward, TypeInv', NEW d \in Driver, Finish(d)
  PROVE  FailedIsOver'
<1> DEFINE a == job[d].att
           i == job[d].item
<1>1. TypeInv /\ Sound(d) /\ pc[d] = "finish" /\ UNCHANGED <<started, attempt, thread>>
  BY DEF CommitInv, Finish
<1>2. a \in 1 .. started /\ a \in Attempt /\ attempt[a].item = i
  BY <1>1 DEF Sound
<1>3. thread[a] \in Done \/ attempt[a].gen < lease[i].gen
  BY <1>1, <1>2, Rows DEF Sound
<1>4. /\ lease'[i].gen >= lease[i].gen /\ lease[i].gen \in Nat /\ attempt[a].gen \in Nat
      /\ lease'[i].gen \in Nat
  <2>1. \A j \in Item : lease'[j].gen \in Nat
    BY DEF TypeInv, PrepareTypeOK, Lease
  <2>2. QED
    BY <1>1, <1>2, <2>1, Rows DEF Onward
<1>5. thread[a] # "RUNNING" \/ attempt[a].gen < lease'[i].gen
  BY <1>3, <1>4 DEF Done
<1>6. \A b \in Attempt \ {a} : verdicts'[b] = verdicts[b]
  BY <1>1 DEF Finish, TypeInv, PrepareTypeOK
<1>7. QED
  BY <1>1, <1>2, <1>5, <1>6, StaysFailed DEF FailedIsOver

LEMMA FailedStep ==
  ASSUME CommitInv, Onward, TypeInv', [Next]_vars
  PROVE  FailedIsOver'
<1>1. ASSUME UNCHANGED verdicts
      PROVE  FailedIsOver'
  BY <1>1, SameFailed
<1>2. ASSUME NEW d \in Driver, NEW a \in Attempt, Recover(d, a)
      PROVE  FailedIsOver'
  <2>1. PICK word \in {"REUSED", "ABANDONED"} : verdicts' = [verdicts EXCEPT ![a] = @ \cup {word}]
    BY <1>2 DEF Recover
  <2>2. \A b \in Attempt : "FAILED" \in verdicts'[b] => "FAILED" \in verdicts[b]
    BY <2>1 DEF CommitInv, TypeInv, PrepareTypeOK
  <2>3. QED
    BY <2>2, SameFailed
<1>3. \/ UNCHANGED verdicts
      \/ \E d \in Driver : Finish(d) \/ \E a \in Attempt : Recover(d, a)
  <2>1. ASSUME NEW d \in Driver, StartTick(d) \/ SelectDue(d) \/ \E i \in Item : VisitItem(d, i)
        PROVE  UNCHANGED verdicts
    BY <2>1 DEF StartTick, SelectDue, VisitItem, log
  <2>2. ASSUME NEW d \in Driver, (\E i \in Item : Acquire(d, i) \/ Skip(d, i)) \/ GoDormant(d) \/ Release(d) \/ Decline(d)
        PROVE  UNCHANGED verdicts
    BY <2>2 DEF Acquire, Skip, GoDormant, Release, Decline, log
  <2>3. ASSUME NEW d \in Driver, Begin(d) \/ LoseBefore(d)
        PROVE  UNCHANGED verdicts
    BY <2>3 DEF Begin, LoseBefore, log
  <2>4. ASSUME NEW d \in Driver, StepDone(d) \/ StepTimesOut(d) \/ LoseAfter(d) \/ CrashAndRestart(d)
        PROVE  UNCHANGED verdicts
    BY <2>4 DEF StepDone, StepTimesOut, LoseAfter, CrashAndRestart, log
  <2>5. ASSUME NEW a \in 1 .. started, Runs(a)
        PROVE  UNCHANGED verdicts
    BY <2>5 DEF Runs, StepCommits, StepRefused, StepRaises, log
  <2>6. ASSUME (\E i \in Item : InputsChange(i)) \/ Time \/ UNCHANGED vars
        PROVE  UNCHANGED verdicts
    BY <2>6 DEF InputsChange, Time, vars, log
  <2>7. QED
    BY <2>1, <2>2, <2>3, <2>4, <2>5, <2>6 DEF Next, Works, Declines
<1>4. QED
  BY <1>1, <1>2, <1>3, FinishFails

(* The others do not move.                                                 *)
LEMMA OthersStay ==
  ASSUME TypeInv, NEW d \in Driver, Works(d) \/ Declines(d) \/ CrashAndRestart(d), NEW e \in Driver \ {d}
  PROVE  pc'[e] = pc[e] /\ job'[e] = job[e]
<1>1. pc \in [Driver -> Place] /\ job \in [Driver -> Job]
  BY DEF TypeInv, PrepareTypeOK
<1>2. ASSUME EndJob(d) \/ \E due : Continue(d, due) /\ UNCHANGED job
      PROVE  pc'[e] = pc[e] /\ job'[e] = job[e]
  BY <1>1, <1>2 DEF EndJob, Continue, Goto
<1>3. CASE Release(d) \/ GoDormant(d) \/ Decline(d) \/ LoseBefore(d) \/ Finish(d) \/ LoseAfter(d) \/ SelectDue(d)
           \/ \E i \in Item : Skip(d, i)
  BY <1>2, <1>3 DEF Release, GoDormant, Decline, LoseBefore, Finish, LoseAfter, SelectDue, Skip
<1>4. CASE StartTick(d) \/ (\E i \in Item : VisitItem(d, i) \/ Acquire(d, i)) \/ (\E a \in Attempt : Recover(d, a))
           \/ Begin(d) \/ CrashAndRestart(d)
  BY <1>1, <1>4 DEF StartTick, VisitItem, Acquire, Recover, Begin, CrashAndRestart, Goto
<1>5. CASE StepDone(d) \/ StepTimesOut(d)
  BY <1>1, <1>2, <1>5 DEF StepDone, StepTimesOut, Supersede, Goto
<1>6. QED
  BY <1>3, <1>4, <1>5 DEF Works, Declines

LEMMA CommitStep == CommitInv /\ [Next]_vars => CommitInv'
<1> SUFFICES ASSUME CommitInv, [Next]_vars
             PROVE  CommitInv'
  OBVIOUS
<1>1. TypeInv /\ TypeInv' /\ Onward /\ FailedIsOver'
  BY TypeStep, GoesOnward, FailedStep DEF CommitInv
<1>2. ASSUME NEW e \in Driver
      PROVE  Sound(e)'
  <2>1. ASSUME NEW d \in Driver, Works(d) \/ Declines(d) \/ CrashAndRestart(d), e # d
        PROVE  Sound(e)'
    BY <1>1, <2>1, OthersStay, StaysSound
  <2>2. ASSUME Works(e) \/ Declines(e)
        PROVE  Sound(e)'
    BY <1>1, <2>2, WorkSound
  <2>3. ASSUME CrashAndRestart(e)
        PROVE  Sound(e)'
    BY <1>1, <2>3, RestsSound DEF CrashAndRestart, Goto, TypeInv, PrepareTypeOK
  <2>4. ASSUME UNCHANGED <<pc, job>>
        PROVE  Sound(e)'
    BY <1>1, <2>4, StaysSound
  <2>5. (\E a \in 1 .. started : Runs(a)) \/ (\E i \in Item : InputsChange(i)) \/ Time \/ UNCHANGED vars
          => UNCHANGED <<pc, job>>
    BY DEF Runs, StepCommits, StepRefused, StepRaises, InputsChange, Time, vars, driver
  <2>6. QED
    BY <2>1, <2>2, <2>3, <2>4, <2>5 DEF Next
<1>3. QED
  BY <1>1, <1>2 DEF CommitInv

LEMMA CommitInit == Init => CommitInv
<1> SUFFICES ASSUME Init
             PROVE  CommitInv
  OBVIOUS
<1>1. TypeInv
  BY InitType
<1>2. QED
  BY <1>1 DEF Init, CommitInv, Sound, FailedIsOver

(* Only the thread of an attempt whose lease is held makes it committed.   *)
LEMMA WhoCommits ==
  ASSUME TypeInv, [Next]_vars, NEW a \in 1 .. started, thread[a] # "COMMITTED", thread'[a] = "COMMITTED"
  PROVE  StepCommits(a)
<1>1. a \in Attempt /\ thread \in [Attempt -> Thread] /\ a # started + 1
  BY Rows DEF TypeInv, PrepareTypeOK
<1>2. UNCHANGED thread \/ (\E b \in 1 .. started : Runs(b)) \/ \E d \in Driver : Begin(d) \/ CrashAndRestart(d)
  BY ThreadsMove
<1>3. ~\E d \in Driver : Begin(d) \/ CrashAndRestart(d)
  BY <1>1 DEF Begin, CrashAndRestart
<1>4. PICK b \in 1 .. started : Runs(b)
  BY <1>2, <1>3
<1>5. b \in Attempt
  BY Rows
<1>6. \A from, to : Moves(b, from, to) => b = a /\ to = "COMMITTED"
  BY <1>1, <1>5 DEF Moves
<1>7. ~StepRefused(b) /\ ~StepRaises(b)
  BY <1>6 DEF StepRefused, StepRaises
<1>8. StepCommits(b) /\ b = a
  BY <1>4, <1>6, <1>7 DEF Runs, StepCommits
<1>9. QED
  BY <1>8

(* No thread of a step writes its output after its driver gave it up or    *)
(* recorded that it failed, nor after a driver took a younger lease of the *)
(* item: however many drivers, items, leases and crashes there are.        *)
THEOREM OnlyTheYoungestCommitsAlways == Spec => OnlyTheYoungestCommits
<1> DEFINE Owns(a) ==
      /\ "FAILED" \notin verdicts[a]
      /\ \A d \in Driver : pc[d] \in {"derived", "wait", "finish"} /\ job[d].item = attempt[a].item =>
           job[d].gen <= attempt[a].gen /\ ~(job[d].att = a /\ job[d].late)
<1>1. ASSUME CommitInv, NEW a \in 1 .. started, StepCommits(a)
      PROVE  Owns(a)
  <2>1. /\ TypeInv /\ a \in Attempt /\ thread[a] = "RUNNING"
        /\ lease[attempt[a].item].gen = attempt[a].gen /\ attempt[a].gen \in Nat
    BY <1>1, Rows DEF CommitInv, StepCommits, StillHeld, Held, Moves
  <2>2. "FAILED" \notin verdicts[a]
    BY <1>1, <2>1 DEF CommitInv, FailedIsOver
  <2>3. ASSUME NEW d \in Driver, pc[d] \in {"derived", "wait", "finish"}, job[d].item = attempt[a].item
        PROVE  job[d].gen <= attempt[a].gen /\ ~(job[d].att = a /\ job[d].late)
    <3>1. Sound(d) /\ job[d].gen \in Nat /\ job[d].gen <= attempt[a].gen
      BY <1>1, <2>1, <2>3, Rows DEF CommitInv, Sound
    <3>2. CASE job[d].att = a /\ job[d].late
      BY <2>1, <2>3, <3>1, <3>2 DEF Sound
    <3>3. QED
      BY <3>1, <3>2
  <2>4. QED
    BY <2>2, <2>3
<1>2. CommitInv /\ [Next]_vars =>
        [\A a \in 1 .. started : thread[a] # "COMMITTED" /\ thread'[a] = "COMMITTED" => Owns(a)]_vars
  BY <1>1, WhoCommits DEF CommitInv
<1>3. QED
  BY <1>2, CommitInit, CommitStep, PTL DEF Spec, OnlyTheYoungestCommits

=============================================================================

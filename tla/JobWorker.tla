----------------------------- MODULE JobWorker -----------------------------
(***************************************************************************)
(* The durable jobs table and the workers that run it                      *)
(* (webapp/worker/runner.py).  A worker reads the due jobs, claims one by a*)
(* conditional UPDATE under a 60 s lease, reads the row it claimed, renews *)
(* the lease while the handler runs, and finishes the job by a write       *)
(* conditional on still holding the lease.                                 *)
(* A job is one row of the table.                                          *)
(*                                                                         *)
(* A restarted worker may have the id of the dead one (host name and       *)
(* process id), so a crash only empties the worker's memory.               *)
(***************************************************************************)
EXTENDS Naturals

CONSTANTS
  Job, Worker, None,
  MaxAttempts,  \* jobs.max_attempts
  MaxFaults,    \* bound on crashes, stalled leases and failed renewals
  MaxRetries    \* bound on the requests of staff to retry a dead job

ASSUME WorkerAssumption ==
  /\ None \notin Worker \cup Nat
  /\ None \notin [job : Job, number : Nat, attempt : Nat \cup {None}]
  /\ MaxAttempts \in Nat \ {0}
  /\ MaxFaults \in Nat /\ MaxRetries \in Nat

VARIABLES
  status,    \* jobs.status; NONE before the row, DELETED after it
  attempts,  \* jobs.attempts
  due,       \* jobs.run_at has passed
  holder,    \* jobs.lease_holder
  leased,    \* jobs.lease_expires_at is in the future
  seen,      \* the due jobs a worker read and has not tried to claim yet
  claim,     \* the job a worker claimed, the number its claim counted (history),
             \* and the attempts it then read from the row, None until it has
  asked,     \* requests to retry a job that read it as DEAD and have not written
  faults, retries

rows == <<status, attempts, due, holder, leased>>
vars == <<rows, seen, claim, asked, faults, retries>>

Claim == [job : Job, number : Nat, attempt : Nat \cup {None}]
Ended == {"SUCCEEDED", "FAILED", "DEAD"}

WorkerTypeOK ==
  /\ status \in [Job -> {"NONE", "QUEUED", "RUNNING", "DELETED"} \cup Ended]
  /\ attempts \in [Job -> Nat]
  /\ due \in [Job -> BOOLEAN]
  /\ holder \in [Job -> Worker \cup {None}]
  /\ leased \in [Job -> BOOLEAN]
  /\ seen \in [Worker -> SUBSET Job]
  /\ claim \in [Worker -> Claim \cup {None}]
  /\ asked \in [Job -> Nat]
  /\ faults \in 0 .. MaxFaults
  /\ retries \in 0 .. MaxRetries
  /\ \A j \in Job : status[j] = "RUNNING" <=> holder[j] # None

Init ==
  /\ status = [j \in Job |-> "NONE"]
  /\ attempts = [j \in Job |-> 0]
  /\ due = [j \in Job |-> FALSE]
  /\ holder = [j \in Job |-> None]
  /\ leased = [j \in Job |-> FALSE]
  /\ seen = [w \in Worker |-> {}]
  /\ claim = [w \in Worker |-> None]
  /\ asked = [j \in Job |-> 0]
  /\ faults = 0
  /\ retries = 0

-----------------------------------------------------------------------------
(* The table.                                                              *)

(* Seeded fault: a lease is never taken over.                              *)
DueUnlessRunning(j) == status[j] = "QUEUED" /\ due[j]

(* Seeded fault: the finished rows of the past are due as well.            *)
DueByTimeOnly(j) == status[j] # "NONE" /\ due[j] /\ ~leased[j]

(* _DUE.                                                                   *)
Due(j) ==
  \/ status[j] = "QUEUED" /\ due[j]
  \/ status[j] = "RUNNING" /\ ~leased[j]

Lease(j, w) ==
  /\ holder' = [holder EXCEPT ![j] = w]
  /\ leased' = [leased EXCEPT ![j] = w # None]

(* enqueue: a dedupe key that exists adds no row.                          *)
Enqueue(j, now) ==
  /\ status[j] = "NONE"
  /\ status' = [status EXCEPT ![j] = "QUEUED"]
  /\ attempts' = [attempts EXCEPT ![j] = 0]
  /\ due' = [due EXCEPT ![j] = now]
  /\ UNCHANGED <<holder, leased, seen, claim, asked, faults, retries>>

(* cancel_deletion deletes the purge job while it is QUEUED.               *)
Withdraw(j) ==
  /\ status[j] = "QUEUED"
  /\ status' = [status EXCEPT ![j] = "DELETED"]
  /\ UNCHANGED <<attempts, due, holder, leased, seen, claim, asked, faults, retries>>

(* retry_job: staff put a dead job back.  That it is dead is read before   *)
(* the transaction of the UPDATE, which names the id alone.                *)
AskRetry(j) ==
  /\ status[j] = "DEAD" /\ retries < MaxRetries
  /\ retries' = retries + 1
  /\ asked' = [asked EXCEPT ![j] = @ + 1]
  /\ UNCHANGED <<rows, seen, claim, faults>>

RetryJob(j) ==
  /\ asked[j] > 0
  /\ asked' = [asked EXCEPT ![j] = @ - 1]
  /\ IF status[j] = "DELETED"
       THEN UNCHANGED rows
       ELSE /\ status' = [status EXCEPT ![j] = "QUEUED"]
            /\ attempts' = [attempts EXCEPT ![j] = 0]
            /\ due' = [due EXCEPT ![j] = TRUE]
            /\ Lease(j, None)
  /\ UNCHANGED <<seen, claim, faults, retries>>

ComesDue(j) ==
  /\ status[j] = "QUEUED" /\ ~due[j]
  /\ due' = [due EXCEPT ![j] = TRUE]
  /\ UNCHANGED <<status, attempts, holder, leased, seen, claim, asked, faults, retries>>

Has(w, j) == claim[w] # None /\ claim[w].job = j
Running(w) == claim[w] # None /\ claim[w].attempt # None
Runs(w, j) == Running(w) /\ Has(w, j)

(* The lease of a dead worker runs out.                                    *)
LeaseLapses(j) ==
  /\ leased[j] /\ ~Has(holder[j], j)
  /\ leased' = [leased EXCEPT ![j] = FALSE]
  /\ UNCHANGED <<status, attempts, due, holder, seen, claim, asked, faults, retries>>

-----------------------------------------------------------------------------
(* Claiming.                                                               *)

Idle(w) == claim[w] = None /\ seen[w] = {}

Look(w) ==
  /\ Idle(w)
  /\ seen' = [seen EXCEPT ![w] = {j \in Job : Due(j)}]
  /\ seen'[w] # {}
  /\ UNCHANGED <<rows, claim, asked, faults, retries>>

(* The claiming UPDATE, committed before the row is read.                  *)
Take(w, j) ==
  /\ status' = [status EXCEPT ![j] = "RUNNING"]
  /\ attempts' = [attempts EXCEPT ![j] = @ + 1]
  /\ Lease(j, w)
  /\ claim' = [claim EXCEPT ![w] = [job |-> j, number |-> attempts[j] + 1, attempt |-> None]]
  /\ seen' = [seen EXCEPT ![w] = {}]
  /\ UNCHANGED <<due, asked>>

(* Seeded fault: the UPDATE does not repeat the condition of the SELECT.   *)
TryClaimBlindly(w, j) == Take(w, j) /\ UNCHANGED <<faults, retries>>

(* A job that is no longer due was claimed by another worker: the next one *)
(* of those read is tried.                                                 *)
TryClaim(w, j) ==
  /\ IF Due(j)
       THEN Take(w, j)
       ELSE seen' = [seen EXCEPT ![w] = @ \ {j}] /\ UNCHANGED <<rows, claim, asked>>
  /\ UNCHANGED <<faults, retries>>

(* The claimer reads the row, whatever became of it meanwhile: the count of*)
(* a worker that took the job over, or no row (which raises, and the loop  *)
(* goes on to other jobs).                                                 *)
ReadRow(w) ==
  /\ claim[w] # None /\ ~Running(w)
  /\ LET j == claim[w].job IN
       claim' = [claim EXCEPT ![w] = IF status[j] = "DELETED" THEN None
                                     ELSE [@ EXCEPT !.attempt = attempts[j]]]
  /\ UNCHANGED <<rows, seen, asked, faults, retries>>

-----------------------------------------------------------------------------
(* Running.                                                                *)

(* Seeded fault: the finishing write is conditional on the id alone.       *)
FinishById(w, state) ==
  LET j == claim[w].job IN
  /\ status' = [status EXCEPT ![j] = state]
  /\ due' = [due EXCEPT ![j] = @ /\ state # "QUEUED"]
  /\ Lease(j, None)
  /\ claim' = [claim EXCEPT ![w] = None]
  /\ UNCHANGED <<attempts, seen, asked, retries>>

(* _finish.                                                                *)
Finish(w, state) ==
  LET j == claim[w].job IN
  /\ IF holder[j] = w
       THEN /\ status' = [status EXCEPT ![j] = state]
            /\ due' = [due EXCEPT ![j] = @ /\ state # "QUEUED"]
            /\ Lease(j, None)
       ELSE UNCHANGED <<status, due, holder, leased>>
  /\ claim' = [claim EXCEPT ![w] = None]
  /\ UNCHANGED <<attempts, seen, asked, retries>>

(* Any other exception, RetryLater and a timeout included.                 *)
AfterError(w) == IF claim[w].attempt >= MaxAttempts THEN "DEAD" ELSE "QUEUED"

HandlerEnds(w) ==
  /\ Running(w)
  /\ \E state \in {"SUCCEEDED", "FAILED", AfterError(w)} : Finish(w, state)
  /\ UNCHANGED faults

Renew(w) ==
  /\ Running(w)
  /\ holder[claim[w].job] = w /\ ~leased[claim[w].job]
  /\ leased' = [leased EXCEPT ![claim[w].job] = TRUE]
  /\ UNCHANGED <<status, attempts, due, holder, seen, claim, asked, faults, retries>>

Fault == faults < MaxFaults /\ faults' = faults + 1

(* _renew raises out of _execute: the job counts as failed although its    *)
(* handler goes on in its thread.                                          *)
RenewFails(w) ==
  /\ Running(w)
  /\ Fault
  /\ Finish(w, AfterError(w))

(* The worker is held up for longer than its lease.                        *)
Stall(w) ==
  /\ claim[w] # None
  /\ holder[claim[w].job] = w /\ leased[claim[w].job]
  /\ Fault
  /\ leased' = [leased EXCEPT ![claim[w].job] = FALSE]
  /\ UNCHANGED <<status, attempts, due, holder, seen, claim, asked, retries>>

Crash(w) ==
  /\ ~Idle(w)
  /\ Fault
  /\ claim' = [claim EXCEPT ![w] = None]
  /\ seen' = [seen EXCEPT ![w] = {}]
  /\ UNCHANGED <<rows, asked, retries>>

-----------------------------------------------------------------------------

Working(w) ==
  \/ Look(w)
  \/ \E j \in seen[w] : TryClaim(w, j)
  \/ ReadRow(w)
  \/ HandlerEnds(w)
  \/ Renew(w)
  \/ RenewFails(w)
  \/ Stall(w)
  \/ Crash(w)

Next ==
  \/ \E j \in Job : \/ \E now \in BOOLEAN : Enqueue(j, now)
                    \/ Withdraw(j)
                    \/ AskRetry(j)
                    \/ RetryJob(j)
                    \/ ComesDue(j)
                    \/ LeaseLapses(j)
  \/ \E w \in Worker : Working(w)

(* Time passes; a live worker keeps polling, tries what it read, and every *)
(* handler returns or is timed out.                                        *)
Fairness ==
  /\ \A j \in Job : WF_vars(ComesDue(j)) /\ WF_vars(LeaseLapses(j))
  /\ \A w \in Worker :
       /\ WF_vars(Look(w))
       /\ WF_vars(\E j \in seen[w] : TryClaim(w, j))
       /\ WF_vars(ReadRow(w))
       /\ WF_vars(HandlerEnds(w))

Spec == Init /\ [][Next]_vars /\ Fairness

-----------------------------------------------------------------------------
(* Properties.                                                             *)

(* Two workers never run the same job, although both may have read it as   *)
(* due, until something fails.  When a lease lapsed under a live worker,   *)
(* each attempt counted is one worker's (_claim), and two go by the same   *)
(* number only when one of them read its row after the other had taken the *)
(* job over.  (All until staff restart the count, perhaps under a worker.) *)
OneWorkerPerClaim == retries = 0 =>
  \A w, v \in Worker : \A j \in Job :
    /\ Runs(w, j) /\ Runs(v, j) =>
         \/ w = v
         \/ faults > 0 /\ (claim[w].attempt = claim[v].attempt =>
                           \E u \in {w, v} : claim[u].number < claim[u].attempt)
    /\ Has(w, j) /\ Has(v, j) /\ claim[w].number = claim[v].number => w = v

Requeued(j) == asked'[j] < asked[j]

(* A job that was taken over is never overwritten by its former holder:    *)
(* but for a request of staff, only the worker running the job's latest    *)
(* claim ends that claim.                                                  *)
LatestClaimEnds ==
  \A j \in Job : status[j] = "RUNNING" /\ status'[j] # "RUNNING" =>
    claim[holder[j]] = [job |-> j, number |-> attempts[j], attempt |-> attempts[j]]
    \/ Requeued(j)

OnlyHolderFinishes == [][LatestClaimEnds]_vars

(* A finished job stays finished, whatever stale reads, leases and claims  *)
(* of it are still around; only staff bring one back, and a job is given   *)
(* up as dead no sooner than its last attempt.  (Staff mean a dead one:    *)
(* the second of two overlapping requests may meet one that has succeeded.)*)
EndedIsKept ==
  \A j \in Job :
    /\ status[j] \in Ended => status'[j] = status[j] \/ (Requeued(j) /\ status'[j] = "QUEUED")
    /\ status[j] # "DEAD" /\ status'[j] = "DEAD" => attempts[j] >= MaxAttempts

EndedStaysEnded == [][EndedIsKept]_vars

(* Every job comes to an end however its workers crash, stall or lose      *)
(* leases (finitely often): no job is left RUNNING for nobody.             *)
JobsEnd ==
  \A j \in Job : status[j] \in {"QUEUED", "RUNNING"} ~> status[j] \in Ended \cup {"DELETED"}
=============================================================================

-------------------------- MODULE JobWorkerProofs --------------------------
(***************************************************************************)
(* Proofs about JobWorker for any jobs, workers and bounds.                *)
(***************************************************************************)
EXTENDS JobWorker, TLAPS

-----------------------------------------------------------------------------
(* The inductive invariant: a worker that still holds a job's lease has    *)
(* counted the row's latest attempt and reads that one, nobody has claimed *)
(* a row that was never there, and until staff restart the count every     *)
(* claim is one of those counted and of one worker only, a number read is  *)
(* no earlier than the one counted, and until something fails the lease of *)
(* a claim is the worker's own; nothing is put back without a request.     *)

HolderIsLatest ==
  \A w \in Worker : \A j \in Job : Has(w, j) /\ holder[j] = w =>
    claim[w].number = attempts[j] /\ claim[w].attempt \in {None, attempts[j]}

NoClaimBeforeTheRow ==
  \A w \in Worker : \A j \in Job :
    status[j] = "NONE" => ~Has(w, j) /\ j \notin seen[w]

ClaimsAreCounted ==
  retries = 0 => \A w \in Worker : claim[w] # None => claim[w].number <= attempts[claim[w].job]

ReadsAreLater ==
  retries = 0 => \A w \in Worker : Running(w) => claim[w].number <= claim[w].attempt

OneWorkerPerAttempt == retries = 0 =>
  \A w, v \in Worker : \A j \in Job :
    Has(w, j) /\ Has(v, j) /\ claim[w].number = claim[v].number => w = v

ClaimsAreHeld == faults = 0 /\ retries = 0 =>
  \A w \in Worker : \A j \in Job : Has(w, j) => holder[j] = w /\ leased[j]

RetriesWereAsked == retries = 0 => \A j \in Job : asked[j] = 0

WorkerInv ==
  /\ WorkerTypeOK
  /\ HolderIsLatest
  /\ NoClaimBeforeTheRow
  /\ ClaimsAreCounted
  /\ ReadsAreLater
  /\ OneWorkerPerAttempt
  /\ ClaimsAreHeld
  /\ RetriesWereAsked

(* A claim is a record, and None is neither a claim nor a number.          *)
LEMMA ClaimIsNotNone == None \notin Worker /\ None \notin Nat /\ \A c \in Claim : c # None
BY WorkerAssumption DEF Claim

LEMMA InitInv == Init => WorkerInv
BY ClaimIsNotNone, WorkerAssumption
   DEF Init, WorkerInv, WorkerTypeOK, HolderIsLatest, NoClaimBeforeTheRow, ClaimsAreCounted, ReadsAreLater,
       OneWorkerPerAttempt, ClaimsAreHeld, RetriesWereAsked, Has, Running, Ended, Claim

-----------------------------------------------------------------------------
(* Every step keeps the invariant.                                         *)

(* Steps that touch neither the workers nor who holds a lease or how many  *)
(* attempts are counted.                                                   *)
LEMMA QuietStep ==
  ASSUME WorkerInv, WorkerTypeOK', ClaimsAreHeld',
         UNCHANGED <<attempts, holder, seen, claim, asked, retries>>,
         \A j \in Job : status'[j] = "NONE" => status[j] = "NONE"
  PROVE  WorkerInv'
BY DEF WorkerInv, HolderIsLatest, NoClaimBeforeTheRow, ClaimsAreCounted, ReadsAreLater, OneWorkerPerAttempt,
       RetriesWereAsked, Has, Running

LEMMA EnqueueInv ==
  ASSUME WorkerInv, NEW j \in Job, NEW now \in BOOLEAN, Enqueue(j, now)
  PROVE  WorkerInv'
<1>1. WorkerTypeOK'
  BY DEF WorkerInv, WorkerTypeOK, Enqueue, Ended
<1>2. HolderIsLatest' /\ ClaimsAreCounted' /\ ReadsAreLater'
  BY DEF WorkerInv, WorkerTypeOK, HolderIsLatest, ClaimsAreCounted, ReadsAreLater, NoClaimBeforeTheRow,
         Enqueue, Has, Running, Claim
<1>3. NoClaimBeforeTheRow' /\ OneWorkerPerAttempt'
  BY DEF WorkerInv, WorkerTypeOK, NoClaimBeforeTheRow, OneWorkerPerAttempt, Enqueue, Has, Running
<1>4. ClaimsAreHeld' /\ RetriesWereAsked'
  BY DEF WorkerInv, ClaimsAreHeld, RetriesWereAsked, Enqueue, Has, Running
<1>5. QED
  BY <1>1, <1>2, <1>3, <1>4 DEF WorkerInv

LEMMA WithdrawInv ==
  ASSUME WorkerInv, NEW j \in Job, Withdraw(j)
  PROVE  WorkerInv'
<1>1. WorkerTypeOK'
  BY DEF WorkerInv, WorkerTypeOK, Withdraw, Ended
<1>2. ClaimsAreHeld'
  BY DEF WorkerInv, ClaimsAreHeld, Withdraw, Has, Running
<1>3. QED
  BY <1>1, <1>2, QuietStep DEF Withdraw, WorkerInv, WorkerTypeOK

LEMMA AskRetryInv ==
  ASSUME WorkerInv, NEW j \in Job, AskRetry(j)
  PROVE  WorkerInv'
<1>1. retries' \in 0 .. MaxRetries /\ retries' # 0 /\ asked' \in [Job -> Nat]
  BY WorkerAssumption DEF WorkerInv, WorkerTypeOK, AskRetry
<1>2. WorkerTypeOK'
  BY <1>1 DEF WorkerInv, WorkerTypeOK, AskRetry, rows
<1>3. HolderIsLatest' /\ NoClaimBeforeTheRow'
  BY DEF WorkerInv, HolderIsLatest, NoClaimBeforeTheRow, AskRetry, rows, Has, Running
<1>4. RetriesWereAsked'
  BY <1>1 DEF RetriesWereAsked
<1>5. QED
  BY <1>1, <1>2, <1>3, <1>4 DEF WorkerInv, ClaimsAreCounted, ReadsAreLater, OneWorkerPerAttempt, ClaimsAreHeld

LEMMA RetryJobInv ==
  ASSUME WorkerInv, NEW j \in Job, RetryJob(j)
  PROVE  WorkerInv'
<1>1. asked' \in [Job -> Nat] /\ retries' = retries /\ retries # 0
  BY DEF WorkerInv, WorkerTypeOK, RetriesWereAsked, RetryJob
<1>2. CASE status[j] = "DELETED"
  <2>1. UNCHANGED <<rows, seen, claim, faults, retries>>
    BY <1>2 DEF RetryJob
  <2>2. WorkerTypeOK'
    BY <1>1, <2>1 DEF WorkerInv, WorkerTypeOK, rows
  <2>3. QED
    BY <1>1, <2>1, <2>2 DEF WorkerInv, HolderIsLatest, NoClaimBeforeTheRow, ClaimsAreCounted, ReadsAreLater,
                            OneWorkerPerAttempt, ClaimsAreHeld, RetriesWereAsked, rows, Has, Running
<1>3. CASE status[j] # "DELETED"
  <2>1. /\ status' = [status EXCEPT ![j] = "QUEUED"]
        /\ attempts' = [attempts EXCEPT ![j] = 0]
        /\ due' = [due EXCEPT ![j] = TRUE]
        /\ holder' = [holder EXCEPT ![j] = None]
        /\ leased' = [leased EXCEPT ![j] = FALSE]
        /\ UNCHANGED <<seen, claim, faults, retries>>
    BY <1>3 DEF RetryJob, Lease
  <2>2. WorkerTypeOK'
    BY <1>1, <2>1 DEF WorkerInv, WorkerTypeOK
  <2>3. HolderIsLatest'
    BY <2>1, ClaimIsNotNone DEF WorkerInv, WorkerTypeOK, HolderIsLatest, Has, Running
  <2>4. NoClaimBeforeTheRow'
    BY <2>1 DEF WorkerInv, WorkerTypeOK, NoClaimBeforeTheRow, Has, Running
  <2>5. QED
    BY <1>1, <2>2, <2>3, <2>4
       DEF WorkerInv, ClaimsAreCounted, ReadsAreLater, OneWorkerPerAttempt, ClaimsAreHeld, RetriesWereAsked
<1>4. QED
  BY <1>2, <1>3

LEMMA TimeInv ==
  ASSUME WorkerInv, NEW j \in Job, ComesDue(j) \/ LeaseLapses(j)
  PROVE  WorkerInv'
<1>1. WorkerTypeOK'
  BY DEF WorkerInv, WorkerTypeOK, ComesDue, LeaseLapses
<1>2. ClaimsAreHeld'
  BY DEF WorkerInv, WorkerTypeOK, ClaimsAreHeld, ComesDue, LeaseLapses, Has, Running
<1>3. QED
  BY <1>1, <1>2, QuietStep DEF ComesDue, LeaseLapses

LEMMA LookInv ==
  ASSUME WorkerInv, NEW w \in Worker, Look(w)
  PROVE  WorkerInv'
<1>1. WorkerTypeOK'
  BY DEF WorkerInv, WorkerTypeOK, Look, rows
<1>2. NoClaimBeforeTheRow'
  BY DEF WorkerInv, WorkerTypeOK, NoClaimBeforeTheRow, Look, Due, rows, Has, Running
<1>3. QED
  BY <1>1, <1>2 DEF WorkerInv, HolderIsLatest, ClaimsAreCounted, ReadsAreLater, OneWorkerPerAttempt, ClaimsAreHeld,
                     RetriesWereAsked, Look, rows, Has, Running

LEMMA TakeInv ==
  ASSUME WorkerInv, NEW w \in Worker, NEW j \in Job, Due(j), Take(w, j),
         UNCHANGED <<faults, retries>>
  PROVE  WorkerInv'
<1>1. claim'[w] = [job |-> j, number |-> attempts[j] + 1, attempt |-> None] /\ claim'[w] \in Claim
  BY DEF Take, WorkerInv, WorkerTypeOK, Claim
<1>2. WorkerTypeOK'
  BY <1>1, ClaimIsNotNone DEF WorkerInv, WorkerTypeOK, Take, Lease, Ended, Claim
<1>3. attempts'[j] = attempts[j] + 1 /\ \A i \in Job : i # j => attempts'[i] = attempts[i]
  BY DEF Take, WorkerInv, WorkerTypeOK
<1>4. \A v \in Worker : v # w => claim'[v] = claim[v]
  BY DEF Take, WorkerInv, WorkerTypeOK
<1>5. holder'[j] = w /\ \A i \in Job : i # j => holder'[i] = holder[i]
  BY DEF Take, Lease, WorkerInv, WorkerTypeOK
<1>6. HolderIsLatest'
  BY <1>1, <1>3, <1>4, <1>5 DEF WorkerInv, HolderIsLatest, Has, Running
<1>7. NoClaimBeforeTheRow'
  BY <1>1, <1>4 DEF WorkerInv, WorkerTypeOK, NoClaimBeforeTheRow, Take, Due, Has, Running
<1>8. ClaimsAreCounted'
  <2> SUFFICES ASSUME retries' = 0, NEW v \in Worker, claim'[v] # None
               PROVE  claim'[v].number <= attempts'[claim'[v].job]
    BY DEF ClaimsAreCounted
  <2>1. CASE v = w
    BY <2>1, <1>1, <1>3 DEF WorkerInv, WorkerTypeOK
  <2>2. CASE v # w
    <3>1. claim[v] \in Claim /\ claim[v].number <= attempts[claim[v].job]
      BY <2>2, <1>4 DEF WorkerInv, WorkerTypeOK, ClaimsAreCounted
    <3>2. claim[v].number \in Nat /\ claim[v].job \in Job
      BY <3>1 DEF Claim
    <3>3. \A i \in Job : attempts[i] \in Nat /\ attempts'[i] \in Nat /\ attempts[i] <= attempts'[i]
      BY <1>2, <1>3 DEF WorkerInv, WorkerTypeOK
    <3>4. claim'[v] = claim[v]
      BY <2>2, <1>4
    <3>5. QED
      BY <3>1, <3>2, <3>3, <3>4
  <2>3. QED
    BY <2>1, <2>2
<1>9. OneWorkerPerAttempt'
  <2> SUFFICES ASSUME retries' = 0, NEW u \in Worker, NEW v \in Worker, NEW i \in Job,
                      Has(u, i)', Has(v, i)', claim'[u].number = claim'[v].number
               PROVE  u = v
    BY DEF OneWorkerPerAttempt
  <2>1. \A x \in Worker : x # w /\ Has(x, i)' => Has(x, i) /\ claim[x].number <= attempts[i]
    BY <1>4 DEF WorkerInv, ClaimsAreCounted, Has, Running
  <2>2. \A x \in Worker : x # w /\ Has(x, i)' => claim[x].number \in Nat /\ attempts[i] \in Nat
    BY <2>1 DEF WorkerInv, WorkerTypeOK, Has, Running, Claim
  <2>3. Has(w, i)' => i = j /\ claim'[w].number = attempts[i] + 1
    BY <1>1 DEF Has, Running
  <2>4. CASE u # w /\ v # w
    BY <2>1, <2>4, <1>4 DEF WorkerInv, OneWorkerPerAttempt
  <2>5. CASE u = w /\ v # w
    BY <2>1, <2>2, <2>3, <2>5, <1>4
  <2>6. CASE u # w /\ v = w
    BY <2>1, <2>2, <2>3, <2>6, <1>4
  <2>7. QED
    BY <2>4, <2>5, <2>6
<1>10. ClaimsAreHeld'
  <2> SUFFICES ASSUME faults' = 0, retries' = 0, NEW v \in Worker, NEW i \in Job, Has(v, i)'
               PROVE  holder'[i] = v /\ leased'[i]
    BY DEF ClaimsAreHeld
  <2>1. CASE v = w
    <3>1. i = j
      BY <2>1, <1>1 DEF Has, Running
    <3>2. leased'[j] = TRUE
      BY ClaimIsNotNone DEF Take, Lease, WorkerInv, WorkerTypeOK
    <3>3. QED
      BY <2>1, <3>1, <3>2, <1>5
  <2>2. CASE v # w
    <3>1. holder[i] = v /\ leased[i] /\ status[i] = "RUNNING"
      BY <2>2, <1>4, ClaimIsNotNone DEF WorkerInv, WorkerTypeOK, ClaimsAreHeld, Has, Running
    <3>2. i # j
      BY <3>1 DEF Due
    <3>3. QED
      BY <3>1, <3>2 DEF Take, Lease, WorkerInv, WorkerTypeOK
  <2>3. QED
    BY <2>1, <2>2
<1>11. ReadsAreLater'
  <2> SUFFICES ASSUME retries' = 0, NEW v \in Worker, Running(v)'
               PROVE  claim'[v].number <= claim'[v].attempt
    BY DEF ReadsAreLater
  <2>1. v # w
    BY <1>1 DEF Running
  <2>2. QED
    BY <2>1, <1>4 DEF WorkerInv, ReadsAreLater, Running
<1>12. QED
  BY <1>2, <1>6, <1>7, <1>8, <1>9, <1>10, <1>11 DEF WorkerInv, RetriesWereAsked, Take

LEMMA TryClaimInv ==
  ASSUME WorkerInv, NEW w \in Worker, NEW j \in seen[w], TryClaim(w, j)
  PROVE  WorkerInv'
<1>1. j \in Job
  BY DEF WorkerInv, WorkerTypeOK
<1>2. CASE Due(j)
  <2>1. Take(w, j) /\ UNCHANGED <<faults, retries>>
    BY <1>2 DEF TryClaim
  <2>2. QED
    BY <1>1, <1>2, <2>1, TakeInv
<1>3. CASE ~Due(j)
  <2>1. seen' = [seen EXCEPT ![w] = @ \ {j}] /\ UNCHANGED <<rows, claim, asked, faults, retries>>
    BY <1>3 DEF TryClaim
  <2>2. QED
    BY <2>1 DEF WorkerInv, WorkerTypeOK, HolderIsLatest, NoClaimBeforeTheRow, ClaimsAreCounted, ReadsAreLater,
                OneWorkerPerAttempt, ClaimsAreHeld, RetriesWereAsked, rows, Has, Running
<1>4. QED
  BY <1>2, <1>3

(* Dropping a claim, with the row finished or left alone.                  *)
LEMMA DropClaim ==
  ASSUME WorkerInv, WorkerTypeOK', ClaimsAreHeld', NEW w \in Worker,
         claim' = [claim EXCEPT ![w] = None],
         \A v \in Worker : seen'[v] \subseteq seen[v],
         UNCHANGED <<attempts, asked, retries>>,
         \A j \in Job : status'[j] = "NONE" => status[j] = "NONE",
         \A j \in Job : holder'[j] \in {holder[j], None}
  PROVE  WorkerInv'
<1>1. \A v \in Worker, j \in Job : Has(v, j)' => Has(v, j) /\ claim'[v] = claim[v]
  BY DEF Has, Running, WorkerInv, WorkerTypeOK
<1>2. HolderIsLatest'
  BY <1>1, ClaimIsNotNone DEF WorkerInv, HolderIsLatest
<1>3. NoClaimBeforeTheRow' /\ OneWorkerPerAttempt'
  BY <1>1 DEF WorkerInv, NoClaimBeforeTheRow, OneWorkerPerAttempt
<1>6. ReadsAreLater'
  BY DEF WorkerInv, WorkerTypeOK, ReadsAreLater, Running
<1>4. ClaimsAreCounted'
  BY DEF WorkerInv, WorkerTypeOK, ClaimsAreCounted
<1>5. QED
  BY <1>2, <1>3, <1>4, <1>6 DEF WorkerInv, RetriesWereAsked

LEMMA FinishInv ==
  ASSUME WorkerInv, NEW w \in Worker, claim[w] # None, NEW state \in {"QUEUED"} \cup Ended,
         Finish(w, state), faults' \in 0 .. MaxFaults, faults' = 0 => faults = 0
  PROVE  WorkerInv'
<1>1. claim[w].job \in Job
  BY DEF WorkerInv, WorkerTypeOK, Claim
<1>2. WorkerTypeOK'
  <2>1. CASE holder[claim[w].job] = w
    <3> DEFINE j == claim[w].job
    <3>1. /\ status' = [status EXCEPT ![j] = state]
          /\ due' = [due EXCEPT ![j] = @ /\ state # "QUEUED"]
          /\ holder' = [holder EXCEPT ![j] = None]
          /\ leased' = [leased EXCEPT ![j] = FALSE]
          /\ claim' = [claim EXCEPT ![w] = None]
          /\ UNCHANGED <<attempts, seen, asked, retries>>
      BY <2>1 DEF Finish, Lease
    <3>2. state \in {"NONE", "QUEUED", "RUNNING", "DELETED"} \cup Ended /\ state # "RUNNING"
      BY DEF Ended
    <3>3. /\ status' \in [Job -> {"NONE", "QUEUED", "RUNNING", "DELETED"} \cup Ended]
          /\ holder' \in [Job -> Worker \cup {None}] /\ claim' \in [Worker -> Claim \cup {None}]
      BY <1>1, <3>1, <3>2 DEF WorkerInv, WorkerTypeOK
    <3>4. due' \in [Job -> BOOLEAN] /\ leased' \in [Job -> BOOLEAN]
      BY <1>1, <3>1 DEF WorkerInv, WorkerTypeOK
    <3>5. \A i \in Job : status'[i] = "RUNNING" <=> holder'[i] # None
      BY <1>1, <3>1, <3>2 DEF WorkerInv, WorkerTypeOK
    <3>6. QED
      BY <3>1, <3>3, <3>4, <3>5 DEF WorkerInv, WorkerTypeOK
  <2>2. CASE holder[claim[w].job] # w
    BY <1>1, <2>2 DEF WorkerInv, WorkerTypeOK, Finish
  <2>3. QED
    BY <2>1, <2>2
<1>3. \A j \in Job : /\ status'[j] = "NONE" => status[j] = "NONE"
                     /\ holder'[j] \in {holder[j], None}
  BY <1>1 DEF WorkerInv, WorkerTypeOK, Finish, Lease, Ended
<1>4. ClaimsAreHeld'
  <2> SUFFICES ASSUME faults' = 0, retries' = 0, NEW v \in Worker, NEW i \in Job, Has(v, i)'
               PROVE  holder'[i] = v /\ leased'[i]
    BY DEF ClaimsAreHeld
  <2>1. v # w /\ Has(v, i)
    BY DEF Finish, Has, Running, WorkerInv, WorkerTypeOK
  <2>2. holder[i] = v /\ leased[i]
    BY <2>1 DEF Finish, WorkerInv, ClaimsAreHeld
  <2>3. QED
    BY <1>1, <2>1, <2>2 DEF Finish, Lease, WorkerInv, WorkerTypeOK
<1>5. QED
  BY <1>2, <1>3, <1>4, DropClaim DEF Finish

LEMMA ReadRowInv ==
  ASSUME WorkerInv, NEW w \in Worker, ReadRow(w)
  PROVE  WorkerInv'
<1> DEFINE j == claim[w].job
<1>1. claim[w] \in Claim /\ j \in Job /\ claim[w].number \in Nat /\ claim[w].attempt = None
  BY DEF WorkerInv, WorkerTypeOK, ReadRow, Running, Claim
<1>2. /\ UNCHANGED <<rows, seen, asked, faults, retries>>
      /\ claim' = [claim EXCEPT ![w] = IF status[j] = "DELETED" THEN None
                                       ELSE [claim[w] EXCEPT !.attempt = attempts[j]]]
  BY DEF ReadRow
<1>3. CASE status[j] = "DELETED"
  <2>1. claim' = [claim EXCEPT ![w] = None]
    BY <1>2, <1>3
  <2>2. WorkerTypeOK'
    BY <1>2, <2>1 DEF WorkerInv, WorkerTypeOK, rows
  <2>3. ClaimsAreHeld'
    BY <1>2, <2>1 DEF WorkerInv, WorkerTypeOK, ClaimsAreHeld, Has, rows
  <2>4. QED
    BY <1>2, <2>1, <2>2, <2>3, DropClaim DEF rows
<1>4. CASE status[j] # "DELETED"
  <2>1. claim' = [claim EXCEPT ![w] = [claim[w] EXCEPT !.attempt = attempts[j]]]
    BY <1>2, <1>4
  <2>2. /\ claim'[w] \in Claim /\ claim'[w].job = j
        /\ claim'[w].number = claim[w].number /\ claim'[w].attempt = attempts[j]
    BY <1>1, <2>1 DEF WorkerInv, WorkerTypeOK, Claim
  <2>3. \A v \in Worker : v # w => claim'[v] = claim[v]
    BY <2>1 DEF WorkerInv, WorkerTypeOK
  <2>4. WorkerTypeOK'
    BY <1>2, <2>1, <2>2 DEF WorkerInv, WorkerTypeOK, rows
  <2>5. \A v \in Worker, i \in Job : Has(v, i)' => Has(v, i) /\ claim'[v].number = claim[v].number
    BY <2>2, <2>3, ClaimIsNotNone, <1>1 DEF Has
  <2>6. HolderIsLatest'
    <3> SUFFICES ASSUME NEW v \in Worker, NEW i \in Job, Has(v, i)', holder'[i] = v
                 PROVE  claim'[v].number = attempts'[i] /\ claim'[v].attempt \in {None, attempts'[i]}
      BY DEF HolderIsLatest
    <3>1. Has(v, i) /\ claim'[v].number = claim[v].number
      BY <2>5
    <3>2. claim[v].number = attempts[i] /\ claim[v].attempt \in {None, attempts[i]}
      BY <1>2, <3>1 DEF WorkerInv, HolderIsLatest, rows
    <3>3. CASE v = w
      BY <1>2, <2>2, <3>1, <3>2, <3>3 DEF rows, Has
    <3>4. CASE v # w
      BY <1>2, <2>3, <3>2, <3>4 DEF rows
    <3>5. QED
      BY <3>3, <3>4
  <2>7. NoClaimBeforeTheRow' /\ OneWorkerPerAttempt' /\ ClaimsAreHeld'
    BY <1>2, <2>5 DEF WorkerInv, NoClaimBeforeTheRow, OneWorkerPerAttempt, ClaimsAreHeld, rows
  <2>8. ClaimsAreCounted'
    BY <1>1, <1>2, <2>2, <2>3, ClaimIsNotNone DEF WorkerInv, ClaimsAreCounted, rows
  <2>9. ReadsAreLater'
    <3> SUFFICES ASSUME retries' = 0, NEW v \in Worker, Running(v)'
                 PROVE  claim'[v].number <= claim'[v].attempt
      BY DEF ReadsAreLater
    <3>1. CASE v = w
      BY <1>1, <1>2, <2>2, <3>1, ClaimIsNotNone DEF WorkerInv, ClaimsAreCounted
    <3>2. CASE v # w
      BY <1>2, <2>3, <3>2 DEF WorkerInv, ReadsAreLater, Running
    <3>3. QED
      BY <3>1, <3>2
  <2>10. QED
    BY <1>2, <2>4, <2>6, <2>7, <2>8, <2>9 DEF WorkerInv, RetriesWereAsked
<1>5. QED
  BY <1>3, <1>4

LEMMA WorkingInv ==
  ASSUME WorkerInv, NEW w \in Worker, Working(w)
  PROVE  WorkerInv'
<1>1. CASE Look(w)
  BY <1>1, LookInv
<1>2. CASE \E j \in seen[w] : TryClaim(w, j)
  BY <1>2, TryClaimInv
<1>3. CASE HandlerEnds(w)
  <2>1. PICK state \in {"SUCCEEDED", "FAILED", AfterError(w)} : Finish(w, state)
    BY <1>3 DEF HandlerEnds
  <2>2. claim[w] # None /\ faults' \in 0 .. MaxFaults /\ faults' = faults /\ state \in {"QUEUED"} \cup Ended
    BY <1>3 DEF HandlerEnds, Running, AfterError, Ended, WorkerInv, WorkerTypeOK
  <2>3. QED
    BY <2>1, <2>2, FinishInv
<1>4. CASE Renew(w)
  <2>1. WorkerTypeOK'
    BY <1>4 DEF Renew, Running, WorkerInv, WorkerTypeOK, Claim
  <2>2. ClaimsAreHeld'
    BY <1>4 DEF Renew, WorkerInv, WorkerTypeOK, ClaimsAreHeld, Has, Running
  <2>3. QED
    BY <1>4, <2>1, <2>2, QuietStep DEF Renew
<1>5. CASE RenewFails(w)
  <2>1. faults' \in 0 .. MaxFaults /\ faults' # 0
    BY <1>5, WorkerAssumption DEF RenewFails, Fault, WorkerInv, WorkerTypeOK
  <2>2. AfterError(w) \in {"QUEUED"} \cup Ended
    BY DEF AfterError, Ended
  <2>3. claim[w] # None /\ Finish(w, AfterError(w))
    BY <1>5 DEF RenewFails, Running
  <2>4. QED
    BY <2>1, <2>2, <2>3, FinishInv
<1>6. CASE Stall(w)
  <2>1. WorkerTypeOK'
    <3>1. faults' \in 0 .. MaxFaults
      BY <1>6, WorkerAssumption DEF Stall, Fault, WorkerInv, WorkerTypeOK
    <3>2. leased' \in [Job -> BOOLEAN]
      BY <1>6 DEF Stall, WorkerInv, WorkerTypeOK
    <3>3. QED
      BY <1>6, <3>1, <3>2 DEF Stall, WorkerInv, WorkerTypeOK
  <2>2. ClaimsAreHeld'
    BY <1>6 DEF Stall, Fault, WorkerInv, WorkerTypeOK, ClaimsAreHeld
  <2>3. QED
    BY <1>6, <2>1, <2>2, QuietStep DEF Stall
<1>7. CASE Crash(w)
  <2>1. WorkerTypeOK'
    <3>1. /\ faults' \in 0 .. MaxFaults
          /\ claim' \in [Worker -> Claim \cup {None}] /\ seen' \in [Worker -> SUBSET Job]
      BY <1>7, WorkerAssumption DEF Crash, Fault, WorkerInv, WorkerTypeOK
    <3>2. QED
      BY <1>7, <3>1 DEF Crash, rows, WorkerInv, WorkerTypeOK
  <2>2. \A v \in Worker : seen'[v] \subseteq seen[v]
    BY <1>7 DEF Crash, WorkerInv, WorkerTypeOK
  <2>3. ClaimsAreHeld'
    BY <1>7 DEF Crash, Fault, WorkerInv, WorkerTypeOK, ClaimsAreHeld
  <2>4. QED
    BY <1>7, <2>1, <2>2, <2>3, DropClaim DEF Crash, rows
<1>8. CASE ReadRow(w)
  BY <1>8, ReadRowInv
<1>9. QED
  BY <1>1, <1>2, <1>3, <1>4, <1>5, <1>6, <1>7, <1>8 DEF Working

LEMMA NextInv == WorkerInv /\ [Next]_vars => WorkerInv'
<1> SUFFICES ASSUME WorkerInv, [Next]_vars PROVE WorkerInv'
  OBVIOUS
<1>1. CASE \E j \in Job, now \in BOOLEAN : Enqueue(j, now)
  BY <1>1, EnqueueInv
<1>2. CASE \E j \in Job : Withdraw(j)
  BY <1>2, WithdrawInv
<1>3. CASE \E j \in Job : AskRetry(j) \/ RetryJob(j)
  BY <1>3, AskRetryInv, RetryJobInv
<1>4. CASE \E j \in Job : ComesDue(j) \/ LeaseLapses(j)
  BY <1>4, TimeInv
<1>5. CASE \E w \in Worker : Working(w)
  BY <1>5, WorkingInv
<1>6. CASE UNCHANGED vars
  BY <1>6 DEF vars, rows, WorkerInv, WorkerTypeOK, HolderIsLatest, NoClaimBeforeTheRow,
              ClaimsAreCounted, ReadsAreLater, OneWorkerPerAttempt, ClaimsAreHeld, RetriesWereAsked, Has, Running
<1>7. QED
  BY <1>1, <1>2, <1>3, <1>4, <1>5, <1>6 DEF Next

LEMMA WorkerInvariant == Spec => []WorkerInv
<1>1. QED
  BY InitInv, NextInv, PTL DEF Spec

-----------------------------------------------------------------------------

(* The rows and the workers' memories keep their types, and exactly the    *)
(* RUNNING rows are leased to somebody, in every run of any size.          *)
THEOREM WorkerTypeCorrect == Spec => []WorkerTypeOK
<1>1. WorkerInv => WorkerTypeOK
  BY DEF WorkerInv
<1>2. QED
  BY <1>1, WorkerInvariant, PTL

(* Until something fails two workers never run the same job; every attempt *)
(* counted is one worker's, and only a worker that read its row after it   *)
(* was taken over goes by the number of another (_claim).                  *)
THEOREM OneWorkerPerClaimAlways == Spec => []OneWorkerPerClaim
<1>1. WorkerInv => OneWorkerPerClaim
  <2> SUFFICES ASSUME WorkerInv, retries = 0, NEW w \in Worker, NEW v \in Worker, NEW j \in Job,
                      Runs(w, j), Runs(v, j), w # v
               PROVE  faults > 0 /\ (claim[w].attempt = claim[v].attempt =>
                                      \E u \in {w, v} : claim[u].number < claim[u].attempt)
    BY DEF WorkerInv, OneWorkerPerClaim, OneWorkerPerAttempt, Runs
  <2>1. Has(w, j) /\ Has(v, j) /\ Running(w) /\ Running(v)
    BY DEF Runs
  <2>2. faults > 0
    BY <2>1, WorkerAssumption DEF WorkerInv, WorkerTypeOK, ClaimsAreHeld
  <2>3. /\ claim[w].number # claim[v].number
        /\ claim[w].number <= claim[w].attempt /\ claim[v].number <= claim[v].attempt
    BY <2>1 DEF WorkerInv, OneWorkerPerAttempt, ReadsAreLater
  <2>4. \A u \in {w, v} : claim[u].number \in Nat /\ claim[u].attempt \in Nat
    BY <2>1 DEF WorkerInv, WorkerTypeOK, Running, Claim
  <2>5. QED
    BY <2>2, <2>3, <2>4
<1>2. QED
  BY <1>1, WorkerInvariant, PTL

(* A request of staff changes no other job.                                *)
LEMMA OnlyTheAskedIsRequeued ==
  ASSUME WorkerInv, NEW i \in Job, RetryJob(i), NEW j \in Job
  PROVE  status'[j] = status[j] \/ (Requeued(j) /\ status'[j] = "QUEUED")
BY DEF RetryJob, Requeued, rows, WorkerInv, WorkerTypeOK

(* What LatestClaimEnds and EndedIsKept ask of a step, from the invariant. *)
LEMMA StepEndsTheLatestClaim == WorkerInv /\ [Next]_vars => LatestClaimEnds
<1> SUFFICES ASSUME WorkerInv, [Next]_vars, NEW j \in Job,
                    status[j] = "RUNNING", status'[j] # "RUNNING", ~Requeued(j)
             PROVE  claim[holder[j]] = [job |-> j, number |-> attempts[j], attempt |-> attempts[j]]
  BY DEF LatestClaimEnds
<1>1. PICK w \in Worker : Running(w) /\ claim[w].job = j /\ holder[j] = w
  <2>1. CASE \E w \in Worker : HandlerEnds(w) \/ RenewFails(w)
    <3>1. PICK w \in Worker : HandlerEnds(w) \/ RenewFails(w)
      BY <2>1
    <3>2. PICK state : Running(w) /\ Finish(w, state)
      BY <3>1 DEF HandlerEnds, RenewFails
    <3>3. claim[w].job = j /\ holder[j] = w
      BY <3>2 DEF Finish, WorkerInv, WorkerTypeOK
    <3>4. QED
      BY <3>2, <3>3
  <2>2. CASE \E w \in Worker, i \in Job : TryClaim(w, i)
    BY <2>2 DEF TryClaim, Take, rows, WorkerInv, WorkerTypeOK
  <2>3. CASE \E w \in Worker : Look(w) \/ ReadRow(w) \/ Renew(w) \/ Stall(w) \/ Crash(w)
    BY <2>3 DEF Look, ReadRow, Renew, Stall, Crash, rows
  <2>4. CASE \E i \in Job : \/ \E now \in BOOLEAN : Enqueue(i, now)
                            \/ Withdraw(i) \/ AskRetry(i) \/ ComesDue(i) \/ LeaseLapses(i)
    BY <2>4 DEF Enqueue, Withdraw, AskRetry, ComesDue, LeaseLapses, rows, WorkerInv, WorkerTypeOK
  <2>5. CASE \E i \in Job : RetryJob(i)
    BY <2>5, OnlyTheAskedIsRequeued
  <2>6. CASE UNCHANGED vars
    BY <2>6 DEF vars, rows
  <2>7. QED
    BY <2>1, <2>2, <2>3, <2>4, <2>5, <2>6 DEF Next, Working, WorkerInv, WorkerTypeOK
<1>2. claim[w] \in Claim /\ claim[w].number = attempts[j] /\ claim[w].attempt = attempts[j]
  BY <1>1 DEF WorkerInv, WorkerTypeOK, HolderIsLatest, Has, Running
<1>3. QED
  BY <1>1, <1>2 DEF Claim

(* But for a request of staff, only the worker that runs a job's latest    *)
(* claim ends it: no former holder overwrites its successor (_finish).     *)
THEOREM OnlyHolderFinishesAlways == Spec => OnlyHolderFinishes
<1>1. WorkerInv /\ [Next]_vars => [LatestClaimEnds]_vars
  BY StepEndsTheLatestClaim
<1>2. QED
  BY <1>1, WorkerInvariant, PTL DEF Spec, OnlyHolderFinishes

LEMMA StepKeepsTheEnded == WorkerInv /\ [Next]_vars => EndedIsKept
<1> SUFFICES ASSUME WorkerInv, [Next]_vars, NEW j \in Job
             PROVE  /\ status[j] \in Ended =>
                         status'[j] = status[j] \/ (Requeued(j) /\ status'[j] = "QUEUED")
                    /\ status[j] # "DEAD" /\ status'[j] = "DEAD" => attempts[j] >= MaxAttempts
  BY DEF EndedIsKept
<1>1. CASE \E w \in Worker : HandlerEnds(w) \/ RenewFails(w)
  <2>1. PICK w \in Worker : HandlerEnds(w) \/ RenewFails(w)
    BY <1>1
  <2>2. PICK state \in {"SUCCEEDED", "FAILED", AfterError(w)} : Running(w) /\ Finish(w, state)
    BY <2>1 DEF HandlerEnds, RenewFails
  <2>3. CASE claim[w].job = j /\ holder[j] = w
    <3>1. status[j] = "RUNNING" /\ status'[j] = state
      BY <2>2, <2>3, WorkerAssumption DEF Finish, WorkerInv, WorkerTypeOK
    <3>2. claim[w].attempt = attempts[j]
      BY <2>2, <2>3 DEF WorkerInv, HolderIsLatest, Has, Running
    <3>3. QED
      BY <3>1, <3>2, <2>2 DEF AfterError, Ended
  <2>4. CASE ~(claim[w].job = j /\ holder[j] = w)
    BY <2>2, <2>4 DEF Finish, WorkerInv, WorkerTypeOK
  <2>5. QED
    BY <2>3, <2>4
<1>2. CASE \E w \in Worker, i \in Job : TryClaim(w, i)
  BY <1>2 DEF TryClaim, Take, Due, rows, Ended, WorkerInv, WorkerTypeOK
<1>3. CASE \E w \in Worker : Look(w) \/ ReadRow(w) \/ Renew(w) \/ Stall(w) \/ Crash(w)
  BY <1>3 DEF Look, ReadRow, Renew, Stall, Crash, rows
<1>4. CASE \E i \in Job : \/ \E now \in BOOLEAN : Enqueue(i, now)
                          \/ Withdraw(i) \/ AskRetry(i) \/ ComesDue(i) \/ LeaseLapses(i)
  BY <1>4 DEF Enqueue, Withdraw, AskRetry, ComesDue, LeaseLapses, rows, Ended, WorkerInv, WorkerTypeOK
<1>5. CASE \E i \in Job : RetryJob(i)
  BY <1>5, OnlyTheAskedIsRequeued
<1>6. CASE UNCHANGED vars
  BY <1>6 DEF vars, rows
<1>7. QED
  BY <1>1, <1>2, <1>3, <1>4, <1>5, <1>6 DEF Next, Working, WorkerInv, WorkerTypeOK

(* A job that ended stays as it ended unless staff ask for it again, and   *)
(* a job dies no sooner than on its last attempt (_DUE, _finish).          *)
THEOREM EndedStaysEndedAlways == Spec => EndedStaysEnded
<1>1. WorkerInv /\ [Next]_vars => [EndedIsKept]_vars
  BY StepKeepsTheEnded
<1>2. QED
  BY <1>1, WorkerInvariant, PTL DEF Spec, EndedStaysEnded
=============================================================================

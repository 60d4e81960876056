----------------------------- MODULE SubmitOnce -----------------------------
(***************************************************************************)
(* What the submission ledger promises about one job identity of an        *)
(* account: at most one submission is in progress at a time, a click is    *)
(* only ever made for the submission that holds the job, a job whose       *)
(* outcome is unknown stays taken until somebody knows, and a job known to *)
(* be applied for is never submitted again.                                *)
(***************************************************************************)

CONSTANT Job

VARIABLE stage   \* free, held (may still be withdrawn), clicking, applied

Init == stage = [j \in Job |-> "free"]

TypeOK == stage \in [Job -> {"free", "held", "clicking", "applied"}]

Move(j, from, to) ==
  /\ stage[j] = from
  /\ stage' = [stage EXCEPT ![j] = to]

Hold(j) == Move(j, "free", "held")

Click(j) == Move(j, "held", "clicking")

(* Proof, or a person's word, that nothing was submitted.                  *)
NotSubmitted(j) == Move(j, "clicking", "free")

(* A confirmation, or a person who says so, at any time.                   *)
Applied(j) == stage' = [stage EXCEPT ![j] = "applied"]

(* Unclicked submissions are withdrawn, several jobs at a time.            *)
Withdraw(S) ==
  /\ \A j \in S : stage[j] = "held"
  /\ stage' = [j \in Job |-> IF j \in S THEN "free" ELSE stage[j]]

Next ==
  \/ \E j \in Job : Hold(j) \/ Click(j) \/ NotSubmitted(j) \/ Applied(j)
  \/ \E S \in SUBSET Job : Withdraw(S)

Spec == Init /\ [][Next]_stage
=============================================================================

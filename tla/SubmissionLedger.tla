-------------------------- MODULE SubmissionLedger --------------------------
(***************************************************************************)
(* The server's record of human-authorized submissions: SUBMIT grants, the *)
(* intents that prevent duplicate applications, the attempts and their     *)
(* event log (webapp/services/human_submit.py, webapp/services/autonomy.py,*)
(* webapp/persistence/autonomy_ledger.py), with the kill switch, the       *)
(* sentinel file and pause (webapp/services/autonomy_controls.py).         *)
(*                                                                         *)
(* Every action is one BEGIN IMMEDIATE transaction.  A fill run has at     *)
(* most one authorization, a grant one authorization and an attempt one    *)
(* grant (UNIQUE columns), so all four are indexed by the fill run.  Runs  *)
(* of one job may belong to different application workspaces: only the job *)
(* identity key ties them together.                                        *)
(*                                                                         *)
(* Only HUMAN_SUBMIT authority is modelled: request_grant(SUBMIT) and      *)
(* pre_click_commit raise SubmissionNotAvailable unconditionally, so no    *)
(* autonomous submission exists.                                           *)
(***************************************************************************)

CONSTANTS
  Run,      \* fill runs of the account that may be submitted
  Job,      \* durable job identity keys
  JobOf     \* the job a run applies to

ASSUME JobOfAssumption == JobOf \in [Run -> Job]

VARIABLES
  grant,    \* autonomy_grants.status of the run's SUBMIT grant
  attempt,  \* state of the latest event of the run's attempt
  source,   \* who wrote that event
  intent,   \* submission_intents.state of the row the run claimed
  late,     \* the deadline of the run's current phase has passed
  byHuman,  \* jobs with a CONFIRMED intent that a person recorded directly
  halt,     \* the account's kill switch
  sentinel, \* the sentinel file exists
  paused    \* the search workspace is paused

ledgerVars == <<grant, attempt, source, intent, late, byHuman>>
controlVars == <<halt, sentinel, paused>>
lvars == <<ledgerVars, controlVars>>

-----------------------------------------------------------------------------

GrantStatus == {"NONE", "ISSUED", "CONSUMED", "REVOKED", "EXPIRED"}
AttemptState == {"NONE", "AUTHORIZED", "EXPIRED_UNCLICKED", "CLICK_DISPATCHED",
                 "SUBMISSION_AMBIGUOUS", "SUBMISSION_FAILED", "CONFIRMED_SUCCESS"}
IntentState == {"NONE", "CLAIMED", "CONFIRMED", "RELEASED"}
Live == {"CLAIMED", "CONFIRMED"}

(* What the extension reports about one attempt.                           *)
Evidence == [click : {"YES", "NO", "UNKNOWN"}, installed : BOOLEAN,
             restored : BOOLEAN, success : BOOLEAN, failure : BOOLEAN,
             content : BOOLEAN]

LedgerTypeOK ==
  /\ grant \in [Run -> GrantStatus]
  /\ attempt \in [Run -> AttemptState]
  /\ source \in [Run -> {"NONE", "SERVER", "EXECUTOR", "USER"}]
  /\ intent \in [Run -> IntentState]
  /\ late \in [Run -> BOOLEAN]
  /\ byHuman \subseteq Job
  /\ halt \in {"off", "engaged", "released"}
  /\ sentinel \in BOOLEAN
  /\ paused \in BOOLEAN

LedgerInit ==
  /\ grant = [r \in Run |-> "NONE"]
  /\ attempt = [r \in Run |-> "NONE"]
  /\ source = [r \in Run |-> "NONE"]
  /\ intent = [r \in Run |-> "NONE"]
  /\ late = [r \in Run |-> FALSE]
  /\ byHuman = {}
  /\ halt = "off"
  /\ sentinel = FALSE
  /\ paused = FALSE

-----------------------------------------------------------------------------
(* Reads.                                                                  *)

(* A released kill switch still halts until resume_all acknowledges it.    *)
Halted == halt # "off"

(* Seeded fault: only a claim in flight blocks the job, not a confirmation.*)
LiveIntentClaimsOnly(j) == \E r \in Run : JobOf[r] = j /\ intent[r] = "CLAIMED"

(* live_intent: the row the partial unique index allows once per job.      *)
LiveIntent(j) ==
  \/ j \in byHuman
  \/ \E r \in Run : JobOf[r] = j /\ intent[r] \in Live

(* Seeded fault: a reported missing click is believed with the egress open.*)
VerdictTrustsNoClick(e) ==
  IF e.click = "NO" THEN "SUBMISSION_FAILED" ELSE "SUBMISSION_AMBIGUOUS"

(* Seeded fault: a click under a restored quarantine counts as submitted.  *)
VerdictTrustsClick(e) ==
  IF e.click = "YES" /\ e.restored THEN "CONFIRMED_SUCCESS" ELSE "SUBMISSION_AMBIGUOUS"

(* determine_submit_result.  Matched-rule feedback is compiled out         *)
(* (MATCHED_ALLOW_RULES_REPORTED is False), so an egress that was ever     *)
(* installed rules out the no-click proof; the certified failure signal    *)
(* proves that nothing was stored.                                         *)
Verdict(e) ==
  IF e.click = "NO" /\ ~e.installed THEN "SUBMISSION_FAILED"
  ELSE IF e.content THEN "SUBMISSION_AMBIGUOUS"
  ELSE IF e.success /\ e.restored THEN "CONFIRMED_SUCCESS"
  ELSE IF e.failure THEN "SUBMISSION_FAILED"
  ELSE "SUBMISSION_AMBIGUOUS"

(* Writes shared by several transactions.                                  *)

RevokeIssued == [r \in Run |-> IF grant[r] = "ISSUED" THEN "REVOKED" ELSE grant[r]]

(* Seeded fault: the switch is engaged, the grants are left alone.         *)
EngageOnly == halt' = "engaged" /\ UNCHANGED grant

(* engage_kill_switch_in_transaction revokes every ISSUED grant.           *)
Engage ==
  /\ halt' = "engaged"
  /\ grant' = RevokeIssued

RevokeGrant(r) ==
  grant' = [grant EXCEPT ![r] = IF @ = "ISSUED" THEN "REVOKED" ELSE @]

(* append_attempt_event; the new phase starts a new deadline.              *)
Record(r, state, by) ==
  /\ attempt' = [attempt EXCEPT ![r] = state]
  /\ source' = [source EXCEPT ![r] = by]
  /\ late' = [late EXCEPT ![r] = FALSE]

(* Seeded fault: the intent moves whatever it was.                         *)
SettleAlways(r, state) == intent' = [intent EXCEPT ![r] = state]

(* _release and _confirm move an intent only while it is still CLAIMED: a  *)
(* CONFIRMED intent is never released.                                     *)
Settle(r, state) ==
  intent' = [intent EXCEPT ![r] = IF @ = "CLAIMED" THEN state ELSE @]

(* One transaction that moves every run of S to one attempt state and      *)
(* settles its intent.                                                     *)
RecordAll(S, state) ==
  /\ attempt' = [r \in Run |-> IF r \in S THEN state ELSE attempt[r]]
  /\ source' = [r \in Run |-> IF r \in S THEN "SERVER" ELSE source[r]]
  /\ late' = [r \in Run |-> late[r] /\ r \notin S]

-----------------------------------------------------------------------------
(* Authorization and its cancellation.                                     *)

(* authorize: a run that already has an authorization is refused, and so   *)
(* is a paused one before anything is read.  The gate then denies under a  *)
(* halt, a sentinel or a live intent of the same job.                      *)
Authorize(r) ==
  /\ grant[r] = "NONE"
  /\ ~paused /\ ~sentinel /\ ~Halted /\ ~LiveIntent(JobOf[r])
  /\ grant' = [grant EXCEPT ![r] = "ISSUED"]
  /\ UNCHANGED <<attempt, source, intent, late, byHuman, controlVars>>

(* The refusal still commits what _observe_sentinel_in_transaction wrote.  *)
AuthorizeSeesSentinel(r) ==
  /\ grant[r] = "NONE"
  /\ ~paused /\ sentinel /\ halt # "engaged"
  /\ Engage
  /\ UNCHANGED <<attempt, source, intent, late, byHuman, sentinel, paused>>

CancelGrant(r) ==
  /\ grant[r] = "ISSUED"
  /\ RevokeGrant(r)
  /\ UNCHANGED <<attempt, source, intent, late, byHuman, controlVars>>

(* cancel_authorization after the pre-click, and the extension's           *)
(* cancel_attempt: only while the click is not dispatched.                 *)
CancelAttempt(r) ==
  /\ attempt[r] = "AUTHORIZED"
  /\ Record(r, "EXPIRED_UNCLICKED", "USER")
  /\ Settle(r, "RELEASED")
  /\ UNCHANGED <<grant, byHuman, controlVars>>

-----------------------------------------------------------------------------
(* Pre-click commit and click dispatch.                                    *)

(* A proof about the page, the review or the executor's context fails, or  *)
(* the gate denies: the grant is revoked and the refusal committed.        *)
PreClickRefuse(r) ==
  /\ grant[r] = "ISSUED"
  /\ RevokeGrant(r)
  /\ UNCHANGED <<attempt, source, intent, late, byHuman, controlVars>>

Consumable(r) == grant[r] = "ISSUED" /\ ~late[r]

PreClickSeesSentinel(r) ==
  /\ Consumable(r)
  /\ ~paused /\ sentinel /\ halt # "engaged"
  /\ Engage
  /\ UNCHANGED <<attempt, source, intent, late, byHuman, sentinel, paused>>

PreClickCommit(r) ==
  /\ Consumable(r)
  /\ ~paused /\ ~sentinel /\ ~Halted /\ ~LiveIntent(JobOf[r])
  /\ grant' = [grant EXCEPT ![r] = "CONSUMED"]
  /\ intent' = [intent EXCEPT ![r] = "CLAIMED"]
  /\ Record(r, "AUTHORIZED", "SERVER")
  /\ UNCHANGED <<byHuman, controlVars>>

(* Seeded fault: pause is not checked again.                               *)
MayDispatchThoughPaused(r) == ~Halted /\ ~sentinel /\ intent[r] = "CLAIMED" /\ ~late[r]

(* human_record_click_dispatched re-checks every halt, then the 6B         *)
(* acknowledgement checks the claim and the dispatch deadline.             *)
MayDispatch(r) ==
  /\ ~Halted /\ ~sentinel /\ ~paused
  /\ intent[r] = "CLAIMED"
  /\ ~late[r]

DispatchAcknowledge(r) ==
  /\ attempt[r] = "AUTHORIZED"
  /\ MayDispatch(r)
  /\ Record(r, "CLICK_DISPATCHED", "EXECUTOR")
  /\ UNCHANGED <<grant, intent, byHuman, controlVars>>

DispatchRefuse(r) ==
  /\ attempt[r] = "AUTHORIZED"
  /\ ~MayDispatch(r)
  /\ Record(r, "EXPIRED_UNCLICKED", "SERVER")
  /\ Settle(r, "RELEASED")
  /\ UNCHANGED <<grant, byHuman, controlVars>>

-----------------------------------------------------------------------------
(* Results.                                                                *)

(* Seeded fault: an unknown outcome gives the job back.                    *)
IntentAfterReleasesAmbiguous(state) == IF state = "CONFIRMED_SUCCESS" THEN "CONFIRMED" ELSE "RELEASED"

IntentAfter(state) ==
  IF state = "CONFIRMED_SUCCESS" THEN "CONFIRMED"
  ELSE IF state = "SUBMISSION_FAILED" THEN "RELEASED"
  ELSE "CLAIMED"

(* report_result records the verdict on the reported evidence.             *)
ReportResult(r, verdict) ==
  /\ attempt[r] = "CLICK_DISPATCHED"
  /\ Record(r, verdict, "SERVER")
  /\ Settle(r, IntentAfter(verdict))
  /\ UNCHANGED <<grant, byHuman, controlVars>>

(* resolve: the user's answer for an ambiguous attempt.                    *)
Resolve(r, submitted) ==
  LET state == IF submitted THEN "CONFIRMED_SUCCESS" ELSE "SUBMISSION_FAILED" IN
  /\ attempt[r] = "SUBMISSION_AMBIGUOUS"
  /\ Record(r, state, "USER")
  /\ Settle(r, IntentAfter(state))
  /\ UNCHANGED <<grant, byHuman, controlVars>>

(* record_human_intent: the tracker's own "applied" for some workspace of  *)
(* the job.  A claim in flight becomes CONFIRMED; without a live intent a  *)
(* new CONFIRMED row is inserted.                                          *)
HumanApplied(j) ==
  LET claimed == {r \in Run : JobOf[r] = j /\ intent[r] = "CLAIMED"} IN
  /\ intent' = [r \in Run |-> IF r \in claimed THEN "CONFIRMED" ELSE intent[r]]
  /\ byHuman' = IF LiveIntent(j) THEN byHuman ELSE byHuman \cup {j}
  /\ UNCHANGED <<grant, attempt, source, late, controlVars>>

-----------------------------------------------------------------------------
(* Time: a deadline passes, and the scheduler's sweeps act on it.          *)

Elapse(r) ==
  /\ ~late[r]
  /\ grant[r] = "ISSUED" \/ attempt[r] \in {"AUTHORIZED", "CLICK_DISPATCHED"}
  /\ late' = [late EXCEPT ![r] = TRUE]
  /\ UNCHANGED <<grant, attempt, source, intent, byHuman, controlVars>>

Overdue(state) == {r \in Run : attempt[r] = state /\ late[r]}

ExpireGrants ==
  /\ grant' = [r \in Run |-> IF grant[r] = "ISSUED" /\ late[r] THEN "EXPIRED" ELSE grant[r]]
  /\ UNCHANGED <<attempt, source, intent, late, byHuman, controlVars>>

(* Seeded fault: a halt stops the sweep.                                   *)
ExpireUnclickedUnlessHalted ==
  /\ ~Halted
  /\ RecordAll(Overdue("AUTHORIZED"), "EXPIRED_UNCLICKED")
  /\ intent' = [r \in Run |-> IF r \in Overdue("AUTHORIZED") THEN "RELEASED" ELSE intent[r]]
  /\ UNCHANGED <<grant, byHuman, controlVars>>

ExpireUnclicked ==
  LET S == Overdue("AUTHORIZED") IN
  /\ RecordAll(S, "EXPIRED_UNCLICKED")
  /\ intent' = [r \in Run |-> IF r \in S /\ intent[r] = "CLAIMED" THEN "RELEASED" ELSE intent[r]]
  /\ UNCHANGED <<grant, byHuman, controlVars>>

MarkStaleAmbiguous ==
  /\ RecordAll(Overdue("CLICK_DISPATCHED"), "SUBMISSION_AMBIGUOUS")
  /\ UNCHANGED <<grant, intent, byHuman, controlVars>>

-----------------------------------------------------------------------------
(* Controls.                                                               *)

EngageKillSwitch ==
  /\ Engage
  /\ UNCHANGED <<attempt, source, intent, late, byHuman, sentinel, paused>>

(* latch_sentinel and observe_sentinel.                                    *)
LatchSentinel ==
  /\ sentinel /\ halt # "engaged"
  /\ EngageKillSwitch

ReleaseKillSwitch ==
  /\ halt = "engaged"
  /\ halt' = "released"
  /\ UNCHANGED <<ledgerVars, sentinel, paused>>

(* RESUME_ALL acknowledges the latest engagement and outlives every PAUSE. *)
ResumeAll ==
  /\ ~sentinel
  /\ halt' = "off"
  /\ paused' = FALSE
  /\ UNCHANGED <<ledgerVars, sentinel>>

Pause ==
  /\ paused' = TRUE
  /\ UNCHANGED <<ledgerVars, halt, sentinel>>

Resume ==
  /\ paused' = FALSE
  /\ UNCHANGED <<ledgerVars, halt, sentinel>>

(* The operator creates or removes the sentinel file.                      *)
FlipSentinel ==
  /\ sentinel' = ~sentinel
  /\ UNCHANGED <<ledgerVars, halt, paused>>

-----------------------------------------------------------------------------

Submitting(r) ==
  \/ Authorize(r)
  \/ AuthorizeSeesSentinel(r)
  \/ CancelGrant(r)
  \/ CancelAttempt(r)
  \/ PreClickRefuse(r)
  \/ PreClickSeesSentinel(r)
  \/ PreClickCommit(r)
  \/ DispatchAcknowledge(r)
  \/ DispatchRefuse(r)
  \/ \E verdict \in {Verdict(e) : e \in Evidence} : ReportResult(r, verdict)
  \/ \E submitted \in BOOLEAN : Resolve(r, submitted)

Sweeping ==
  \/ ExpireGrants
  \/ ExpireUnclicked
  \/ MarkStaleAmbiguous

Controlling ==
  \/ EngageKillSwitch
  \/ LatchSentinel
  \/ ReleaseKillSwitch
  \/ ResumeAll
  \/ Pause
  \/ Resume
  \/ FlipSentinel

LedgerNext ==
  \/ \E r \in Run : Submitting(r)
  \/ \E r \in Run : Elapse(r)
  \/ \E j \in Job : HumanApplied(j)
  \/ Sweeping
  \/ Controlling

(* Time passes, and the scheduler thread runs every sweep on every tick,   *)
(* whether or not the account is halted.  Nothing else need happen.        *)
LedgerFairness ==
  /\ \A r \in Run : WF_lvars(Elapse(r))
  /\ WF_lvars(ExpireGrants)
  /\ WF_lvars(ExpireUnclicked)
  /\ WF_lvars(MarkStaleAmbiguous)

LedgerSafety == LedgerInit /\ [][LedgerNext]_lvars

LedgerSpec == LedgerSafety /\ LedgerFairness

-----------------------------------------------------------------------------
(* Properties.                                                             *)

OpenAttempt == {"AUTHORIZED", "CLICK_DISPATCHED", "SUBMISSION_AMBIGUOUS"}

(* An attempt and the intent it claimed agree although they are written by *)
(* eight different transactions and a person may confirm the intent from   *)
(* outside: an open attempt holds a live intent, a confirmed attempt a     *)
(* CONFIRMED one, and an intent is released only when the attempt provably *)
(* (or by the user's word) submitted nothing.                              *)
IntentMatchesAttempt ==
  \A r \in Run :
    /\ attempt[r] = "NONE" <=> intent[r] = "NONE"
    /\ attempt[r] # "NONE" <=> grant[r] = "CONSUMED"
    /\ intent[r] = "CLAIMED" => attempt[r] \in OpenAttempt
    /\ attempt[r] \in OpenAttempt => intent[r] \in Live
    /\ attempt[r] = "CONFIRMED_SUCCESS" => intent[r] = "CONFIRMED"
    /\ intent[r] = "RELEASED" => attempt[r] \in {"EXPIRED_UNCLICKED", "SUBMISSION_FAILED"}

(* At most one live intent per job identity, whoever recorded it: a second *)
(* workspace of the same job, a human "applied", or this run.  (J8)        *)
OneLiveIntentPerJob ==
  \A r, s \in Run :
    JobOf[r] = JobOf[s] /\ intent[r] \in Live =>
      /\ intent[s] \in Live => r = s
      /\ JobOf[r] \notin byHuman

(* While the account is halted no SUBMIT grant can be consumed: engaging   *)
(* revoked the issued ones and none is issued until RESUME_ALL, through    *)
(* every path by which the sentinel file may have engaged the switch.      *)
HaltLeavesNoGrant == Halted => \A r \in Run : grant[r] # "ISSUED"

(* The right to click is handed out only with no halt, sentinel or pause   *)
(* in force at that moment, within the dispatch deadline, and only to the  *)
(* run that holds the job's one live intent.  (E15)                        *)
DispatchHoldsTheJob ==
  \A r \in Run :
    attempt[r] # "CLICK_DISPATCHED" /\ attempt'[r] = "CLICK_DISPATCHED" =>
      /\ halt = "off" /\ ~sentinel /\ ~paused /\ ~late[r]
      /\ intent[r] = "CLAIMED"
      /\ JobOf[r] \notin byHuman
      /\ \A s \in Run \ {r} : JobOf[s] = JobOf[r] => intent[s] \notin Live

DispatchOnlyByHolder == [][DispatchHoldsTheJob]_lvars

(* A grant, an authorized attempt and a dispatched attempt cannot wait for *)
(* ever on an executor that has gone: the sweeps end each phase, whatever  *)
(* the controls do meanwhile.  An ambiguous attempt waits for the user.    *)
PhasesEnd ==
  \A r \in Run :
    grant[r] = "ISSUED" \/ attempt[r] \in {"AUTHORIZED", "CLICK_DISPATCHED"} ~>
      grant[r] # "ISSUED" /\ attempt[r] \notin {"AUTHORIZED", "CLICK_DISPATCHED"}

(* What the ledger is for: SubmitOnce, seen through the intents and the    *)
(* attempts that hold them.                                                *)
JobStage(j) ==
  IF j \in byHuman \/ \E r \in Run : JobOf[r] = j /\ intent[r] = "CONFIRMED" THEN "applied"
  ELSE IF \E r \in Run : JobOf[r] = j /\ intent[r] = "CLAIMED" /\ attempt[r] = "AUTHORIZED" THEN "held"
  ELSE IF \E r \in Run : JobOf[r] = j /\ intent[r] = "CLAIMED" THEN "clicking"
  ELSE "free"

Stage == [j \in Job |-> JobStage(j)]

Promise == INSTANCE SubmitOnce WITH stage <- Stage

(* Every history of the ledger is one of SubmitOnce.                       *)
SubmitsOnce == Promise!Spec
=============================================================================

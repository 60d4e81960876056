-------------------------- MODULE SubmissionProofs --------------------------
(***************************************************************************)
(* Proofs about Submission, for any set of runs and jobs and any number of *)
(* faults.                                                                 *)
(***************************************************************************)
EXTENDS Submission, TLAPS

-----------------------------------------------------------------------------
(* The ledger alone: the facts and theorems of SubmissionLedger, for its    *)
(* own next-state relation.  The composition reuses them.                  *)

USE JobOfAssumption

(* What the shared writes do to the types.                                 *)
LEMMA VerdictType ==
  \A verdict \in {Verdict(e) : e \in Evidence} :
    verdict \in {"SUBMISSION_FAILED", "SUBMISSION_AMBIGUOUS", "CONFIRMED_SUCCESS"}
BY DEF Verdict, Evidence

LEMMA RecordType ==
  ASSUME LedgerTypeOK, NEW r \in Run, NEW state \in AttemptState,
         NEW by \in {"NONE", "SERVER", "EXECUTOR", "USER"}, Record(r, state, by)
  PROVE  /\ attempt' \in [Run -> AttemptState]
         /\ source' \in [Run -> {"NONE", "SERVER", "EXECUTOR", "USER"}]
         /\ late' \in [Run -> BOOLEAN]
BY DEF LedgerTypeOK, Record

LEMMA RecordAllType ==
  ASSUME LedgerTypeOK, NEW S, NEW state \in AttemptState, RecordAll(S, state)
  PROVE  /\ attempt' \in [Run -> AttemptState]
         /\ source' \in [Run -> {"NONE", "SERVER", "EXECUTOR", "USER"}]
         /\ late' \in [Run -> BOOLEAN]
BY DEF LedgerTypeOK, RecordAll

LEMMA SettleType ==
  ASSUME LedgerTypeOK, NEW r \in Run, NEW state \in IntentState, Settle(r, state)
  PROVE  intent' \in [Run -> IntentState]
BY DEF LedgerTypeOK, Settle, IntentState

LEMMA EngageType ==
  ASSUME LedgerTypeOK, Engage
  PROVE  /\ halt' = "engaged"
         /\ grant' \in [Run -> GrantStatus]
BY DEF LedgerTypeOK, Engage, RevokeIssued, GrantStatus

LEMMA RevokeType ==
  ASSUME LedgerTypeOK, NEW r \in Run, RevokeGrant(r)
  PROVE  grant' \in [Run -> GrantStatus]
BY DEF LedgerTypeOK, RevokeGrant, GrantStatus

LEMMA SubmittingType ==
  ASSUME LedgerTypeOK, NEW r \in Run, Submitting(r)
  PROVE  LedgerTypeOK'
<1>1. CASE Authorize(r)
  BY <1>1 DEF Authorize, LedgerTypeOK, GrantStatus, controlVars
<1>2. CASE AuthorizeSeesSentinel(r)
  BY <1>2, EngageType DEF AuthorizeSeesSentinel, LedgerTypeOK
<1>3. CASE CancelGrant(r)
  BY <1>3, RevokeType DEF CancelGrant, LedgerTypeOK, controlVars
<1>4. CASE CancelAttempt(r)
  BY <1>4, RecordType, SettleType DEF CancelAttempt, LedgerTypeOK, AttemptState, IntentState, controlVars
<1>5. CASE PreClickRefuse(r)
  BY <1>5, RevokeType DEF PreClickRefuse, LedgerTypeOK, controlVars
<1>6. CASE PreClickSeesSentinel(r)
  BY <1>6, EngageType DEF PreClickSeesSentinel, LedgerTypeOK
<1>7. CASE PreClickCommit(r)
  BY <1>7, RecordType DEF PreClickCommit, LedgerTypeOK, AttemptState, IntentState, GrantStatus, controlVars
<1>8. CASE DispatchAcknowledge(r)
  BY <1>8, RecordType DEF DispatchAcknowledge, LedgerTypeOK, AttemptState, controlVars
<1>9. CASE DispatchRefuse(r)
  BY <1>9, RecordType, SettleType DEF DispatchRefuse, LedgerTypeOK, AttemptState, IntentState, controlVars
<1>10. ASSUME NEW verdict \in {Verdict(e) : e \in Evidence}, ReportResult(r, verdict)
       PROVE  LedgerTypeOK'
  <2>1. verdict \in AttemptState /\ IntentAfter(verdict) \in IntentState
    BY VerdictType DEF AttemptState, IntentState, IntentAfter
  <2>2. QED
    BY <1>10, <2>1, RecordType, SettleType DEF ReportResult, LedgerTypeOK, controlVars
<1>11. ASSUME NEW submitted \in BOOLEAN, Resolve(r, submitted)
       PROVE  LedgerTypeOK'
  <2> DEFINE state == IF submitted THEN "CONFIRMED_SUCCESS" ELSE "SUBMISSION_FAILED"
  <2>1. state \in AttemptState /\ IntentAfter(state) \in IntentState
    BY DEF AttemptState, IntentState, IntentAfter
  <2>2. Record(r, state, "USER") /\ Settle(r, IntentAfter(state)) /\ UNCHANGED <<grant, byHuman, controlVars>>
    BY <1>11 DEF Resolve
  <2>3. QED
    BY <2>1, <2>2, RecordType, SettleType DEF LedgerTypeOK, controlVars
<1>12. QED
  BY <1>1, <1>2, <1>3, <1>4, <1>5, <1>6, <1>7, <1>8, <1>9, <1>10, <1>11 DEF Submitting

LEMMA SweepingType ==
  ASSUME LedgerTypeOK, Sweeping
  PROVE  LedgerTypeOK'
<1>1. CASE ExpireGrants
  BY <1>1 DEF ExpireGrants, LedgerTypeOK, GrantStatus, controlVars
<1>2. CASE ExpireUnclicked
  BY <1>2, RecordAllType DEF ExpireUnclicked, LedgerTypeOK, AttemptState, IntentState, controlVars
<1>3. CASE MarkStaleAmbiguous
  BY <1>3, RecordAllType DEF MarkStaleAmbiguous, LedgerTypeOK, AttemptState, controlVars
<1>4. QED
  BY <1>1, <1>2, <1>3 DEF Sweeping

LEMMA ControllingType ==
  ASSUME LedgerTypeOK, Controlling
  PROVE  LedgerTypeOK'
<1>1. CASE EngageKillSwitch
  BY <1>1, EngageType DEF EngageKillSwitch, LedgerTypeOK
<1>2. CASE LatchSentinel
  BY <1>2, EngageType DEF LatchSentinel, EngageKillSwitch, LedgerTypeOK
<1>3. CASE ReleaseKillSwitch \/ ResumeAll \/ Pause \/ Resume \/ FlipSentinel
  BY <1>3 DEF ReleaseKillSwitch, ResumeAll, Pause, Resume, FlipSentinel, LedgerTypeOK, ledgerVars
<1>4. QED
  BY <1>1, <1>2, <1>3 DEF Controlling

LEMMA TypePreserved == LedgerTypeOK /\ [LedgerNext]_lvars => LedgerTypeOK'
<1> SUFFICES ASSUME LedgerTypeOK, [LedgerNext]_lvars PROVE LedgerTypeOK'
  OBVIOUS
<1>1. ASSUME NEW r \in Run, Elapse(r) PROVE LedgerTypeOK'
  BY <1>1 DEF Elapse, LedgerTypeOK, controlVars
<1>2. ASSUME NEW j \in Job, HumanApplied(j) PROVE LedgerTypeOK'
  BY <1>2 DEF HumanApplied, LedgerTypeOK, IntentState, controlVars
<1>3. CASE UNCHANGED lvars
  BY <1>3 DEF lvars, ledgerVars, controlVars, LedgerTypeOK
<1>4. QED
  BY <1>1, <1>2, <1>3, SubmittingType, SweepingType, ControllingType DEF LedgerNext

(* Every variable keeps its type.                                          *)
THEOREM LedgerTypeCorrect == LedgerSpec => []LedgerTypeOK
<1>1. LedgerInit => LedgerTypeOK
  BY DEF LedgerInit, LedgerTypeOK, GrantStatus, AttemptState, IntentState
<1>2. QED
  BY <1>1, TypePreserved, PTL DEF LedgerSpec, LedgerSafety

-----------------------------------------------------------------------------
(* The invariant is inductive once the three safety invariants are taken   *)
(* together with the types: a claim is only inserted where no live intent  *)
(* is, and an attempt only moves together with its own intent.             *)
LedgerInv ==
  /\ LedgerTypeOK
  /\ IntentMatchesAttempt
  /\ OneLiveIntentPerJob
  /\ HaltLeavesNoGrant

(* No transaction but the pre-click commit and the tracker's "applied"     *)
(* makes an intent live that was not, or touches byHuman.                  *)
LiveOnlyShrinks ==
  /\ \A r \in Run : intent'[r] \in Live => intent[r] \in Live
  /\ byHuman' = byHuman

LEMMA ShrinkingKeepsOneLive ==
  ASSUME OneLiveIntentPerJob, LiveOnlyShrinks
  PROVE  OneLiveIntentPerJob'
BY DEF OneLiveIntentPerJob, LiveOnlyShrinks

(* No transaction but authorize issues a grant.                            *)
LEMMA EngageLeavesNoGrant ==
  ASSUME LedgerTypeOK, Engage
  PROVE  /\ \A r \in Run : grant'[r] # "ISSUED"
         /\ \A r \in Run : grant'[r] = "CONSUMED" <=> grant[r] = "CONSUMED"
BY DEF LedgerTypeOK, Engage, RevokeIssued

LEMMA RevokeKeepsConsumed ==
  ASSUME LedgerTypeOK, NEW r \in Run, RevokeGrant(r)
  PROVE  \A s \in Run : /\ grant'[s] = "CONSUMED" <=> grant[s] = "CONSUMED"
                        /\ grant'[s] = "ISSUED" => grant[s] = "ISSUED"
BY DEF LedgerTypeOK, RevokeGrant, GrantStatus

(* What ends a phase of an attempt: Record with Settle.                    *)
LEMMA RecordAndSettle ==
  ASSUME LedgerInv, NEW r \in Run, NEW state \in AttemptState, NEW by, NEW after \in IntentState,
         attempt[r] \in OpenAttempt,
         Record(r, state, by), Settle(r, after), UNCHANGED <<grant, byHuman>>,
         \/ state = "CONFIRMED_SUCCESS" /\ after = "CONFIRMED"
         \/ state \in {"EXPIRED_UNCLICKED", "SUBMISSION_FAILED"} /\ after = "RELEASED"
         \/ state \in OpenAttempt /\ after = "CLAIMED"
  PROVE  IntentMatchesAttempt' /\ OneLiveIntentPerJob'
<1>1. \A s \in Run : s # r => attempt'[s] = attempt[s] /\ intent'[s] = intent[s]
  BY DEF LedgerInv, LedgerTypeOK, Record, Settle
<1>2. attempt'[r] = state /\ intent'[r] = IF intent[r] = "CLAIMED" THEN after ELSE intent[r]
  BY DEF LedgerInv, LedgerTypeOK, Record, Settle
<1>3. intent[r] \in Live /\ grant[r] = "CONSUMED"
  BY DEF LedgerInv, IntentMatchesAttempt, OpenAttempt
<1>4. IntentMatchesAttempt'
  <2> SUFFICES ASSUME NEW s \in Run
               PROVE /\ attempt'[s] = "NONE" <=> intent'[s] = "NONE"
                     /\ attempt'[s] # "NONE" <=> grant'[s] = "CONSUMED"
                     /\ intent'[s] = "CLAIMED" => attempt'[s] \in OpenAttempt
                     /\ attempt'[s] \in OpenAttempt => intent'[s] \in Live
                     /\ attempt'[s] = "CONFIRMED_SUCCESS" => intent'[s] = "CONFIRMED"
                     /\ intent'[s] = "RELEASED" => attempt'[s] \in {"EXPIRED_UNCLICKED", "SUBMISSION_FAILED"}
    BY DEF IntentMatchesAttempt
  <2>1. CASE s # r
    BY <2>1, <1>1 DEF LedgerInv, IntentMatchesAttempt
  <2>2. CASE s = r
    BY <2>2, <1>2, <1>3 DEF Live, OpenAttempt
  <2>3. QED
    BY <2>1, <2>2
<1>5. LiveOnlyShrinks
  BY <1>1, <1>3 DEF LiveOnlyShrinks
<1>6. QED
  BY <1>4, <1>5, ShrinkingKeepsOneLive DEF LedgerInv

(* Transactions that only change grants or controls.                       *)
LEMMA AttemptsUntouched ==
  ASSUME LedgerInv, UNCHANGED <<attempt, intent, byHuman>>,
         \A r \in Run : grant'[r] = "CONSUMED" <=> grant[r] = "CONSUMED"
  PROVE  IntentMatchesAttempt' /\ OneLiveIntentPerJob'
BY DEF LedgerInv, IntentMatchesAttempt, OneLiveIntentPerJob

LEMMA CommitMatches ==
  ASSUME LedgerInv, NEW r \in Run, PreClickCommit(r)
  PROVE  IntentMatchesAttempt' /\ OneLiveIntentPerJob'
<1>1. \A s \in Run : s # r => /\ attempt'[s] = attempt[s]
                             /\ intent'[s] = intent[s]
                             /\ grant'[s] = grant[s]
  BY DEF LedgerInv, LedgerTypeOK, PreClickCommit, Record
<1>2. attempt'[r] = "AUTHORIZED" /\ intent'[r] = "CLAIMED" /\ grant'[r] = "CONSUMED"
  BY DEF LedgerInv, LedgerTypeOK, PreClickCommit, Record
<1>3. IntentMatchesAttempt'
  <2> SUFFICES ASSUME NEW s \in Run
               PROVE /\ attempt'[s] = "NONE" <=> intent'[s] = "NONE"
                     /\ attempt'[s] # "NONE" <=> grant'[s] = "CONSUMED"
                     /\ intent'[s] = "CLAIMED" => attempt'[s] \in OpenAttempt
                     /\ attempt'[s] \in OpenAttempt => intent'[s] \in Live
                     /\ attempt'[s] = "CONFIRMED_SUCCESS" => intent'[s] = "CONFIRMED"
                     /\ intent'[s] = "RELEASED" => attempt'[s] \in {"EXPIRED_UNCLICKED", "SUBMISSION_FAILED"}
    BY DEF IntentMatchesAttempt
  <2>1. CASE s # r
    BY <2>1, <1>1 DEF LedgerInv, IntentMatchesAttempt
  <2>2. CASE s = r
    BY <2>2, <1>2 DEF Live, OpenAttempt
  <2>3. QED
    BY <2>1, <2>2
<1>4. ~LiveIntent(JobOf[r]) /\ byHuman' = byHuman
  BY DEF PreClickCommit
<1>5. OneLiveIntentPerJob'
  BY <1>1, <1>2, <1>4 DEF LedgerInv, OneLiveIntentPerJob, LiveIntent
<1>6. QED
  BY <1>3, <1>5

LEMMA HumanAppliedMatches ==
  ASSUME LedgerInv, NEW j \in Job, HumanApplied(j)
  PROVE  IntentMatchesAttempt' /\ OneLiveIntentPerJob'
<1>1. \A s \in Run : intent'[s] = IF JobOf[s] = j /\ intent[s] = "CLAIMED" THEN "CONFIRMED" ELSE intent[s]
  BY DEF LedgerInv, LedgerTypeOK, HumanApplied
<1>2. UNCHANGED <<attempt, grant>>
  BY DEF HumanApplied
<1>3. IntentMatchesAttempt'
  BY <1>1, <1>2 DEF LedgerInv, IntentMatchesAttempt, Live
<1>4. \A s \in Run : intent'[s] \in Live <=> intent[s] \in Live
  BY <1>1 DEF Live
<1>5. byHuman' = IF LiveIntent(j) THEN byHuman ELSE byHuman \cup {j}
  BY DEF HumanApplied
<1>6. OneLiveIntentPerJob'
  BY <1>4, <1>5 DEF LedgerInv, OneLiveIntentPerJob, LiveIntent
<1>7. QED
  BY <1>3, <1>6

LEMMA SubmittingMatches ==
  ASSUME LedgerInv, NEW r \in Run, Submitting(r)
  PROVE  IntentMatchesAttempt' /\ OneLiveIntentPerJob'
<1>0. LedgerTypeOK
  BY DEF LedgerInv
<1>1. CASE Authorize(r)
  <2>1. \A s \in Run : grant'[s] = "CONSUMED" <=> grant[s] = "CONSUMED"
    BY <1>0, <1>1 DEF Authorize, LedgerTypeOK, GrantStatus
  <2>2. QED
    BY <1>1, <2>1, AttemptsUntouched DEF Authorize
<1>2. CASE AuthorizeSeesSentinel(r)
  BY <1>0, <1>2, EngageLeavesNoGrant, AttemptsUntouched DEF AuthorizeSeesSentinel
<1>3. CASE CancelGrant(r)
  BY <1>0, <1>3, RevokeKeepsConsumed, AttemptsUntouched DEF CancelGrant
<1>4. CASE CancelAttempt(r)
  BY <1>4, RecordAndSettle DEF CancelAttempt, AttemptState, IntentState, OpenAttempt
<1>5. CASE PreClickRefuse(r)
  BY <1>0, <1>5, RevokeKeepsConsumed, AttemptsUntouched DEF PreClickRefuse
<1>6. CASE PreClickSeesSentinel(r)
  BY <1>0, <1>6, EngageLeavesNoGrant, AttemptsUntouched DEF PreClickSeesSentinel
<1>7. CASE PreClickCommit(r)
  BY <1>7, CommitMatches
<1>8. CASE DispatchAcknowledge(r)
  <2>1. Settle(r, "CLAIMED")
    BY <1>0, <1>8 DEF DispatchAcknowledge, Settle, LedgerTypeOK
  <2>2. QED
    BY <1>8, <2>1, RecordAndSettle DEF DispatchAcknowledge, AttemptState, IntentState, OpenAttempt
<1>9. CASE DispatchRefuse(r)
  BY <1>9, RecordAndSettle DEF DispatchRefuse, AttemptState, IntentState, OpenAttempt
<1>10. ASSUME NEW verdict \in {Verdict(e) : e \in Evidence}, ReportResult(r, verdict)
       PROVE  IntentMatchesAttempt' /\ OneLiveIntentPerJob'
  <2>1. verdict \in {"SUBMISSION_FAILED", "SUBMISSION_AMBIGUOUS", "CONFIRMED_SUCCESS"}
    BY VerdictType
  <2>2. QED
    BY <1>10, <2>1, RecordAndSettle
       DEF ReportResult, IntentAfter, AttemptState, IntentState, OpenAttempt
<1>11. ASSUME NEW submitted \in BOOLEAN, Resolve(r, submitted)
       PROVE  IntentMatchesAttempt' /\ OneLiveIntentPerJob'
  <2>1. CASE submitted
    BY <1>11, <2>1, RecordAndSettle DEF Resolve, IntentAfter, AttemptState, IntentState, OpenAttempt
  <2>2. CASE ~submitted
    BY <1>11, <2>2, RecordAndSettle DEF Resolve, IntentAfter, AttemptState, IntentState, OpenAttempt
  <2>3. QED
    BY <2>1, <2>2
<1>12. QED
  BY <1>1, <1>2, <1>3, <1>4, <1>5, <1>6, <1>7, <1>8, <1>9, <1>10, <1>11 DEF Submitting

LEMMA SweepingMatches ==
  ASSUME LedgerInv, Sweeping
  PROVE  IntentMatchesAttempt' /\ OneLiveIntentPerJob'
<1>1. CASE ExpireGrants
  <2>1. \A s \in Run : grant'[s] = "CONSUMED" <=> grant[s] = "CONSUMED"
    BY <1>1 DEF ExpireGrants
  <2>2. QED
    BY <1>1, <2>1, AttemptsUntouched DEF ExpireGrants
<1>2. CASE ExpireUnclicked
  <2> DEFINE S == Overdue("AUTHORIZED")
  <2>1. \A s \in Run :
          /\ attempt'[s] = IF s \in S THEN "EXPIRED_UNCLICKED" ELSE attempt[s]
          /\ intent'[s] = IF s \in S /\ intent[s] = "CLAIMED" THEN "RELEASED" ELSE intent[s]
          /\ s \in S => attempt[s] = "AUTHORIZED"
    BY <1>2 DEF ExpireUnclicked, RecordAll, Overdue
  <2>2. UNCHANGED <<grant, byHuman>>
    BY <1>2 DEF ExpireUnclicked
  <2>3. IntentMatchesAttempt'
    BY <2>1, <2>2 DEF LedgerInv, IntentMatchesAttempt, Live, OpenAttempt
  <2>4. LiveOnlyShrinks
    BY <2>1, <2>2 DEF LiveOnlyShrinks, Live
  <2>5. QED
    BY <2>3, <2>4, ShrinkingKeepsOneLive DEF LedgerInv
<1>3. CASE MarkStaleAmbiguous
  <2> DEFINE S == Overdue("CLICK_DISPATCHED")
  <2>1. \A s \in Run :
          /\ attempt'[s] = IF s \in S THEN "SUBMISSION_AMBIGUOUS" ELSE attempt[s]
          /\ s \in S => attempt[s] = "CLICK_DISPATCHED"
    BY <1>3 DEF MarkStaleAmbiguous, RecordAll, Overdue
  <2>2. UNCHANGED <<grant, intent, byHuman>>
    BY <1>3 DEF MarkStaleAmbiguous
  <2>3. IntentMatchesAttempt'
    BY <2>1, <2>2 DEF LedgerInv, IntentMatchesAttempt, OpenAttempt
  <2>4. QED
    BY <2>2, <2>3 DEF LedgerInv, OneLiveIntentPerJob
<1>4. QED
  BY <1>1, <1>2, <1>3 DEF Sweeping

LEMMA ControllingMatches ==
  ASSUME LedgerInv, Controlling
  PROVE  IntentMatchesAttempt' /\ OneLiveIntentPerJob'
<1>1. CASE EngageKillSwitch \/ LatchSentinel
  BY <1>1, EngageLeavesNoGrant, AttemptsUntouched DEF LedgerInv, EngageKillSwitch, LatchSentinel
<1>2. CASE ReleaseKillSwitch \/ ResumeAll \/ Pause \/ Resume \/ FlipSentinel
  BY <1>2, AttemptsUntouched DEF ReleaseKillSwitch, ResumeAll, Pause, Resume, FlipSentinel, ledgerVars
<1>3. QED
  BY <1>1, <1>2 DEF Controlling

LEMMA HaltPreserved ==
  ASSUME LedgerInv, [LedgerNext]_lvars
  PROVE  HaltLeavesNoGrant'
<1> USE DEF LedgerInv, HaltLeavesNoGrant, Halted
<1>0. LedgerTypeOK
  OBVIOUS
<1>1. ASSUME NEW r \in Run, Submitting(r) PROVE HaltLeavesNoGrant'
  <2>1. CASE Authorize(r)
    BY <2>1 DEF Authorize, controlVars
  <2>2. CASE AuthorizeSeesSentinel(r) \/ PreClickSeesSentinel(r)
    BY <1>0, <2>2, EngageLeavesNoGrant DEF AuthorizeSeesSentinel, PreClickSeesSentinel
  <2>3. CASE CancelGrant(r) \/ PreClickRefuse(r)
    BY <1>0, <2>3, RevokeKeepsConsumed DEF CancelGrant, PreClickRefuse, controlVars
  <2>4. CASE PreClickCommit(r)
    BY <1>0, <2>4 DEF PreClickCommit, controlVars
  <2>5. CASE UNCHANGED <<grant, controlVars>>
    BY <2>5 DEF controlVars
  <2>6. QED
    BY <1>1, <2>1, <2>2, <2>3, <2>4, <2>5
       DEF Submitting, CancelAttempt, DispatchAcknowledge, DispatchRefuse, ReportResult, Resolve
<1>2. ASSUME NEW r \in Run, Elapse(r) PROVE HaltLeavesNoGrant'
  BY <1>2 DEF Elapse, controlVars
<1>3. ASSUME NEW j \in Job, HumanApplied(j) PROVE HaltLeavesNoGrant'
  BY <1>3 DEF HumanApplied, controlVars
<1>4. CASE Sweeping
  BY <1>0, <1>4 DEF Sweeping, ExpireGrants, ExpireUnclicked, MarkStaleAmbiguous, controlVars, LedgerTypeOK
<1>5. CASE Controlling
  <2>1. CASE EngageKillSwitch \/ LatchSentinel
    BY <1>0, <2>1, EngageLeavesNoGrant DEF EngageKillSwitch, LatchSentinel
  <2>2. CASE ReleaseKillSwitch \/ ResumeAll \/ Pause \/ Resume \/ FlipSentinel
    BY <2>2 DEF ReleaseKillSwitch, ResumeAll, Pause, Resume, FlipSentinel, ledgerVars
  <2>3. QED
    BY <1>5, <2>1, <2>2 DEF Controlling
<1>6. CASE UNCHANGED lvars
  BY <1>6 DEF lvars, ledgerVars, controlVars
<1>7. QED
  BY <1>1, <1>2, <1>3, <1>4, <1>5, <1>6 DEF LedgerNext

LEMMA InvPreserved == LedgerInv /\ [LedgerNext]_lvars => LedgerInv'
<1> SUFFICES ASSUME LedgerInv, [LedgerNext]_lvars
             PROVE  IntentMatchesAttempt' /\ OneLiveIntentPerJob'
  BY TypePreserved, HaltPreserved DEF LedgerInv
<1>1. ASSUME NEW r \in Run, Elapse(r) PROVE IntentMatchesAttempt' /\ OneLiveIntentPerJob'
  BY <1>1, AttemptsUntouched DEF Elapse
<1>2. CASE UNCHANGED lvars
  BY <1>2, AttemptsUntouched DEF lvars, ledgerVars
<1>3. QED
  BY <1>1, <1>2, HumanAppliedMatches, SubmittingMatches, SweepingMatches, ControllingMatches DEF LedgerNext

LEMMA InvInitially == LedgerInit => LedgerInv
BY DEF LedgerInit, LedgerInv, LedgerTypeOK, GrantStatus, AttemptState, IntentState,
       IntentMatchesAttempt, OneLiveIntentPerJob, HaltLeavesNoGrant, Halted, Live, OpenAttempt

LEMMA InvAlways == LedgerSpec => []LedgerInv
BY InvInitially, InvPreserved, PTL DEF LedgerSpec, LedgerSafety

(* An attempt and its intent agree, in every interleaving of the           *)
(* transactions, sweeps and controls.                                      *)
THEOREM IntentMatchesAttemptAlways == LedgerSpec => []IntentMatchesAttempt
BY InvAlways, PTL DEF LedgerInv

(* No job identity ever has two live intents.                              *)
THEOREM OneLiveIntentAlways == LedgerSpec => []OneLiveIntentPerJob
BY InvAlways, PTL DEF LedgerInv

(* A halted account holds no consumable SUBMIT grant.                      *)
THEOREM HaltLeavesNoGrantAlways == LedgerSpec => []HaltLeavesNoGrant
BY InvAlways, PTL DEF LedgerInv

-----------------------------------------------------------------------------
(* The right to click.                                                     *)

LEMMA OnlyAcknowledgeDispatches ==
  ASSUME LedgerInv, [LedgerNext]_lvars, NEW r \in Run,
         attempt[r] # "CLICK_DISPATCHED", attempt'[r] = "CLICK_DISPATCHED"
  PROVE  DispatchAcknowledge(r)
<1> USE DEF LedgerInv, LedgerTypeOK
<1>1. ASSUME NEW s \in Run, Submitting(s), ~DispatchAcknowledge(s)
      PROVE  attempt'[r] # "CLICK_DISPATCHED"
  <2>1. ASSUME NEW verdict \in {Verdict(e) : e \in Evidence}, ReportResult(s, verdict)
        PROVE  attempt'[r] # "CLICK_DISPATCHED"
    BY <2>1, VerdictType DEF ReportResult, Record
  <2>2. ASSUME NEW submitted \in BOOLEAN, Resolve(s, submitted)
        PROVE  attempt'[r] # "CLICK_DISPATCHED"
    BY <2>2 DEF Resolve, Record
  <2>3. QED
    BY <1>1, <2>1, <2>2
       DEF Submitting, Authorize, AuthorizeSeesSentinel, CancelGrant, CancelAttempt, PreClickRefuse,
           PreClickSeesSentinel, PreClickCommit, DispatchRefuse, Record
<1>2. ASSUME NEW s \in Run, DispatchAcknowledge(s)
      PROVE  s = r
  BY <1>2 DEF DispatchAcknowledge, Record
<1>3. CASE Sweeping
  BY <1>3 DEF Sweeping, ExpireGrants, ExpireUnclicked, MarkStaleAmbiguous, RecordAll
<1>4. CASE Controlling
  BY <1>4 DEF Controlling, EngageKillSwitch, LatchSentinel, ReleaseKillSwitch, ResumeAll, Pause, Resume,
              FlipSentinel, ledgerVars
<1>5. QED
  BY <1>1, <1>2, <1>3, <1>4 DEF LedgerNext, Elapse, HumanApplied, lvars, ledgerVars

LEMMA DispatchStep == LedgerInv /\ [LedgerNext]_lvars => DispatchHoldsTheJob
<1> SUFFICES ASSUME LedgerInv, [LedgerNext]_lvars, NEW r \in Run,
                    attempt[r] # "CLICK_DISPATCHED", attempt'[r] = "CLICK_DISPATCHED"
             PROVE  /\ halt = "off" /\ ~sentinel /\ ~paused /\ ~late[r]
                    /\ intent[r] = "CLAIMED"
                    /\ JobOf[r] \notin byHuman
                    /\ \A s \in Run \ {r} : JobOf[s] = JobOf[r] => intent[s] \notin Live
  BY DEF DispatchHoldsTheJob
<1>1. MayDispatch(r)
  BY OnlyAcknowledgeDispatches DEF DispatchAcknowledge
<1>2. intent[r] \in Live
  BY <1>1 DEF MayDispatch, Live
<1>3. QED
  BY <1>1, <1>2 DEF MayDispatch, Halted, LedgerInv, OneLiveIntentPerJob

(* A click is dispatched only by the holder of the job's one live intent,  *)
(* with nothing halted or paused, in every interleaving.                   *)
THEOREM DispatchOnlyByHolderAlways == LedgerSpec => DispatchOnlyByHolder
BY InvAlways, DispatchStep, PTL DEF LedgerSpec, LedgerSafety, DispatchOnlyByHolder

-----------------------------------------------------------------------------
(* The ledger implements SubmitOnce.                                       *)

(* What JobStage says about the job of a run that holds a live intent.     *)
LEMMA StageOfHolder ==
  ASSUME LedgerInv, NEW r \in Run
  PROVE  /\ intent[r] = "CONFIRMED" => JobStage(JobOf[r]) = "applied"
         /\ intent[r] = "CLAIMED" =>
              JobStage(JobOf[r]) = IF attempt[r] = "AUTHORIZED" THEN "held" ELSE "clicking"
BY DEF LedgerInv, OneLiveIntentPerJob, Live, JobStage

(* The stage of a job depends on its own runs only.                        *)
LEMMA StageLocal ==
  ASSUME NEW j \in Job, j \in byHuman <=> j \in byHuman',
         \A s \in Run : JobOf[s] = j =>
           intent'[s] = intent[s] /\ (attempt'[s] = "AUTHORIZED" <=> attempt[s] = "AUTHORIZED")
  PROVE  JobStage(j)' = JobStage(j)
BY DEF JobStage

(* One transaction that changes the attempt and intent of one run.         *)
LEMMA OneRunStage ==
  ASSUME NEW r \in Run, byHuman' = byHuman,
         \A s \in Run : s # r => attempt'[s] = attempt[s] /\ intent'[s] = intent[s]
  PROVE  Stage' = [Stage EXCEPT ![JobOf[r]] = JobStage(JobOf[r])']
<1>1. \A j \in Job : j # JobOf[r] => JobStage(j)' = JobStage(j)
  BY StageLocal
<1>2. Stage' = [j \in Job |-> JobStage(j)']
  BY DEF Stage
<1>3. QED
  BY <1>1, <1>2 DEF Stage

(* Only one transaction can be the first to commit for a free job.         *)
LEMMA CommitHolds ==
  ASSUME LedgerInv, LedgerInv', NEW r \in Run, PreClickCommit(r)
  PROVE  Promise!Hold(JobOf[r])
<1>1. \A s \in Run : s # r => attempt'[s] = attempt[s] /\ intent'[s] = intent[s]
  BY DEF LedgerInv, LedgerTypeOK, PreClickCommit, Record
<1>2. byHuman' = byHuman /\ ~LiveIntent(JobOf[r])
  BY DEF PreClickCommit
<1>3. JobStage(JobOf[r]) = "free"
  BY <1>2 DEF JobStage, LiveIntent, Live
<1>4. attempt'[r] = "AUTHORIZED" /\ intent'[r] = "CLAIMED"
  BY DEF LedgerInv, LedgerTypeOK, PreClickCommit, Record
<1>5. JobStage(JobOf[r])' = "held"
  BY <1>4 DEF LedgerInv, OneLiveIntentPerJob, Live, JobStage
<1>6. QED
  BY <1>1, <1>2, <1>3, <1>5, OneRunStage DEF Promise!Hold, Promise!Move, Stage

(* What ends a phase of an attempt clicks, settles or withdraws its job.   *)
LEMMA SettleStep ==
  ASSUME LedgerInv, LedgerInv', NEW r \in Run, NEW state, NEW by, NEW after,
         attempt[r] \in OpenAttempt,
         Record(r, state, by), Settle(r, after), UNCHANGED <<grant, byHuman>>,
         \/ state = "CONFIRMED_SUCCESS" /\ after = "CONFIRMED"
         \/ state \in {"EXPIRED_UNCLICKED", "SUBMISSION_FAILED"} /\ after = "RELEASED"
         \/ state \in {"CLICK_DISPATCHED", "SUBMISSION_AMBIGUOUS"} /\ after = "CLAIMED"
  PROVE  Promise!Next \/ UNCHANGED Stage
<1> DEFINE j == JobOf[r]
<1>1. j \in Job
  OBVIOUS
<1>2. /\ \A s \in Run : s # r => attempt'[s] = attempt[s] /\ intent'[s] = intent[s]
      /\ attempt'[r] = state
      /\ intent'[r] = IF intent[r] = "CLAIMED" THEN after ELSE intent[r]
  BY DEF LedgerInv, LedgerTypeOK, Record, Settle
<1>3. Stage' = [Stage EXCEPT ![j] = JobStage(j)']
  BY <1>2, OneRunStage
<1>4. Stage[j] = JobStage(j)
  BY <1>1 DEF Stage
<1>5. CASE intent[r] = "CONFIRMED"
  <2>1. JobStage(j) = "applied" /\ JobStage(j)' = "applied"
    BY <1>2, <1>5 DEF JobStage
  <2>2. QED
    BY <1>3, <1>4, <2>1 DEF Stage
<1>6. CASE intent[r] = "CLAIMED"
  <2>1. JobStage(j) = IF attempt[r] = "AUTHORIZED" THEN "held" ELSE "clicking"
    BY <1>6, StageOfHolder
  <2>2. CASE after = "CONFIRMED"
    <3>1. JobStage(j)' = "applied"
      BY <1>2, <1>6, <2>2 DEF JobStage
    <3>2. Promise!Applied(j)
      BY <1>3, <3>1 DEF Promise!Applied
    <3>3. QED
      BY <1>1, <3>2 DEF Promise!Next
  <2>3. CASE after = "RELEASED"
    <3>1. JobStage(j)' = "free"
      <4>1. j \notin byHuman /\ \A s \in Run \ {r} : JobOf[s] = j => intent[s] \notin Live
        BY <1>6 DEF LedgerInv, OneLiveIntentPerJob, Live
      <4>2. j \notin byHuman' /\ \A s \in Run : JobOf[s] = j => intent'[s] \notin Live
        BY <1>2, <1>6, <2>3, <4>1 DEF Live
      <4>3. QED
        BY <4>2 DEF JobStage, Live
    <3>2. CASE attempt[r] = "AUTHORIZED"
      <4>1. Stage' = [i \in Job |-> IF i \in {j} THEN "free" ELSE Stage[i]]
        BY <1>3, <3>1 DEF Stage
      <4>2. Promise!Withdraw({j})
        BY <1>4, <2>1, <3>2, <4>1 DEF Promise!Withdraw
      <4>3. QED
        BY <1>1, <4>2 DEF Promise!Next
    <3>3. CASE attempt[r] # "AUTHORIZED"
      <4>1. Promise!NotSubmitted(j)
        BY <1>3, <1>4, <2>1, <3>1, <3>3 DEF Promise!NotSubmitted, Promise!Move
      <4>2. QED
        BY <1>1, <4>1 DEF Promise!Next
    <3>4. QED
      BY <3>2, <3>3
  <2>4. CASE after = "CLAIMED" /\ state \in {"CLICK_DISPATCHED", "SUBMISSION_AMBIGUOUS"}
    <3>1. JobStage(j)' = "clicking"
      <4>1. intent'[r] = "CLAIMED" /\ attempt'[r] # "AUTHORIZED"
        BY <1>2, <1>6, <2>4
      <4>2. QED
        BY <4>1 DEF LedgerInv, OneLiveIntentPerJob, Live, JobStage
    <3>2. CASE attempt[r] = "AUTHORIZED"
      <4>1. Promise!Click(j)
        BY <1>3, <1>4, <2>1, <3>1, <3>2 DEF Promise!Click, Promise!Move
      <4>2. QED
        BY <1>1, <4>1 DEF Promise!Next
    <3>3. CASE attempt[r] # "AUTHORIZED"
      BY <1>3, <1>4, <2>1, <3>1, <3>3 DEF Stage
    <3>4. QED
      BY <3>2, <3>3
  <2>5. QED
    BY <2>2, <2>3, <2>4
<1>7. intent[r] \in Live
  BY DEF LedgerInv, IntentMatchesAttempt
<1>8. QED
  BY <1>5, <1>6, <1>7 DEF Live

(* Transactions that move no attempt and no intent.                        *)
LEMMA IdleStep ==
  ASSUME UNCHANGED <<attempt, intent, byHuman>>
  PROVE  UNCHANGED Stage
BY StageLocal DEF Stage

LEMMA SubmittingStep ==
  ASSUME LedgerInv, LedgerInv', NEW r \in Run, Submitting(r)
  PROVE  Promise!Next \/ UNCHANGED Stage
<1>1. CASE PreClickCommit(r)
  BY <1>1, CommitHolds DEF Promise!Next
<1>2. CASE CancelAttempt(r)
  BY <1>2, SettleStep DEF CancelAttempt, OpenAttempt
<1>3. CASE DispatchAcknowledge(r)
  <2>1. Settle(r, "CLAIMED")
    BY <1>3 DEF DispatchAcknowledge, Settle, LedgerInv, LedgerTypeOK
  <2>2. QED
    BY <1>3, <2>1, SettleStep DEF DispatchAcknowledge, OpenAttempt
<1>4. CASE DispatchRefuse(r)
  BY <1>4, SettleStep DEF DispatchRefuse, OpenAttempt
<1>5. ASSUME NEW verdict \in {Verdict(e) : e \in Evidence}, ReportResult(r, verdict)
      PROVE  Promise!Next \/ UNCHANGED Stage
  BY <1>5, VerdictType, SettleStep DEF ReportResult, IntentAfter, OpenAttempt
<1>6. ASSUME NEW submitted \in BOOLEAN, Resolve(r, submitted)
      PROVE  Promise!Next \/ UNCHANGED Stage
  <2>1. CASE submitted
    BY <1>6, <2>1, SettleStep DEF Resolve, IntentAfter, OpenAttempt
  <2>2. CASE ~submitted
    BY <1>6, <2>2, SettleStep DEF Resolve, IntentAfter, OpenAttempt
  <2>3. QED
    BY <2>1, <2>2
<1>7. QED
  BY <1>1, <1>2, <1>3, <1>4, <1>5, <1>6, IdleStep
     DEF Submitting, Authorize, AuthorizeSeesSentinel, CancelGrant, PreClickRefuse, PreClickSeesSentinel

LEMMA SweepingStep ==
  ASSUME LedgerInv, LedgerInv', Sweeping
  PROVE  Promise!Next \/ UNCHANGED Stage
<1>1. CASE ExpireUnclicked
  <2> DEFINE S == Overdue("AUTHORIZED")
             T == {JobOf[s] : s \in {q \in S : intent[q] = "CLAIMED"}}
  <2>1. /\ byHuman' = byHuman
        /\ \A s \in Run :
             /\ attempt'[s] = IF s \in S THEN "EXPIRED_UNCLICKED" ELSE attempt[s]
             /\ intent'[s] = IF s \in S /\ intent[s] = "CLAIMED" THEN "RELEASED" ELSE intent[s]
             /\ s \in S => attempt[s] = "AUTHORIZED"
    BY <1>1 DEF ExpireUnclicked, RecordAll, Overdue
  <2>2. S \subseteq Run
    BY DEF Overdue
  <2>3. ASSUME NEW j \in T
        PROVE  JobStage(j) = "held" /\ JobStage(j)' = "free"
    <3>1. PICK s \in Run : s \in S /\ intent[s] = "CLAIMED" /\ j = JobOf[s]
      BY <2>2
    <3>2. JobStage(j) = "held"
      BY <2>1, <3>1, StageOfHolder
    <3>3. j \notin byHuman' /\ \A q \in Run : JobOf[q] = j => intent'[q] \notin Live
      BY <2>1, <3>1 DEF LedgerInv, OneLiveIntentPerJob, Live
    <3>4. JobStage(j)' = "free"
      BY <3>3 DEF JobStage, Live
    <3>5. QED
      BY <3>2, <3>4
  <2>4. ASSUME NEW j \in Job, j \notin T
        PROVE  JobStage(j)' = JobStage(j)
    <3>1. \A s \in Run : JobOf[s] = j => intent'[s] = intent[s]
      BY <2>1, <2>4
    <3>2. \A s \in Run : JobOf[s] = j /\ intent[s] = "CLAIMED" => attempt'[s] = attempt[s]
      BY <2>1, <2>4
    <3>3. QED
      BY <2>1, <3>1, <3>2 DEF JobStage
  <2>5. T \in SUBSET Job
    BY <2>2
  <2>6. Promise!Withdraw(T)
    BY <2>3, <2>4, <2>5 DEF Promise!Withdraw, Stage
  <2>7. QED
    BY <2>5, <2>6 DEF Promise!Next
<1>2. CASE MarkStaleAmbiguous
  <2>1. \A s \in Run : attempt'[s] = "AUTHORIZED" <=> attempt[s] = "AUTHORIZED"
    BY <1>2 DEF MarkStaleAmbiguous, RecordAll, Overdue
  <2>2. UNCHANGED <<intent, byHuman>>
    BY <1>2 DEF MarkStaleAmbiguous
  <2>3. QED
    BY <2>1, <2>2, StageLocal DEF Stage
<1>3. QED
  BY <1>1, <1>2, IdleStep DEF Sweeping, ExpireGrants

LEMMA HumanAppliedStep ==
  ASSUME LedgerInv, LedgerInv', NEW j \in Job, HumanApplied(j)
  PROVE  Promise!Next \/ UNCHANGED Stage
<1>1. /\ byHuman' = IF LiveIntent(j) THEN byHuman ELSE byHuman \cup {j}
      /\ attempt' = attempt
      /\ \A s \in Run : intent'[s] = IF JobOf[s] = j /\ intent[s] = "CLAIMED" THEN "CONFIRMED" ELSE intent[s]
  BY DEF HumanApplied, LedgerInv, LedgerTypeOK
<1>2. JobStage(j)' = "applied"
  BY <1>1 DEF JobStage, LiveIntent, Live
<1>3. \A i \in Job : i # j => JobStage(i)' = JobStage(i)
  BY <1>1, StageLocal
<1>4. Promise!Applied(j)
  BY <1>2, <1>3 DEF Promise!Applied, Stage
<1>5. QED
  BY <1>4 DEF Promise!Next

LEMMA LedgerStep == LedgerInv /\ LedgerInv' /\ [LedgerNext]_lvars => [Promise!Next]_Stage
<1> SUFFICES ASSUME LedgerInv, LedgerInv', [LedgerNext]_lvars
             PROVE  Promise!Next \/ UNCHANGED Stage
  OBVIOUS
<1>1. CASE Controlling
  BY <1>1, IdleStep DEF Controlling, EngageKillSwitch, LatchSentinel, ReleaseKillSwitch, ResumeAll, Pause,
                        Resume, FlipSentinel, ledgerVars
<1>2. QED
  BY <1>1, SubmittingStep, SweepingStep, HumanAppliedStep, IdleStep
     DEF LedgerNext, Elapse, lvars, ledgerVars

LEMMA StageInitially == LedgerInit => Promise!Init
BY DEF LedgerInit, Promise!Init, Stage, JobStage

(* Every history of the ledger, seen through JobStage, is one of           *)
(* SubmitOnce: a job is never submitted twice at a time, nor again once it *)
(* is known to be applied for.                                             *)
THEOREM LedgerSubmitsOnce == LedgerSpec => SubmitsOnce
<1>1. LedgerInit => Promise!Init
  BY StageInitially
<1>2. QED
  BY <1>1, InvAlways, LedgerStep, PTL DEF LedgerSpec, LedgerSafety, SubmitsOnce, Promise!Spec

-----------------------------------------------------------------------------
(* Types.                                                                  *)

ExecutorType ==
  /\ ex \in [Run -> ExecutorPhase]
  /\ outcome \in [Run -> Outcome]
  /\ disk \in [Run -> Persisted \cup {"none"}]
  /\ egress \in [Run -> BOOLEAN]
  /\ recovery \in [Run -> Persisted \cup {"none", "listed", "reported", "done"}]
  /\ wire \subseteq Request
  /\ reply \in [Run -> {"none", "yes", "no"}]
  /\ events \in [Run -> SUBSET {"EGRESS_INSTALLED", "CLICK_PERFORMED"}]
  /\ page \in [Run -> {"idle", "leaving", "blocked", "rejected", "stored"}]
  /\ signedOut \in {"NO", "LOCAL", "REVOKED"}
  /\ wipe \in {"no", "pending", "done"}
  /\ unrestored \in [Run -> BOOLEAN]
  /\ faults \in 0 .. MaxFaults

LEMMA TypeParts == SubmissionTypeOK <=> LedgerTypeOK /\ ExecutorType
BY DEF SubmissionTypeOK, ExecutorType

LEMMA Typed == LedgerTypeOK' /\ ExecutorType' => SubmissionTypeOK'
BY DEF SubmissionTypeOK, ExecutorType

PreAsk(r) == [kind |-> "preclick", run |-> r]
DispatchAsk(r) == [kind |-> "dispatch", run |-> r]
Report(r, e) == [kind |-> "result", run |-> r, evidence |-> e]

LEMMA Requests ==
  /\ \A r \in Run : PreAsk(r) \in Request /\ DispatchAsk(r) \in Request
  /\ \A r \in Run : \A e \in Evidence : Report(r, e) \in Request
  /\ \A m \in Request : m.run \in Run /\ (m.kind = "result" => m.evidence \in Evidence)
BY DEF PreAsk, DispatchAsk, Report, Request

LEMMA EvidenceTypes ==
  /\ \A o : \A restored \in BOOLEAN : FinishEvidence(o, restored) \in Evidence
  /\ \A phase : RecoveryEvidence(phase) \in Evidence
  /\ \A r : \A e \in Evidence : WithEvents(r, e) \in Evidence
BY DEF FinishEvidence, RecoveryEvidence, WithEvents, Evidence

(* A request is sent, or not without a credential.                         *)
LEMMA SendBounds ==
  ASSUME NEW m, Send(m)
  PROVE  wire \subseteq wire' /\ wire' \subseteq wire \cup {m}
BY DEF Send

LEMMA ListType ==
  ASSUME ExecutorType, ListRecords
  PROVE  /\ recovery' \in [Run -> Persisted \cup {"none", "listed", "reported", "done"}]
         /\ \A r \in Run : recovery'[r] = IF disk[r] # "none" THEN "listed" ELSE recovery[r]
BY DEF ListRecords, ExecutorType

LEMMA FaultType ==
  ASSUME ExecutorType, Fault \/ UNCHANGED faults
  PROVE  faults' \in 0 .. MaxFaults
BY SubmissionAssumption DEF ExecutorType, Fault, SubmissionAssumption

LEMMA RestoreType ==
  ASSUME ExecutorType, NEW r \in Run, NEW restored \in BOOLEAN, LastRestore(r, restored)
  PROVE  /\ faults' \in 0 .. MaxFaults
         /\ egress' \in [Run -> BOOLEAN] /\ unrestored' \in [Run -> BOOLEAN]
         /\ egress'[r] = (egress[r] /\ ~restored) /\ unrestored'[r] = ~restored
         /\ \A s \in Run \ {r} : egress'[s] = egress[s] /\ unrestored'[s] = unrestored[s]
<1>1. faults' \in 0 .. MaxFaults
  BY FaultType DEF LastRestore, CountFault
<1>2. QED
  BY <1>1 DEF LastRestore, Restore, ExecutorType

LEMMA ControllerType ==
  ASSUME ExecutorType, NEW r \in Run,
         Begin(r) \/ PreClickAnswered(r) \/ CancelInPopup(r) \/ AskDispatch(r) \/ DispatchAnswered(r) \/ GiveUp(r)
  PROVE  ExecutorType'
<1>1. CASE Begin(r)
  BY <1>1, Requests DEF Begin, Go, Send, Locally, Quietly, ExecutorType, ExecutorPhase, PreAsk
<1>2. CASE PreClickAnswered(r)
  BY <1>2 DEF PreClickAnswered, Go, Locally, Quietly, ExecutorType, ExecutorPhase
<1>3. CASE CancelInPopup(r)
  BY <1>3 DEF CancelInPopup, Go, Locally, Quietly, ExecutorType, ExecutorPhase
<1>4. CASE AskDispatch(r)
  BY <1>4, Requests DEF AskDispatch, Go, Persist, Send, Locally, Quietly, ExecutorType, ExecutorPhase, Persisted, DispatchAsk
<1>5. CASE DispatchAnswered(r)
  BY <1>5 DEF DispatchAnswered, DispatchConcludes, Go, Persist, Locally, Quietly, ExecutorType, ExecutorPhase, Persisted
<1>6. CASE GiveUp(r)
  BY <1>6, FaultType DEF GiveUp, Go, Persist, CountFault, Quietly, ExecutorType, ExecutorPhase
<1>7. QED
  BY <1>1, <1>2, <1>3, <1>4, <1>5, <1>6

LEMMA ClickType ==
  ASSUME ExecutorType, NEW r \in Run,
         InstallEgress(r) \/ Arm(r) \/ Click(r) \/ ControlMissing(r) \/ PageSends(r) \/ PageBlocked(r)
  PROVE  ExecutorType'
<1>1. CASE InstallEgress(r)
  <2>1. PICK installed, recorded \in BOOLEAN, o \in {"NONE", "NO_CLICK", "UNKNOWN"} :
          /\ egress' = [egress EXCEPT ![r] = installed]
          /\ Go(r, IF o = "NONE" THEN "installed" ELSE "ending")
          /\ outcome' = [outcome EXCEPT ![r] = o]
          /\ Emit(r, "EGRESS_INSTALLED", recorded)
          /\ CountFault(o # "NONE" \/ Lost(recorded))
    BY <1>1 DEF InstallEgress
  <2>2. faults' \in 0 .. MaxFaults
    BY <2>1, FaultType DEF CountFault
  <2>3. events' \in [Run -> SUBSET {"EGRESS_INSTALLED", "CLICK_PERFORMED"}]
    BY <2>1 DEF Emit, ExecutorType
  <2>4. QED
    BY <1>1, <2>1, <2>2, <2>3 DEF InstallEgress, Go, Quietly, ExecutorType, ExecutorPhase, Outcome
<1>2. CASE Arm(r)
  BY <1>2 DEF Arm, Go, Persist, Locally, Quietly, ExecutorType, ExecutorPhase, Persisted
<1>3. CASE Click(r)
  <2>1. PICK answered, recorded \in BOOLEAN :
          /\ Go(r, IF answered THEN "watching" ELSE "ending")
          /\ outcome' = [outcome EXCEPT ![r] = IF answered THEN @ ELSE "NO_CLICK"]
          /\ Emit(r, "CLICK_PERFORMED", answered /\ recorded)
          /\ CountFault(~answered \/ Lost(recorded))
    BY <1>3 DEF Click
  <2>2. faults' \in 0 .. MaxFaults
    BY <2>1, FaultType DEF CountFault
  <2>3. events' \in [Run -> SUBSET {"EGRESS_INSTALLED", "CLICK_PERFORMED"}]
    BY <2>1 DEF Emit, ExecutorType
  <2>4. QED
    BY <1>3, <2>1, <2>2, <2>3 DEF Click, Go, Quietly, ExecutorType, ExecutorPhase, Outcome
<1>4. CASE ControlMissing(r)
  BY <1>4 DEF ControlMissing, Go, Locally, Quietly, ExecutorType, ExecutorPhase, Outcome
<1>5. CASE PageSends(r) \/ PageBlocked(r)
  BY <1>5 DEF PageSends, PageBlocked, Locally, Quietly, ExecutorType
<1>6. QED
  BY <1>1, <1>2, <1>3, <1>4, <1>5

LEMMA EndingType ==
  ASSUME ExecutorType, NEW r \in Run,
         WatchEnds(r) \/ Throw(r) \/ Finish(r) \/ Done(r) \/ RecoverRestore(r) \/ RecoverReport(r) \/ RecoverRemove(r)
  PROVE  ExecutorType'
<1>1. \A restored \in BOOLEAN : Restore(r, restored) => egress' \in [Run -> BOOLEAN]
  BY DEF Restore, ExecutorType
<1>2. CASE WatchEnds(r)
  <2>1. PICK o \in {"CONTENT", "NO_SIGNAL", "SUCCESS", "FAILURE"}, restored \in BOOLEAN :
          /\ outcome' = [outcome EXCEPT ![r] = o]
          /\ Restore(r, o = "CONTENT" /\ restored)
          /\ CountFault(o = "CONTENT" /\ ~restored)
    BY <1>2 DEF WatchEnds
  <2>2. faults' \in 0 .. MaxFaults /\ egress' \in [Run -> BOOLEAN]
    BY <1>1, <2>1, FaultType DEF CountFault
  <2>3. QED
    BY <1>2, <2>1, <2>2 DEF WatchEnds, Go, Quietly, ExecutorType, ExecutorPhase, Outcome
<1>3. CASE Throw(r)
  BY <1>3, FaultType DEF Throw, Go, Quietly, ExecutorType, ExecutorPhase, Outcome
<1>4. CASE Finish(r)
  <2>1. PICK restored \in BOOLEAN :
          /\ LastRestore(r, restored)
          /\ wire' \subseteq wire \cup {Report(r, FinishEvidence(outcome[r], restored))}
    BY <1>4, SendBounds DEF Finish, Report
  <2>2. /\ faults' \in 0 .. MaxFaults /\ wire' \subseteq Request
        /\ egress' \in [Run -> BOOLEAN] /\ unrestored' \in [Run -> BOOLEAN]
    BY <2>1, RestoreType, Requests, EvidenceTypes DEF ExecutorType
  <2>3. QED
    BY <1>4, <2>2 DEF Finish, Go, Quietly, ExecutorType, ExecutorPhase
<1>5. CASE Done(r)
  BY <1>5 DEF Done, Go, Persist, Locally, Quietly, ExecutorType, ExecutorPhase
<1>6. CASE RecoverRestore(r)
  <2>1. PICK restored \in BOOLEAN : LastRestore(r, restored)
    BY <1>6 DEF RecoverRestore
  <2>2. faults' \in 0 .. MaxFaults /\ egress' \in [Run -> BOOLEAN] /\ unrestored' \in [Run -> BOOLEAN]
    BY <2>1, RestoreType
  <2>3. QED
    BY <1>6, <2>2 DEF RecoverRestore, Quietly, ExecutorType, Persisted
<1>7. CASE RecoverReport(r)
  <2>1. wire' \subseteq wire \cup {Report(r, RecoveryEvidence(recovery[r]))}
    BY <1>7, SendBounds DEF RecoverReport, Report
  <2>2. wire' \subseteq Request
    BY <2>1, Requests, EvidenceTypes DEF ExecutorType
  <2>3. QED
    BY <1>7, <2>2 DEF RecoverReport, Locally, Quietly, ExecutorType
<1>8. CASE RecoverRemove(r)
  BY <1>8 DEF RecoverRemove, Persist, Locally, Quietly, ExecutorType
<1>9. QED
  BY <1>2, <1>3, <1>4, <1>5, <1>6, <1>7, <1>8

LEMMA OtherType ==
  ASSUME ExecutorType,
         WorkerDies \/ SignOut \/ Wipe \/ (\E r \in Run : Serving(r)) \/ UNCHANGED executorVars
  PROVE  ExecutorType'
<1>1. CASE WorkerDies
  <2>1. faults' \in 0 .. MaxFaults /\ recovery' \in [Run -> Persisted \cup {"none", "listed", "reported", "done"}]
    BY <1>1, FaultType, ListType DEF WorkerDies
  <2>2. QED
    BY <1>1, <2>1 DEF WorkerDies, ExecutorType, ExecutorPhase, Alive
<1>2. CASE SignOut \/ Wipe
  BY <1>2, ListType DEF SignOut, Wipe, ExecutorType
<1>3. ASSUME NEW r \in Run, Serving(r)
      PROVE  ExecutorType'
  <2>1. /\ wire' \subseteq wire
        /\ UNCHANGED <<ex, outcome, disk, egress, recovery, events, page, signedOut, wipe, unrestored, faults>>
    BY <1>3 DEF Serving, ServePreClick, ServeDispatch, ServeResult, Accepts
  <2>2. UNCHANGED reply \/ \E yes \in BOOLEAN : Answer(r, yes)
    BY <1>3 DEF Serving, ServePreClick, ServeDispatch, ServeResult
  <2>3. reply' \in [Run -> {"none", "yes", "no"}]
    BY <2>2 DEF Answer, ExecutorType
  <2>4. QED
    BY <2>1, <2>3 DEF ExecutorType
<1>4. CASE UNCHANGED executorVars
  BY <1>4 DEF executorVars, ExecutorType
<1>5. QED
  BY <1>1, <1>2, <1>3, <1>4

-----------------------------------------------------------------------------
(* Every step is one of the ledger's or leaves the ledger alone.           *)

LEMMA QuietSteps ==
  ASSUME NEW r, Executing(r)
  PROVE  UNCHANGED <<lvars, signedOut, wipe>>
BY DEF Executing, Begin, PreClickAnswered, CancelInPopup, AskDispatch, DispatchAnswered, DispatchConcludes, GiveUp,
       InstallEgress, Arm, Click, ControlMissing, PageSends, PageBlocked, WatchEnds, Throw, Finish, Done,
       RecoverRestore, RecoverReport, RecoverRemove, Locally, Quietly

LEMMA ServingSteps ==
  ASSUME ExecutorType, NEW r \in Run, Serving(r)
  PROVE  Submitting(r) \/ UNCHANGED lvars
<1>1. CASE ServePreClick(r)
  BY <1>1 DEF ServePreClick, Submitting
<1>2. CASE ServeDispatch(r)
  BY <1>2 DEF ServeDispatch, Submitting
<1>3. CASE ServeResult(r)
  <2>1. PICK m \in wire : /\ m.kind = "result"
                          /\ IF attempt[r] = "CLICK_DISPATCHED"
                              THEN ReportResult(r, Verdict(WithEvents(r, m.evidence)))
                              ELSE UNCHANGED lvars
    BY <1>3 DEF ServeResult
  <2>2. WithEvents(r, m.evidence) \in Evidence
    BY <2>1, Requests, EvidenceTypes DEF ExecutorType
  <2>3. QED
    BY <2>1, <2>2 DEF Submitting
<1>4. QED
  BY <1>1, <1>2, <1>3 DEF Serving

LEMMA LedgerAloneSteps ==
  ASSUME LedgerAlone
  PROVE  LedgerNext
<1>1. ASSUME NEW r \in Run, TruthfulResolve(r)
      PROVE  Submitting(r)
  <2>1. Resolve(r, page[r] = "stored") /\ (page[r] = "stored") \in BOOLEAN
    BY <1>1 DEF TruthfulResolve
  <2>2. QED
    BY <2>1 DEF Submitting
<1>2. ASSUME NEW r \in Run,
             Authorize(r) \/ AuthorizeSeesSentinel(r) \/ CancelGrant(r) \/ CancelAttempt(r)
      PROVE  Submitting(r)
  BY <1>2 DEF Submitting
<1>3. ASSUME NEW r \in Run, DeadlinePasses(r)
      PROVE  Elapse(r)
  BY <1>3 DEF DeadlinePasses
<1>4. QED
  BY <1>1, <1>2, <1>3 DEF LedgerAlone, LedgerNext

LEMMA StepOfLedger ==
  ASSUME ExecutorType, [SubmissionNext]_svars
  PROVE  [LedgerNext]_lvars
BY QuietSteps, ServingSteps, LedgerAloneSteps
DEF SubmissionNext, WorkerDies, SignOut, Wipe, svars, LedgerNext

LEMMA SubmissionType == SubmissionTypeOK /\ [SubmissionNext]_svars => SubmissionTypeOK'
<1> SUFFICES ASSUME SubmissionTypeOK, [SubmissionNext]_svars
             PROVE  SubmissionTypeOK'
  OBVIOUS
<1>1. LedgerTypeOK /\ ExecutorType
  BY TypeParts
<1>2. LedgerTypeOK'
  BY <1>1, StepOfLedger, TypePreserved
<1>3. ExecutorType'
  <2>1. ASSUME NEW r \in Run, Executing(r)
        PROVE  ExecutorType'
    BY <1>1, <2>1, ControllerType, ClickType, EndingType DEF Executing
  <2>2. QED
    BY <1>1, <2>1, OtherType DEF SubmissionNext, svars
<1>4. QED
  BY <1>2, <1>3, Typed

LEMMA SubmissionTypeInit == SubmissionInit => SubmissionTypeOK
<1> SUFFICES ASSUME SubmissionInit
             PROVE  SubmissionTypeOK
  OBVIOUS
<1>1. LedgerTypeOK
  BY InvInitially DEF SubmissionInit, LedgerInv
<1>2. ExecutorType
  BY SubmissionAssumption DEF SubmissionInit, ExecutorType, ExecutorPhase, Outcome, SubmissionAssumption
<1>3. QED
  BY <1>1, <1>2, TypeParts

(* The records of the extension, the requests on the wire and the state of *)
(* the page keep their types beside the ledger's.                          *)
THEOREM SubmissionTypeCorrect == SubmissionSpec => []SubmissionTypeOK
BY SubmissionTypeInit, SubmissionType, PTL DEF SubmissionSpec

(* Whatever the extension, the network and the employer do, the server     *)
(* sees a history of the ledger: what is proved of SubmissionLedger holds  *)
(* of the whole system.                                                    *)
THEOREM SubmissionImplementsLedger == SubmissionSpec => LedgerSafety
<1>1. SubmissionInit => LedgerInit
  BY DEF SubmissionInit
<1>2. SubmissionTypeOK /\ [SubmissionNext]_svars => [LedgerNext]_lvars
  BY TypeParts, StepOfLedger
<1>3. QED
  BY <1>1, <1>2, SubmissionTypeCorrect, PTL DEF SubmissionSpec, LedgerSafety

-----------------------------------------------------------------------------
(* The order of the phases of one run.                                     *)

Before == {"idle", "preclick", "ready"}
ToClick == {"dispatching", "acked", "installed", "armed"}
Over == {"SUBMISSION_AMBIGUOUS", "SUBMISSION_FAILED", "CONFIRMED_SUCCESS"}
Sent == Over \cup {"CLICK_DISPATCHED"}

(* A request that waits for the server has a controller that waits for its *)
(* answer, or none; so an answer belongs to the question last asked.       *)
Answers(r) ==
  /\ ex[r] \in {"idle", "ready"} => reply[r] = "none"
  /\ PreAsk(r) \in wire => ex[r] \in {"preclick", "gone", "dead"} /\ (ex[r] = "preclick" => reply[r] = "none")
  /\ DispatchAsk(r) \in wire => ex[r] \in {"dispatching", "gone", "dead"} /\ (ex[r] = "dispatching" => reply[r] = "none")

(* Who knows that the click was dispatched.                                *)
Knows(r) ==
  /\ ex[r] = "dispatching" /\ reply[r] = "yes" => attempt[r] \in Sent
  /\ ex[r] \in {"acked", "installed", "armed", "watching"} => attempt[r] \in Sent
  /\ page[r] # "idle" => attempt[r] \in Sent
  /\ attempt[r] \in Sent => ex[r] \notin Before

(* Who can close the egress: the record leads there, and whoever removes   *)
(* it has restored TOTAL or said that this failed.                         *)
Attended(r) ==
  /\ ex[r] \in Before \cup {"gone"} => disk[r] = "none"
  /\ ex[r] \in Before \cup {"dispatching", "acked"} => ~egress[r]
  /\ ex[r] \in {"reporting", "gone"} /\ egress[r] => unrestored[r]
  /\ signedOut = "NO" =>
       /\ recovery[r] # "none" => ex[r] = "dead"
       /\ ex[r] \in {"dispatching", "acked"} => disk[r] # "none"
       /\ recovery[r] \in Persisted \cup {"reported"} /\ egress[r] => unrestored[r]
       /\ egress[r] => disk[r] # "none" \/ unrestored[r]

PhaseInv ==
  /\ SubmissionTypeOK
  /\ LedgerInv
  /\ signedOut = "NO" => wipe = "no"
  /\ \A r \in Run : Answers(r) /\ Knows(r) /\ Attended(r)

(* Who signed out stays so.                                                *)
SignedStays == signedOut' = signedOut \/ signedOut = "NO"

(* What a step of the ledger does to an attempt.                           *)
Effect(r) ==
  \/ UNCHANGED <<attempt[r], source[r]>> /\ (late'[r] => late[r] \/ Elapse(r))
  \/ attempt[r] \notin Sent /\ attempt'[r] \notin Sent
  \/ attempt[r] = "AUTHORIZED" /\ attempt'[r] = "CLICK_DISPATCHED" /\ ~late'[r]
  \/ attempt[r] = "CLICK_DISPATCHED" /\ attempt'[r] \in Sent
  \/ attempt[r] = "SUBMISSION_AMBIGUOUS" /\ attempt'[r] \in {"CONFIRMED_SUCCESS", "SUBMISSION_FAILED"} /\ source'[r] = "USER"

LEMMA OneEffect ==
  ASSUME LedgerInv, NEW s \in Run, Submitting(s), NEW r \in Run
  PROVE  Effect(r)
<1>1. attempt \in [Run -> AttemptState] /\ source \in [Run -> {"NONE", "SERVER", "EXECUTOR", "USER"}] /\ late \in [Run -> BOOLEAN]
  BY DEF LedgerInv, LedgerTypeOK
<1>2. CASE Authorize(s) \/ AuthorizeSeesSentinel(s) \/ CancelGrant(s) \/ PreClickRefuse(s) \/ PreClickSeesSentinel(s)
  BY <1>2 DEF Authorize, AuthorizeSeesSentinel, CancelGrant, PreClickRefuse, PreClickSeesSentinel, Effect
<1>3. CASE CancelAttempt(s) \/ DispatchRefuse(s)
  BY <1>1, <1>3 DEF CancelAttempt, DispatchRefuse, Record, Effect, Sent, Over
<1>4. CASE PreClickCommit(s)
  <2>1. attempt[s] = "NONE"
    BY <1>4 DEF PreClickCommit, Consumable, LedgerInv, IntentMatchesAttempt
  <2>2. QED
    BY <1>1, <1>4, <2>1 DEF PreClickCommit, Record, Effect, Sent, Over
<1>5. CASE DispatchAcknowledge(s)
  BY <1>1, <1>5 DEF DispatchAcknowledge, Record, Effect, Sent, Over
<1>6. ASSUME NEW verdict \in {Verdict(e) : e \in Evidence}, ReportResult(s, verdict)
      PROVE  Effect(r)
  BY <1>1, <1>6, VerdictType DEF ReportResult, Record, Effect, Sent, Over
<1>7. ASSUME NEW submitted \in BOOLEAN, Resolve(s, submitted)
      PROVE  Effect(r)
  BY <1>1, <1>7 DEF Resolve, Record, Effect, Sent, Over
<1>8. QED
  BY <1>2, <1>3, <1>4, <1>5, <1>6, <1>7 DEF Submitting

LEMMA Effects ==
  ASSUME LedgerInv, [LedgerNext]_lvars, NEW r \in Run
  PROVE  Effect(r)
<1>1. attempt \in [Run -> AttemptState] /\ source \in [Run -> {"NONE", "SERVER", "EXECUTOR", "USER"}] /\ late \in [Run -> BOOLEAN]
  BY DEF LedgerInv, LedgerTypeOK
<1>2. CASE \E s \in Run : Submitting(s)
  BY <1>2, OneEffect
<1>3. CASE \E s \in Run : Elapse(s)
  BY <1>1, <1>3 DEF Elapse, Effect, Sent, Over
<1>4. CASE \/ \E j \in Job : HumanApplied(j)
           \/ ExpireGrants \/ Controlling \/ UNCHANGED lvars
  BY <1>4 DEF HumanApplied, ExpireGrants, Controlling, EngageKillSwitch, LatchSentinel, ReleaseKillSwitch, ResumeAll,
              Pause, Resume, FlipSentinel, lvars, ledgerVars, Effect
<1>5. CASE ExpireUnclicked \/ MarkStaleAmbiguous
  BY <1>1, <1>5 DEF ExpireUnclicked, MarkStaleAmbiguous, RecordAll, Overdue, Effect, Sent, Over
<1>6. QED
  BY <1>2, <1>3, <1>4, <1>5 DEF LedgerNext, Sweeping

LEMMA OthersUntouched ==
  ASSUME LedgerTypeOK, NEW s \in Run, Submitting(s), NEW r \in Run \ {s}
  PROVE  UNCHANGED <<attempt[r], source[r], late[r]>>
<1>1. attempt \in [Run -> AttemptState] /\ source \in [Run -> {"NONE", "SERVER", "EXECUTOR", "USER"}] /\ late \in [Run -> BOOLEAN]
  BY DEF LedgerTypeOK
<1>2. \A state, by : Record(s, state, by) => UNCHANGED <<attempt[r], source[r], late[r]>>
  BY <1>1 DEF Record
<1>3. CASE UNCHANGED <<attempt, source, late>>
  BY <1>3
<1>4. UNCHANGED <<attempt, source, late>> \/ \E state, by : Record(s, state, by)
  BY DEF Submitting, Authorize, AuthorizeSeesSentinel, CancelGrant, CancelAttempt, PreClickRefuse, PreClickSeesSentinel,
         PreClickCommit, DispatchAcknowledge, DispatchRefuse, ReportResult, Resolve
<1>5. QED
  BY <1>2, <1>3, <1>4

LEMMA LedgerAloneSends ==
  ASSUME LedgerTypeOK, LedgerAlone, NEW r \in Run, attempt[r] = "AUTHORIZED"
  PROVE  attempt'[r] # "CLICK_DISPATCHED"
<1>1. attempt \in [Run -> AttemptState]
  BY DEF LedgerTypeOK
<1>2. ASSUME NEW s \in Run, Authorize(s) \/ AuthorizeSeesSentinel(s) \/ CancelGrant(s) \/ CancelAttempt(s)
      PROVE  attempt'[r] # "CLICK_DISPATCHED"
  BY <1>1, <1>2 DEF Authorize, AuthorizeSeesSentinel, CancelGrant, CancelAttempt, Record
<1>3. ASSUME NEW s \in Run, TruthfulResolve(s) \/ DeadlinePasses(s)
      PROVE  attempt'[r] # "CLICK_DISPATCHED"
  BY <1>1, <1>3 DEF TruthfulResolve, Resolve, DeadlinePasses, Elapse, Record
<1>4. ASSUME NEW j \in Job, HumanApplied(j)
      PROVE  attempt'[r] # "CLICK_DISPATCHED"
  BY <1>4 DEF HumanApplied
<1>5. CASE Sweeping
  BY <1>1, <1>5 DEF Sweeping, ExpireGrants, ExpireUnclicked, MarkStaleAmbiguous, RecordAll
<1>6. CASE Controlling
  BY <1>6 DEF Controlling, EngageKillSwitch, LatchSentinel, ReleaseKillSwitch, ResumeAll, Pause, Resume, FlipSentinel, ledgerVars
<1>7. QED
  BY <1>2, <1>3, <1>4, <1>5, <1>6 DEF LedgerAlone

(* A run whose executor does not move.                                     *)
Rests(r) ==
  /\ UNCHANGED <<ex[r], outcome[r], disk[r], egress[r], recovery[r], page[r], unrestored[r]>>
  /\ \A m \in wire' : m.run = r => m \in wire

PhaseOf(r) == Answers(r) /\ Knows(r) /\ Attended(r)

LEMMA RestingPhase ==
  ASSUME PhaseInv, NEW r \in Run, Rests(r), reply'[r] = reply[r], Effect(r), SignedStays,
         attempt'[r] \in Sent => attempt[r] \in Sent
  PROVE  PhaseOf(r)'
<1>1. PhaseOf(r)
  BY DEF PhaseInv, PhaseOf
<1>2. attempt'[r] \in Sent <=> attempt[r] \in Sent
  BY DEF Effect, Sent, Over
<1>3. /\ PreAsk(r) \in wire' => PreAsk(r) \in wire
      /\ DispatchAsk(r) \in wire' => DispatchAsk(r) \in wire
  BY DEF Rests, PreAsk, DispatchAsk
<1>4. QED
  BY <1>1, <1>2, <1>3 DEF PhaseOf, Answers, Knows, Attended, Rests, SignedStays, PreAsk, DispatchAsk

LEMMA ServingRests ==
  ASSUME ExecutorType, NEW s \in Run, Serving(s)
  PROVE  signedOut' = signedOut /\ \A r \in Run : Rests(r) /\ (r # s => reply'[r] = reply[r])
<1>1. wire' \subseteq wire /\ UNCHANGED <<ex, outcome, disk, egress, recovery, page, signedOut, unrestored>>
  BY DEF Serving, ServePreClick, ServeDispatch, ServeResult, Accepts
<1>2. UNCHANGED reply \/ \E yes : Answer(s, yes)
  BY DEF Serving, ServePreClick, ServeDispatch, ServeResult
<1>3. \A r \in Run : r # s => reply'[r] = reply[r]
  BY <1>2 DEF Answer, ExecutorType
<1>4. QED
  BY <1>1, <1>3 DEF Rests

LEMMA ServingPhase ==
  ASSUME PhaseInv, NEW r \in Run, Serving(r)
  PROVE  PhaseOf(r)'
<1>1. PhaseOf(r) /\ ExecutorType /\ LedgerTypeOK /\ attempt \in [Run -> AttemptState]
  BY TypeParts DEF PhaseInv, PhaseOf, LedgerInv, LedgerTypeOK
<1>2. Rests(r) /\ signedOut' = signedOut
  BY <1>1, ServingRests
<1>3. Effect(r)
  BY <1>1, ServingSteps, OneEffect, Effects DEF PhaseInv
<1>4. CASE ServePreClick(r)
  <2>1. PreAsk(r) \in wire /\ PreAsk(r) \notin wire'
    BY <1>4 DEF ServePreClick, Accepts, PreAsk
  <2>2. ex[r] \in {"preclick", "gone", "dead"}
    BY <1>1, <2>1 DEF PhaseOf, Answers
  <2>3. DispatchAsk(r) \in wire' => ex[r] \in {"gone", "dead"}
    BY <1>1, <1>2, <2>2 DEF Rests, PhaseOf, Answers, DispatchAsk
  <2>4. attempt'[r] \in Sent <=> attempt[r] \in Sent
    <3>1. CASE PreClickCommit(r)
      BY <1>1, <1>3, <3>1 DEF PreClickCommit, Record, Effect, Sent, Over
    <3>2. CASE UNCHANGED attempt
      BY <3>2
    <3>3. QED
      BY <1>4, <3>1, <3>2 DEF ServePreClick, PreClickRefuse, PreClickSeesSentinel, lvars, ledgerVars
  <2>5. QED
    BY <1>1, <1>2, <2>1, <2>2, <2>3, <2>4 DEF PhaseOf, Answers, Knows, Attended, Rests, Before, PreAsk, DispatchAsk
<1>5. CASE ServeDispatch(r)
  <2>1. DispatchAsk(r) \in wire /\ DispatchAsk(r) \notin wire'
    BY <1>5 DEF ServeDispatch, Accepts, DispatchAsk
  <2>2. ex[r] \in {"dispatching", "gone", "dead"}
    BY <1>1, <2>1 DEF PhaseOf, Answers
  <2>3. PreAsk(r) \in wire' => ex[r] \in {"gone", "dead"}
    BY <1>1, <1>2, <2>2 DEF Rests, PhaseOf, Answers, PreAsk
  <2>4. CASE DispatchAcknowledge(r) /\ Answer(r, TRUE)
    <3>1. attempt'[r] = "CLICK_DISPATCHED"
      BY <1>1, <2>4 DEF DispatchAcknowledge, Record
    <3>2. QED
      BY <1>1, <1>2, <2>1, <2>2, <2>3, <3>1
      DEF PhaseOf, Answers, Knows, Attended, Rests, Before, Sent, PreAsk, DispatchAsk
  <2>5. CASE Answer(r, FALSE) /\ (DispatchRefuse(r) \/ (attempt[r] # "AUTHORIZED" /\ UNCHANGED lvars))
    <3>1. reply'[r] # "yes" \/ ex[r] # "dispatching"
      BY <1>1, <2>5 DEF Answer, ExecutorType
    <3>2. attempt'[r] \in Sent <=> attempt[r] \in Sent
      BY <1>1, <2>5 DEF DispatchRefuse, Record, Sent, Over, lvars, ledgerVars
    <3>3. QED
      BY <1>1, <1>2, <2>1, <2>2, <2>3, <3>1, <3>2
      DEF PhaseOf, Answers, Knows, Attended, Rests, Before, PreAsk, DispatchAsk
  <2>6. QED
    BY <1>5, <2>4, <2>5 DEF ServeDispatch
<1>6. CASE ServeResult(r)
  <2>1. reply'[r] = reply[r]
    BY <1>6 DEF ServeResult
  <2>2. attempt'[r] \in Sent => attempt[r] \in Sent
    BY <1>6 DEF ServeResult, lvars, ledgerVars, Sent
  <2>3. QED
    BY <1>2, <1>3, <2>1, <2>2, RestingPhase DEF SignedStays
<1>7. QED
  BY <1>4, <1>5, <1>6 DEF Serving

LEMMA OthersRest ==
  ASSUME ExecutorType, NEW s \in Run, Executing(s)
  PROVE  \A r \in Run \ {s} : Rests(r) /\ reply'[r] = reply[r]
<1> SUFFICES ASSUME NEW r \in Run \ {s}
             PROVE  Rests(r) /\ reply'[r] = reply[r]
  OBVIOUS
<1>1. CASE Begin(s) \/ PreClickAnswered(s) \/ CancelInPopup(s) \/ AskDispatch(s) \/ DispatchAnswered(s) \/ GiveUp(s)
  BY <1>1 DEF Begin, PreClickAnswered, CancelInPopup, AskDispatch, DispatchAnswered, DispatchConcludes, GiveUp,
              Go, Persist, Send, Locally, ExecutorType, Rests
<1>2. CASE InstallEgress(s) \/ Arm(s) \/ Click(s) \/ ControlMissing(s) \/ PageSends(s) \/ PageBlocked(s)
  BY <1>2 DEF InstallEgress, Arm, Click, ControlMissing, PageSends, PageBlocked, Go, Persist, Locally, ExecutorType, Rests
<1>3. CASE WatchEnds(s) \/ Throw(s) \/ Finish(s) \/ Done(s)
  BY <1>3 DEF WatchEnds, Throw, Finish, Done, Go, Persist, Send, LastRestore, Restore, Locally, ExecutorType, Rests
<1>4. CASE RecoverRestore(s) \/ RecoverReport(s) \/ RecoverRemove(s)
  BY <1>4 DEF RecoverRestore, RecoverReport, RecoverRemove, Persist, Send, LastRestore, Restore, Locally, ExecutorType, Rests
<1>5. QED
  BY <1>1, <1>2, <1>3, <1>4 DEF Executing

LEMMA ControllerPhase ==
  ASSUME PhaseInv, NEW r \in Run,
         Begin(r) \/ PreClickAnswered(r) \/ CancelInPopup(r) \/ AskDispatch(r) \/ DispatchAnswered(r) \/ GiveUp(r)
  PROVE  PhaseOf(r)'
<1>1. PhaseOf(r) /\ ExecutorType /\ attempt' = attempt /\ signedOut' = signedOut
  BY TypeParts, QuietSteps DEF PhaseInv, PhaseOf, Executing, lvars, ledgerVars
<1>u. unrestored' = unrestored
  BY DEF Begin, PreClickAnswered, CancelInPopup, AskDispatch, DispatchAnswered, DispatchConcludes, GiveUp, Locally
<1>2. CASE Begin(r)
  <2>1. /\ ex'[r] = "preclick" /\ wire' = wire \cup {PreAsk(r)} /\ ex[r] = "idle"
        /\ UNCHANGED <<disk, egress, recovery, reply, page>>
    BY <1>1, <1>2 DEF Begin, Go, Send, PreAsk, ExecutorType
  <2>2. QED
    BY <1>1, <1>u, <2>1 DEF PhaseOf, Answers, Knows, Attended, Before, PreAsk, DispatchAsk
<1>3. CASE PreClickAnswered(r)
  <2>1. /\ ex'[r] \in {"ready", "gone"} /\ reply'[r] = "none" /\ ex[r] = "preclick" /\ reply[r] # "none"
        /\ UNCHANGED <<disk, egress, recovery, wire, page>>
    BY <1>1, <1>3 DEF PreClickAnswered, Go, ExecutorType
  <2>2. QED
    BY <1>1, <1>u, <2>1 DEF PhaseOf, Answers, Knows, Attended, Before, PreAsk, DispatchAsk
<1>4. CASE CancelInPopup(r)
  <2>1. ex'[r] = "gone" /\ ex[r] = "ready" /\ UNCHANGED <<disk, egress, recovery, wire, reply, page>>
    BY <1>1, <1>4 DEF CancelInPopup, Go, ExecutorType
  <2>2. QED
    BY <1>1, <1>u, <2>1 DEF PhaseOf, Answers, Knows, Attended, Before, PreAsk, DispatchAsk
<1>5. CASE AskDispatch(r)
  <2>1. /\ ex'[r] = "dispatching" /\ disk'[r] = "DISPATCHING" /\ wire' \subseteq wire \cup {DispatchAsk(r)} /\ ex[r] = "ready"
        /\ UNCHANGED <<egress, recovery, reply, page>>
    BY <1>1, <1>5, SendBounds DEF AskDispatch, Go, Persist, DispatchAsk, ExecutorType
  <2>2. QED
    BY <1>1, <1>u, <2>1 DEF PhaseOf, Answers, Knows, Attended, Before, PreAsk, DispatchAsk
<1>6. CASE DispatchAnswered(r)
  <2>1. /\ \/ reply[r] = "yes" /\ ex'[r] = "acked" /\ disk'[r] = "DISPATCHED_ACK"
           \/ ex'[r] = "gone" /\ disk'[r] = "none"
        /\ reply'[r] = "none" /\ ex[r] = "dispatching" /\ reply[r] # "none"
        /\ UNCHANGED <<egress, recovery, wire, page>>
    BY <1>1, <1>6 DEF DispatchAnswered, DispatchConcludes, Go, Persist, ExecutorType
  <2>2. QED
    BY <1>1, <1>u, <2>1 DEF PhaseOf, Answers, Knows, Attended, Before, PreAsk, DispatchAsk
<1>7. CASE GiveUp(r)
  <2>1. ex'[r] = "gone" /\ disk'[r] = "none" /\ ex[r] \in {"preclick", "dispatching"} /\ UNCHANGED <<egress, recovery, wire, reply, page>>
    BY <1>1, <1>7 DEF GiveUp, Go, Persist, ExecutorType
  <2>2. QED
    BY <1>1, <1>u, <2>1 DEF PhaseOf, Answers, Knows, Attended, Before, PreAsk, DispatchAsk
<1>8. QED
  BY <1>2, <1>3, <1>4, <1>5, <1>6, <1>7

LEMMA ClickPhase ==
  ASSUME PhaseInv, NEW r \in Run,
         InstallEgress(r) \/ Arm(r) \/ Click(r) \/ ControlMissing(r) \/ PageSends(r) \/ PageBlocked(r)
  PROVE  PhaseOf(r)'
<1>1. PhaseOf(r) /\ ExecutorType /\ attempt' = attempt /\ signedOut' = signedOut
  BY TypeParts, QuietSteps DEF PhaseInv, PhaseOf, Executing, lvars, ledgerVars
<1>u. unrestored' = unrestored
  BY DEF InstallEgress, Arm, Click, ControlMissing, PageSends, PageBlocked, Locally
<1>2. CASE InstallEgress(r)
  <2>1. ex'[r] \in {"installed", "ending"} /\ ex[r] = "acked" /\ UNCHANGED <<disk, recovery, wire, reply, page>>
    BY <1>1, <1>2 DEF InstallEgress, Go, ExecutorType
  <2>2. QED
    BY <1>1, <1>u, <2>1 DEF PhaseOf, Answers, Knows, Attended, Before, PreAsk, DispatchAsk, Persisted
<1>3. CASE Arm(r)
  <2>1. ex'[r] = "armed" /\ ex[r] = "installed" /\ disk'[r] = "CLICKED" /\ UNCHANGED <<egress, recovery, wire, reply, page>>
    BY <1>1, <1>3 DEF Arm, Go, Persist, ExecutorType
  <2>2. QED
    BY <1>1, <1>u, <2>1 DEF PhaseOf, Answers, Knows, Attended, Before, PreAsk, DispatchAsk
<1>4. CASE Click(r) \/ ControlMissing(r)
  <2>1. ex'[r] \in {"watching", "ending"} /\ ex[r] = "armed" /\ UNCHANGED <<disk, egress, recovery, wire, reply>>
    BY <1>1, <1>4 DEF Click, ControlMissing, Go, ExecutorType
  <2>2. QED
    BY <1>1, <1>u, <2>1 DEF PhaseOf, Answers, Knows, Attended, Before, PreAsk, DispatchAsk
<1>5. CASE PageSends(r) \/ PageBlocked(r)
  <2>1. page[r] = "leaving" /\ UNCHANGED <<ex, disk, egress, recovery, wire, reply>>
    BY <1>5 DEF PageSends, PageBlocked
  <2>2. QED
    BY <1>1, <1>u, <2>1 DEF PhaseOf, Answers, Knows, Attended, Before, PreAsk, DispatchAsk
<1>6. QED
  BY <1>2, <1>3, <1>4, <1>5

LEMMA EndingPhase ==
  ASSUME PhaseInv, NEW r \in Run,
         WatchEnds(r) \/ Throw(r) \/ Finish(r) \/ Done(r) \/ RecoverRestore(r) \/ RecoverReport(r) \/ RecoverRemove(r)
  PROVE  PhaseOf(r)'
<1>1. PhaseOf(r) /\ ExecutorType /\ attempt' = attempt /\ signedOut' = signedOut
  BY TypeParts, QuietSteps DEF PhaseInv, PhaseOf, Executing, lvars, ledgerVars
<1>2. CASE WatchEnds(r)
  <2>1. /\ ex'[r] = "ending" /\ ex[r] = "watching" /\ (egress'[r] => egress[r])
        /\ UNCHANGED <<disk, recovery, wire, reply, page, unrestored>>
    BY <1>1, <1>2 DEF WatchEnds, Restore, Go, ExecutorType
  <2>2. QED
    BY <1>1, <2>1 DEF PhaseOf, Answers, Knows, Attended, Before, PreAsk, DispatchAsk
<1>3. CASE Throw(r)
  <2>1. /\ ex'[r] = "ending" /\ ex[r] \in {"ready", "installed", "watching", "dispatching"} /\ reply'[r] = "none"
        /\ (ex[r] = "dispatching" => reply[r] # "none")
        /\ UNCHANGED <<disk, egress, recovery, wire, page, unrestored>>
    BY <1>1, <1>3 DEF Throw, Go, ExecutorType
  <2>2. QED
    BY <1>1, <2>1 DEF PhaseOf, Answers, Knows, Attended, Before, PreAsk, DispatchAsk
<1>4. CASE Finish(r)
  <2>1. PICK restored \in BOOLEAN :
          LastRestore(r, restored) /\ wire' \subseteq wire \cup {Report(r, FinishEvidence(outcome[r], restored))}
    BY <1>4, SendBounds DEF Finish, Report
  <2>2. /\ ex'[r] = "reporting" /\ ex[r] = "ending" /\ (egress'[r] => egress[r] /\ unrestored'[r])
        /\ UNCHANGED <<disk, recovery, reply, page>>
    BY <1>1, <1>4, <2>1, RestoreType DEF Finish, Go, ExecutorType
  <2>3. (PreAsk(r) \in wire' => PreAsk(r) \in wire) /\ (DispatchAsk(r) \in wire' => DispatchAsk(r) \in wire)
    BY <2>1 DEF PreAsk, DispatchAsk, Report
  <2>4. QED
    BY <1>1, <2>2, <2>3 DEF PhaseOf, Answers, Knows, Attended, Before, PreAsk, DispatchAsk
<1>5. CASE Done(r)
  <2>1. /\ ex'[r] = "gone" /\ ex[r] = "reporting" /\ disk'[r] = "none"
        /\ UNCHANGED <<egress, recovery, wire, reply, page, unrestored>>
    BY <1>1, <1>5 DEF Done, Go, Persist, Locally, ExecutorType
  <2>2. QED
    BY <1>1, <2>1 DEF PhaseOf, Answers, Knows, Attended, Before, PreAsk, DispatchAsk
<1>6. CASE RecoverRestore(r)
  <2>1. /\ disk[r] # "none" /\ recovery[r] # "none" /\ (egress'[r] => egress[r] /\ unrestored'[r])
        /\ UNCHANGED <<ex, disk, wire, reply, page>>
    BY <1>1, <1>6, RestoreType DEF RecoverRestore
  <2>2. QED
    BY <1>1, <2>1 DEF PhaseOf, Answers, Knows, Attended, Before, PreAsk, DispatchAsk, Persisted
<1>7. CASE RecoverReport(r)
  <2>1. wire' \subseteq wire \cup {Report(r, RecoveryEvidence(recovery[r]))}
    BY <1>7, SendBounds DEF RecoverReport, Report
  <2>2. recovery[r] \in Persisted /\ recovery'[r] = "reported" /\ UNCHANGED <<ex, disk, egress, reply, page, unrestored>>
    BY <1>1, <1>7 DEF RecoverReport, Locally, ExecutorType
  <2>3. (PreAsk(r) \in wire' => PreAsk(r) \in wire) /\ (DispatchAsk(r) \in wire' => DispatchAsk(r) \in wire)
    BY <2>1 DEF PreAsk, DispatchAsk, Report
  <2>4. QED
    BY <1>1, <2>2, <2>3 DEF PhaseOf, Answers, Knows, Attended, Before, PreAsk, DispatchAsk, Persisted
<1>8. CASE RecoverRemove(r)
  <2>1. /\ recovery[r] = "reported" /\ recovery'[r] = "done" /\ disk'[r] = "none"
        /\ UNCHANGED <<ex, egress, wire, reply, page, unrestored>>
    BY <1>1, <1>8 DEF RecoverRemove, Persist, Locally, ExecutorType
  <2>2. QED
    BY <1>1, <2>1 DEF PhaseOf, Answers, Knows, Attended, Before, PreAsk, DispatchAsk, Persisted
<1>9. QED
  BY <1>2, <1>3, <1>4, <1>5, <1>6, <1>7, <1>8

LEMMA PhaseStep ==
  ASSUME PhaseInv, [SubmissionNext]_svars
  PROVE  PhaseInv'
<1>1. SubmissionTypeOK /\ LedgerTypeOK /\ ExecutorType /\ LedgerInv
  BY TypeParts DEF PhaseInv
<1>2. SubmissionTypeOK' /\ LedgerInv'
  BY <1>1, SubmissionType, StepOfLedger, InvPreserved
<1>s. /\ SignedStays /\ (signedOut' = "NO" => wipe' = "no")
      /\ \A s \in Run : Executing(s) => signedOut' = signedOut
      /\ UNCHANGED executorVars => signedOut' = signedOut
  <2>1. ASSUME NEW s \in Run, Executing(s) \/ Serving(s)
        PROVE  signedOut' = signedOut /\ wipe' = wipe
    BY <2>1, QuietSteps DEF Serving, ServePreClick, ServeDispatch, ServeResult, Accepts
  <2>2. ASSUME WorkerDies \/ SignOut \/ Wipe
        PROVE  SignedStays /\ (signedOut' = "NO" => wipe' = "no")
    BY <1>1, <2>2 DEF WorkerDies, SignOut, Wipe, PhaseInv, ExecutorType, SignedStays
  <2>3. ASSUME UNCHANGED executorVars
        PROVE  SignedStays /\ (signedOut' = "NO" => wipe' = "no")
    BY <2>3 DEF executorVars, PhaseInv, SignedStays
  <2>4. SignedStays /\ (signedOut' = "NO" => wipe' = "no")
    BY <2>1, <2>2, <2>3 DEF SubmissionNext, PhaseInv, SignedStays, svars
  <2>5. QED
    BY <2>1, <2>4 DEF executorVars
<1> SUFFICES ASSUME NEW r \in Run
             PROVE  PhaseOf(r)'
  BY <1>2, <1>s DEF PhaseInv, PhaseOf
<1>3. Effect(r)
  BY <1>1, StepOfLedger, Effects
<1>4. ASSUME NEW s \in Run, Executing(s)
      PROVE  PhaseOf(r)'
  <2>1. CASE s = r
    BY <1>4, <2>1, ControllerPhase, ClickPhase, EndingPhase DEF Executing
  <2>2. CASE s # r
    <3>1. Rests(r) /\ reply'[r] = reply[r] /\ attempt' = attempt
      BY <1>1, <1>4, <2>2, OthersRest, QuietSteps DEF lvars, ledgerVars
    <3>2. QED
      BY <1>3, <1>s, <3>1, RestingPhase
  <2>3. QED
    BY <2>1, <2>2
<1>5. ASSUME NEW s \in Run, Serving(s)
      PROVE  PhaseOf(r)'
  <2>1. CASE s = r
    BY <1>5, <2>1, ServingPhase
  <2>2. CASE s # r
    <3>1. Rests(r) /\ reply'[r] = reply[r]
      BY <1>1, <1>5, <2>2, ServingRests
    <3>2. attempt'[r] = attempt[r]
      BY <1>1, <1>5, <2>2, ServingSteps, OthersUntouched DEF lvars, ledgerVars
    <3>3. QED
      BY <1>3, <1>s, <3>1, <3>2, RestingPhase
  <2>3. QED
    BY <2>1, <2>2
<1>6. CASE LedgerAlone /\ UNCHANGED executorVars
  <2>1. Rests(r) /\ reply'[r] = reply[r]
    BY <1>6 DEF executorVars, Rests
  <2>2. attempt'[r] \in Sent => attempt[r] \in Sent
    BY <1>1, <1>3, <1>6, LedgerAloneSends DEF Effect, Sent, Over
  <2>3. QED
    BY <1>3, <1>s, <2>1, <2>2, RestingPhase
<1>7. CASE WorkerDies
  <2>1. PhaseOf(r)
    BY DEF PhaseInv, PhaseOf
  <2>2. /\ attempt' = attempt /\ reply'[r] = "none" /\ (ex'[r] = ex[r] \/ ex'[r] = "dead")
        /\ ex[r] \in Alive => ex'[r] = "dead"
        /\ recovery'[r] = IF disk[r] # "none" THEN "listed" ELSE recovery[r]
        /\ ex'[r] = "dead" => ex[r] # "gone"
        /\ ex[r] \in {"idle", "gone", "dead"} \cup Alive
        /\ UNCHANGED <<disk, egress, wire, page, signedOut, unrestored>>
    BY <1>1, <1>7, ListType DEF WorkerDies, ExecutorType, lvars, ledgerVars, Alive, ExecutorPhase
  <2>3. QED
    BY <2>1, <2>2 DEF PhaseOf, Answers, Knows, Attended, Before, PreAsk, DispatchAsk, Alive, ExecutorPhase, Persisted
<1>r. CASE SignOut \/ Wipe
  <2>1. PhaseOf(r)
    BY DEF PhaseInv, PhaseOf
  <2>2. /\ UNCHANGED <<attempt, ex, egress, wire, reply, page, unrestored>> /\ disk'[r] \in {disk[r], "none"}
        /\ signedOut' # "NO"
    BY <1>1, <1>r DEF SignOut, Wipe, ExecutorType, lvars, ledgerVars, PhaseInv
  <2>3. QED
    BY <2>1, <2>2 DEF PhaseOf, Answers, Knows, Attended, PreAsk, DispatchAsk
<1>8. CASE UNCHANGED svars
  <2>1. Rests(r) /\ reply'[r] = reply[r] /\ attempt' = attempt
    BY <1>8 DEF svars, executorVars, Rests, lvars, ledgerVars
  <2>2. QED
    BY <1>3, <1>s, <2>1, RestingPhase
<1>9. QED
  BY <1>4, <1>5, <1>6, <1>7, <1>r, <1>8 DEF SubmissionNext

LEMMA PhaseInit == SubmissionInit => PhaseInv
<1> SUFFICES ASSUME SubmissionInit
             PROVE  PhaseInv
  OBVIOUS
<1>1. SubmissionTypeOK /\ LedgerInv
  BY SubmissionTypeInit, InvInitially DEF SubmissionInit
<1>2. ASSUME NEW r \in Run
      PROVE  Answers(r) /\ Knows(r) /\ Attended(r)
  BY <1>2 DEF SubmissionInit, LedgerInit, Answers, Knows, Attended, Before, Persisted, Sent, Over
<1>3. QED
  BY <1>1, <1>2 DEF PhaseInv, SubmissionInit

LEMMA PhaseAlways == SubmissionSpec => []PhaseInv
BY PhaseInit, PhaseStep, PTL DEF SubmissionSpec

(* The button is pressed only after the server recorded the dispatch, for  *)
(* any number of runs, deaths, lost answers and recoveries.                *)
THEOREM ClickOnlyAfterDispatchAlways == SubmissionSpec => []ClickOnlyAfterDispatch
<1>1. PhaseInv => ClickOnlyAfterDispatch
  BY DEF PhaseInv, Knows, ClickOnlyAfterDispatch, Sent, Over
<1>2. QED
  BY <1>1, PhaseAlways, PTL

(* Allow rules are never left behind without a record that leads recovery  *)
(* to them, but for a restoring that failed, or for the controllers that   *)
(* somebody signs out beside.                                              *)
THEOREM EgressAttendedAlways == SubmissionSpec => []EgressAttended
<1>1. PhaseInv => EgressAttended
  <2> SUFFICES ASSUME PhaseInv, NEW r \in Run, egress[r], disk[r] = "none", ~unrestored[r]
               PROVE  signedOut # "NO" /\ ex[r] \in Alive \cup {"dead"}
    BY DEF EgressAttended
  <2>1. Attended(r) /\ ex[r] \in ExecutorPhase
    BY TypeParts DEF PhaseInv, ExecutorType
  <2>2. QED
    BY <2>1 DEF Attended, Alive, ExecutorPhase, Before
<1>2. QED
  BY <1>1, PhaseAlways, PTL

-----------------------------------------------------------------------------
(* What the extension may conclude, and what the employer then has.        *)

Ended == {"reporting", "gone", "dead"}

Results(r) == {m \in wire : m.kind = "result" /\ m.run = r}

(* A signal the watch certified stays true: the employer's page has        *)
(* settled, and a controller that reported it never opens the egress again.*)
Witness(r) ==
  /\ ex[r] \in Before \cup ToClick => page[r] = "idle"
  /\ outcome[r] = "SUCCESS" => page[r] = "stored"
  /\ outcome[r] = "FAILURE" => page[r] = "rejected"
  /\ \A m \in Results(r) :
       /\ m.evidence.success /\ m.evidence.restored => page[r] = "stored" /\ ~egress[r] /\ ex[r] \in Ended
       /\ m.evidence.failure => page[r] = "rejected"
  /\ attempt[r] = "CONFIRMED_SUCCESS" /\ source[r] = "SERVER" => page[r] = "stored" /\ ~egress[r] /\ ex[r] \in Ended

(* Clicks are prompt, and who signed out was heard by the server.          *)
Trusting == Prompt /\ signedOut # "LOCAL"

(* Before anybody signs out there is one reporter: a report that nothing   *)
(* was clicked comes only from a recovery that found no acknowledged       *)
(* dispatch.                                                               *)
OneReporter(r) ==
  /\ disk[r] = "DISPATCHING" => page[r] = "idle" /\ ex[r] \notin {"acked", "installed", "armed"}
  /\ recovery[r] = "DISPATCHING" => page[r] = "idle"
  /\ \A m \in Results(r) :
       /\ ex[r] \in Ended
       /\ m.evidence.click = "NO" /\ ~m.evidence.installed => ex[r] = "dead" /\ page[r] = "idle"

(* No click follows a verdict, and no failure is an application that is    *)
(* stored or may still be.                                                 *)
Trust(r) ==
  /\ signedOut = "NO" => OneReporter(r)
  /\ attempt[r] \in Over => ex[r] \notin ToClick
  /\ attempt[r] = "CLICK_DISPATCHED" /\ late[r] => ex[r] \notin ToClick /\ page[r] # "leaving"
  /\ attempt[r] = "SUBMISSION_FAILED" => page[r] \notin {"leaving", "stored"}

History(r) == Witness(r) /\ (Trusting => Trust(r))

HistoryInv ==
  /\ PhaseInv
  /\ MaySignOut \/ signedOut = "NO"
  /\ \A r \in Run : History(r)

(* What a step of the ledger may conclude about a run.                     *)
Allowed(r) ==
  /\ attempt'[r] = "CONFIRMED_SUCCESS" /\ source'[r] = "SERVER" =>
       \/ attempt[r] = "CONFIRMED_SUCCESS" /\ source[r] = "SERVER"
       \/ page[r] = "stored" /\ ~egress[r] /\ ex[r] \in Ended
  /\ Trusting =>
       /\ attempt'[r] \in Over => attempt[r] \in Over \/ ex[r] \notin ToClick
       /\ attempt'[r] = "CLICK_DISPATCHED" /\ late'[r] =>
            \/ attempt[r] = "CLICK_DISPATCHED" /\ late[r]
            \/ ex[r] \notin ToClick /\ page[r] # "leaving"
       /\ attempt'[r] = "SUBMISSION_FAILED" => attempt[r] = "SUBMISSION_FAILED" \/ page[r] \notin {"leaving", "stored"}

LEMMA RestingHistory ==
  ASSUME HistoryInv, NEW r \in Run, Rests(r), Allowed(r), SignedStays
  PROVE  History(r)'
<1>1. History(r)
  BY DEF HistoryInv
<1>2. \A m \in Results(r)' : m \in Results(r)
  BY DEF Rests, Results
<1>3. Witness(r)'
  BY <1>1, <1>2 DEF History, Witness, Rests, Allowed
<1>4. Trusting' => Trust(r)'
  BY <1>1, <1>2 DEF History, Trust, OneReporter, Trusting, Rests, Allowed, SignedStays
<1>5. QED
  BY <1>3, <1>4 DEF History

LEMMA UntouchedAllowed ==
  ASSUME NEW r \in Run, UNCHANGED <<attempt[r], source[r], late[r]>>
  PROVE  Allowed(r)
BY DEF Allowed

LEMMA LedgerAloneAllowed ==
  ASSUME HistoryInv, LedgerAlone, NEW r \in Run
  PROVE  Allowed(r)
<1>1. /\ LedgerTypeOK /\ attempt \in [Run -> AttemptState] /\ source \in [Run -> {"NONE", "SERVER", "EXECUTOR", "USER"}]
      /\ late \in [Run -> BOOLEAN] /\ History(r)
  BY DEF HistoryInv, PhaseInv, LedgerInv, LedgerTypeOK
<1>2. ASSUME NEW s \in Run, Authorize(s) \/ AuthorizeSeesSentinel(s) \/ CancelGrant(s)
      PROVE  Allowed(r)
  BY <1>2, UntouchedAllowed DEF Authorize, AuthorizeSeesSentinel, CancelGrant
<1>3. ASSUME NEW s \in Run, CancelAttempt(s)
      PROVE  Allowed(r)
  <2>1. \/ attempt'[r] = attempt[r] /\ source'[r] = source[r] /\ late'[r] = late[r]
        \/ attempt'[r] = "EXPIRED_UNCLICKED"
    BY <1>1, <1>3 DEF CancelAttempt, Record
  <2>2. QED
    BY <2>1 DEF Allowed, Over
<1>4. ASSUME NEW s \in Run, TruthfulResolve(s)
      PROVE  Allowed(r)
  <2>1. CASE s # r
    <3>1. UNCHANGED <<attempt[r], source[r], late[r]>>
      BY <1>1, <1>4, <2>1 DEF TruthfulResolve, Resolve, Record
    <3>2. QED
      BY <3>1, UntouchedAllowed
  <2>2. CASE s = r
    <3>1. /\ source'[r] = "USER" /\ attempt[r] = "SUBMISSION_AMBIGUOUS" /\ attempt'[r] # "CLICK_DISPATCHED"
          /\ attempt'[r] = "SUBMISSION_FAILED" => page[r] \notin {"leaving", "stored"}
      BY <1>1, <1>4, <2>2 DEF TruthfulResolve, Resolve, Record
    <3>2. QED
      BY <3>1 DEF Allowed, Over
  <2>3. QED
    BY <2>1, <2>2
<1>5. ASSUME NEW s \in Run, DeadlinePasses(s)
      PROVE  Allowed(r)
  <2>1. UNCHANGED <<attempt[r], source[r]>>
    BY <1>5 DEF DeadlinePasses, Elapse
  <2>2. late'[r] => late[r] \/ s = r
    BY <1>1, <1>5 DEF DeadlinePasses, Elapse
  <2>3. Trusting /\ s = r /\ attempt[r] = "CLICK_DISPATCHED" => ex[r] \notin ToClick /\ page[r] # "leaving"
    BY <1>5 DEF DeadlinePasses, Trusting, ToClick
  <2>4. QED
    BY <2>1, <2>2, <2>3 DEF Allowed
<1>6. ASSUME NEW j \in Job, HumanApplied(j)
      PROVE  Allowed(r)
  BY <1>6, UntouchedAllowed DEF HumanApplied
<1>7. CASE Controlling \/ ExpireGrants
  BY <1>7, UntouchedAllowed
  DEF Controlling, EngageKillSwitch, LatchSentinel, ReleaseKillSwitch, ResumeAll, Pause, Resume, FlipSentinel, ledgerVars, ExpireGrants
<1>8. CASE ExpireUnclicked
  <2>1. \/ UNCHANGED <<attempt[r], source[r]>> /\ (late'[r] => late[r])
        \/ attempt'[r] = "EXPIRED_UNCLICKED"
    BY <1>1, <1>8 DEF ExpireUnclicked, RecordAll
  <2>2. QED
    BY <2>1 DEF Allowed, Over
<1>9. CASE MarkStaleAmbiguous
  <2>1. \/ UNCHANGED <<attempt[r], source[r]>> /\ (late'[r] => late[r])
        \/ attempt'[r] = "SUBMISSION_AMBIGUOUS" /\ attempt[r] = "CLICK_DISPATCHED" /\ late[r]
    BY <1>1, <1>9 DEF MarkStaleAmbiguous, RecordAll, Overdue
  <2>2. QED
    BY <1>1, <2>1 DEF Allowed, History, Trust
<1>10. QED
  BY <1>2, <1>3, <1>4, <1>5, <1>6, <1>7, <1>8, <1>9 DEF LedgerAlone, Sweeping

LEMMA VerdictSpeaks ==
  ASSUME NEW r, NEW e \in Evidence
  PROVE  /\ Verdict(WithEvents(r, e)) = "CONFIRMED_SUCCESS" => e.success /\ e.restored
         /\ Verdict(WithEvents(r, e)) = "SUBMISSION_FAILED" => (e.click = "NO" /\ ~e.installed) \/ e.failure
         /\ Verdict(WithEvents(r, e)) \in Over
<1> DEFINE f == WithEvents(r, e)
<1>1. /\ f.success = e.success /\ f.restored = e.restored /\ f.failure = e.failure
      /\ f.click = "NO" => e.click = "NO"
      /\ e.installed => f.installed
  BY DEF WithEvents, Evidence
<1> HIDE DEF f
<1>2. /\ Verdict(f) = "CONFIRMED_SUCCESS" => f.success /\ f.restored
      /\ Verdict(f) = "SUBMISSION_FAILED" => (f.click = "NO" /\ ~f.installed) \/ f.failure
      /\ Verdict(f) \in Over
  BY DEF Verdict, Over
<1>3. QED
  BY <1>1, <1>2 DEF f

LEMMA ServingAllowed ==
  ASSUME HistoryInv, NEW r \in Run, Serving(r)
  PROVE  Allowed(r)
<1>1. /\ ExecutorType /\ attempt \in [Run -> AttemptState] /\ source \in [Run -> {"NONE", "SERVER", "EXECUTOR", "USER"}]
      /\ late \in [Run -> BOOLEAN] /\ History(r)
  BY TypeParts DEF HistoryInv, PhaseInv, LedgerInv, LedgerTypeOK
<1>2. UNCHANGED <<attempt, source, late>> => Allowed(r)
  BY UntouchedAllowed
<1>3. CASE ServePreClick(r)
  <2>1. UNCHANGED <<attempt, source, late>> \/ attempt'[r] = "AUTHORIZED"
    BY <1>1, <1>3 DEF ServePreClick, PreClickCommit, PreClickRefuse, PreClickSeesSentinel, Record, lvars, ledgerVars
  <2>2. QED
    BY <1>2, <2>1 DEF Allowed, Over
<1>4. CASE ServeDispatch(r)
  <2>1. \/ UNCHANGED <<attempt, source, late>>
        \/ attempt'[r] = "CLICK_DISPATCHED" /\ ~late'[r]
        \/ attempt'[r] = "EXPIRED_UNCLICKED"
    BY <1>1, <1>4 DEF ServeDispatch, DispatchAcknowledge, DispatchRefuse, Record, lvars, ledgerVars
  <2>2. QED
    BY <1>2, <2>1 DEF Allowed, Over
<1>5. CASE ServeResult(r)
  <2>1. PICK m \in Results(r) : /\ m \in wire
                                /\ IF attempt[r] = "CLICK_DISPATCHED"
                                    THEN ReportResult(r, Verdict(WithEvents(r, m.evidence)))
                                    ELSE UNCHANGED lvars
    BY <1>5 DEF ServeResult, Results
  <2>t. Trusting => signedOut = "NO"
    BY <1>1, <1>5 DEF ServeResult, Accepts, Trusting, ExecutorType
  <2>2. m.evidence \in Evidence
    BY <1>1, <2>1, Requests DEF ExecutorType, Results
  <2>3. CASE ReportResult(r, Verdict(WithEvents(r, m.evidence)))
    <3>1. attempt'[r] = Verdict(WithEvents(r, m.evidence))
      BY <1>1, <2>3 DEF ReportResult, Record
    <3>2. /\ attempt'[r] = "CONFIRMED_SUCCESS" => m.evidence.success /\ m.evidence.restored
          /\ attempt'[r] = "SUBMISSION_FAILED" => (m.evidence.click = "NO" /\ ~m.evidence.installed) \/ m.evidence.failure
          /\ attempt'[r] \in Over
      BY <2>2, <3>1, VerdictSpeaks
    <3>3. QED
      BY <1>1, <2>1, <2>t, <3>2 DEF Allowed, History, Witness, Trust, OneReporter, Over, Ended, ToClick
  <2>4. QED
    BY <1>2, <2>1, <2>3 DEF lvars, ledgerVars
<1>6. QED
  BY <1>3, <1>4, <1>5 DEF Serving

(* A step of the executor at r, seen from r.                               *)
LEMMA ControllerHistory ==
  ASSUME HistoryInv, NEW r \in Run,
         Begin(r) \/ PreClickAnswered(r) \/ CancelInPopup(r) \/ AskDispatch(r) \/ DispatchAnswered(r) \/ GiveUp(r)
  PROVE  History(r)'
<1>1. /\ History(r) /\ ExecutorType /\ UNCHANGED <<attempt[r], source[r], late[r], signedOut>>
      /\ attempt[r] \in Sent => ex[r] \notin Before
      /\ Trusting' => Trusting
  BY TypeParts, QuietSteps DEF HistoryInv, PhaseInv, Knows, Executing, lvars, ledgerVars, Trusting
<1>2. UNCHANGED <<outcome, egress, recovery, page>>
  BY DEF Begin, PreClickAnswered, CancelInPopup, AskDispatch, DispatchAnswered, DispatchConcludes, GiveUp
<1>3. Results(r)' = Results(r)
  BY DEF Begin, PreClickAnswered, CancelInPopup, AskDispatch, DispatchAnswered, DispatchConcludes, GiveUp, Send, Results, Locally
<1>4. ASSUME ex[r] \in Before \cup ToClick, ex'[r] \in Before \cup ToClick \cup Ended,
             ex[r] \in Before \/ ex'[r] \in ToClick => ex'[r] \in Before \cup {"dispatching", "gone"} \/ ex[r] \in ToClick,
             ex'[r] \in ToClick => ex[r] \in ToClick \cup {"ready"},
             disk'[r] = "DISPATCHING" => ex'[r] \notin {"acked", "installed", "armed"}
      PROVE  History(r)'
  <2>1. Witness(r)'
    BY <1>1, <1>2, <1>3, <1>4 DEF History, Witness, Before, ToClick, Ended
  <2>2. Trusting' => Trust(r)'
    BY <1>1, <1>2, <1>3, <1>4 DEF History, Witness, Trust, OneReporter, Before, ToClick, Ended, Sent, Over
  <2>3. QED
    BY <2>1, <2>2 DEF History
<1>5. CASE Begin(r) \/ PreClickAnswered(r) \/ CancelInPopup(r)
  <2>1. ex[r] \in Before /\ ex'[r] \in {"preclick", "ready", "gone"} /\ disk' = disk
    BY <1>1, <1>5 DEF Begin, PreClickAnswered, CancelInPopup, Go, ExecutorType, Before
  <2>2. QED
    BY <1>4, <2>1 DEF Before, ToClick, Ended
<1>6. CASE AskDispatch(r) \/ GiveUp(r)
  <2>1. \/ ex[r] = "ready" /\ ex'[r] = "dispatching"
        \/ ex[r] \in {"preclick", "dispatching"} /\ ex'[r] = "gone"
    BY <1>1, <1>6 DEF AskDispatch, GiveUp, Go, ExecutorType
  <2>2. QED
    BY <1>4, <2>1 DEF Before, ToClick, Ended
<1>7. CASE DispatchAnswered(r)
  <2>1. /\ ex[r] = "dispatching" /\ ex'[r] \in {"acked", "gone"}
        /\ disk'[r] \in {"DISPATCHED_ACK", "none"}
    BY <1>1, <1>7 DEF DispatchAnswered, DispatchConcludes, Go, Persist, ExecutorType
  <2>2. QED
    BY <1>4, <2>1 DEF Before, ToClick, Ended
<1>8. QED
  BY <1>5, <1>6, <1>7

LEMMA ClickHistory ==
  ASSUME HistoryInv, NEW r \in Run,
         InstallEgress(r) \/ Arm(r) \/ Click(r) \/ ControlMissing(r) \/ PageSends(r) \/ PageBlocked(r)
  PROVE  History(r)'
<1>1. /\ History(r) /\ ExecutorType /\ UNCHANGED <<attempt[r], source[r], late[r], signedOut>>
      /\ page[r] # "idle" => attempt[r] \in Sent
      /\ ex[r] = "armed" => attempt[r] \in Sent
      /\ Trusting' => Trusting
  BY TypeParts, QuietSteps DEF HistoryInv, PhaseInv, Knows, Executing, lvars, ledgerVars, Trusting
<1>d. signedOut = "NO" /\ recovery[r] # "none" => ex[r] = "dead"
  BY DEF HistoryInv, PhaseInv, Attended
<1>2. UNCHANGED <<recovery, wire>> /\ Results(r)' = Results(r)
  BY DEF InstallEgress, Arm, Click, ControlMissing, PageSends, PageBlocked, Results
<1>3. CASE InstallEgress(r)
  <2>1. PICK o \in {"NONE", "NO_CLICK", "UNKNOWN"} :
          ex'[r] \in {"installed", "ending"} /\ outcome'[r] = o /\ (ex'[r] = "installed" => o = "NONE")
    BY <1>1, <1>3 DEF InstallEgress, Go, ExecutorType
  <2>2. ex[r] = "acked" /\ UNCHANGED <<disk, page>>
    BY <1>3 DEF InstallEgress
  <2>3. Witness(r)'
    BY <1>1, <1>2, <2>1, <2>2 DEF History, Witness, Before, ToClick, Ended
  <2>4. Trusting' => Trust(r)'
    BY <1>1, <1>2, <2>1, <2>2 DEF History, Trust, OneReporter, ToClick, Ended
  <2>5. QED
    BY <2>3, <2>4 DEF History
<1>4. CASE Arm(r)
  <2>1. ex[r] = "installed" /\ ex'[r] = "armed" /\ disk'[r] = "CLICKED" /\ UNCHANGED <<outcome, egress, page>>
    BY <1>1, <1>4 DEF Arm, Go, Persist, ExecutorType
  <2>2. Witness(r)'
    BY <1>1, <1>2, <2>1 DEF History, Witness, Before, ToClick, Ended
  <2>3. Trusting' => Trust(r)'
    BY <1>1, <1>2, <2>1 DEF History, Trust, OneReporter, ToClick, Ended
  <2>4. QED
    BY <2>2, <2>3 DEF History
<1>5. CASE Click(r)
  <2>1. /\ ex[r] = "armed" /\ ex'[r] \in {"watching", "ending"} /\ page'[r] = "leaving"
        /\ outcome'[r] = outcome[r] \/ outcome'[r] = "NO_CLICK"
        /\ UNCHANGED <<disk, egress>>
    BY <1>1, <1>5 DEF Click, Go, ExecutorType
  <2>2. Witness(r)'
    BY <1>1, <1>2, <2>1 DEF History, Witness, Before, ToClick, Ended
  <2>3. Trusting' => Trust(r)'
    BY <1>1, <1>d, <1>2, <2>1 DEF History, Trust, OneReporter, ToClick, Ended, Over
  <2>4. QED
    BY <2>2, <2>3 DEF History
<1>6. CASE ControlMissing(r)
  <2>1. ex[r] = "armed" /\ ex'[r] = "ending" /\ outcome'[r] = "NO_CLICK" /\ UNCHANGED <<disk, egress, page>>
    BY <1>1, <1>6 DEF ControlMissing, Go, ExecutorType
  <2>2. Witness(r)'
    BY <1>1, <1>2, <2>1 DEF History, Witness, Before, ToClick, Ended
  <2>3. Trusting' => Trust(r)'
    BY <1>1, <1>2, <2>1 DEF History, Trust, OneReporter, ToClick, Ended
  <2>4. QED
    BY <2>2, <2>3 DEF History
<1>7. CASE PageSends(r) \/ PageBlocked(r)
  <2>1. page[r] = "leaving" /\ page'[r] \in {"stored", "rejected", "blocked"} /\ UNCHANGED <<ex, outcome, disk, egress>>
    BY <1>1, <1>7 DEF PageSends, PageBlocked, ExecutorType
  <2>2. Witness(r)'
    BY <1>1, <1>2, <2>1 DEF History, Witness, Before, ToClick, Ended
  <2>3. Trusting' => Trust(r)'
    BY <1>1, <1>2, <2>1 DEF History, Trust, OneReporter, ToClick, Ended, Over
  <2>4. QED
    BY <2>2, <2>3 DEF History
<1>8. QED
  BY <1>3, <1>4, <1>5, <1>6, <1>7

LEMMA EndingHistory ==
  ASSUME HistoryInv, NEW r \in Run,
         WatchEnds(r) \/ Throw(r) \/ Finish(r) \/ Done(r) \/ RecoverRestore(r) \/ RecoverReport(r) \/ RecoverRemove(r)
  PROVE  History(r)'
<1>1. /\ History(r) /\ ExecutorType /\ UNCHANGED <<attempt[r], source[r], late[r], signedOut>>
      /\ Trusting' => Trusting
  BY TypeParts, QuietSteps DEF HistoryInv, PhaseInv, Executing, lvars, ledgerVars, Trusting
<1>d. signedOut = "NO" /\ recovery[r] # "none" => ex[r] = "dead"
  BY DEF HistoryInv, PhaseInv, Attended
<1>2. \A restored \in BOOLEAN :
        Restore(r, restored) => (egress'[r] => egress[r]) /\ (restored => ~egress'[r])
  BY <1>1 DEF Restore, ExecutorType
<1>3. CASE WatchEnds(r)
  <2>1. /\ ex[r] = "watching" /\ ex'[r] = "ending" /\ (egress'[r] => egress[r])
        /\ outcome'[r] = "SUCCESS" => page[r] = "stored"
        /\ outcome'[r] = "FAILURE" => page[r] = "rejected"
        /\ UNCHANGED <<disk, recovery, wire, page>>
    BY <1>1, <1>2, <1>3 DEF WatchEnds, Go, ExecutorType
  <2>2. Witness(r)'
    BY <1>1, <2>1 DEF History, Witness, Results, Before, ToClick, Ended
  <2>3. Trusting' => Trust(r)'
    BY <1>1, <2>1 DEF History, Trust, OneReporter, Results, ToClick, Ended
  <2>4. QED
    BY <2>2, <2>3 DEF History
<1>4. CASE Throw(r)
  <2>1. /\ ex[r] \in {"ready", "installed", "watching", "dispatching"} /\ ex'[r] = "ending" /\ outcome'[r] = "UNKNOWN"
        /\ UNCHANGED <<disk, egress, recovery, wire, page>>
    BY <1>1, <1>4 DEF Throw, Go, ExecutorType
  <2>2. Witness(r)'
    BY <1>1, <2>1 DEF History, Witness, Results, Before, ToClick, Ended
  <2>3. Trusting' => Trust(r)'
    BY <1>1, <2>1 DEF History, Trust, OneReporter, Results, ToClick, Ended
  <2>4. QED
    BY <2>2, <2>3 DEF History
<1>5. CASE Finish(r)
  <2>1. PICK restored \in BOOLEAN :
          Restore(r, restored) /\ wire' \subseteq wire \cup {Report(r, FinishEvidence(outcome[r], restored))}
    BY <1>5, SendBounds DEF Finish, LastRestore, Report
  <2>2. /\ ex[r] = "ending" /\ ex'[r] = "reporting" /\ (egress'[r] => egress[r]) /\ (restored => ~egress'[r])
        /\ UNCHANGED <<outcome, disk, recovery, page>>
    BY <1>1, <1>2, <1>5, <2>1 DEF Finish, Go, ExecutorType
  <2>3. \A m \in Results(r)' :
          \/ m \in Results(r)
          \/ /\ m.evidence.installed
             /\ m.evidence.success => outcome[r] = "SUCCESS"
             /\ m.evidence.restored => restored
             /\ m.evidence.failure => outcome[r] = "FAILURE"
    <3> DEFINE e == FinishEvidence(outcome[r], restored)
    <3>1. \A m \in Results(r)' : m \in Results(r) \/ m.evidence = e
      BY <2>1 DEF Results, Report
    <3>2. e.installed /\ (e.success <=> outcome[r] = "SUCCESS") /\ e.restored = restored /\ (e.failure <=> outcome[r] = "FAILURE")
      BY DEF FinishEvidence
    <3> HIDE DEF e
    <3>3. QED
      BY <3>1, <3>2
  <2>4. Witness(r)'
    BY <1>1, <2>2, <2>3 DEF History, Witness, Before, ToClick, Ended
  <2>5. Trusting' => Trust(r)'
    BY <1>1, <2>2, <2>3 DEF History, Trust, OneReporter, ToClick, Ended
  <2>6. QED
    BY <2>4, <2>5 DEF History
<1>6. CASE Done(r)
  <2>1. /\ ex[r] = "reporting" /\ ex'[r] = "gone" /\ disk'[r] = "none"
        /\ UNCHANGED <<outcome, egress, recovery, wire, page>>
    BY <1>1, <1>6 DEF Done, Go, Persist, ExecutorType
  <2>2. Witness(r)'
    BY <1>1, <2>1 DEF History, Witness, Results, Before, ToClick, Ended
  <2>3. Trusting' => Trust(r)'
    BY <1>1, <2>1 DEF History, Trust, OneReporter, Results, ToClick, Ended
  <2>4. QED
    BY <2>2, <2>3 DEF History
<1>7. CASE RecoverRestore(r)
  <2>1. /\ ex[r] = "dead" \/ signedOut # "NO"
        /\ recovery'[r] = disk[r] /\ (egress'[r] => egress[r])
        /\ UNCHANGED <<ex, outcome, disk, wire, page>>
    BY <1>1, <1>d, <1>2, <1>7 DEF RecoverRestore, LastRestore, ExecutorType
  <2>2. Witness(r)'
    BY <1>1, <2>1 DEF History, Witness, Results
  <2>3. Trusting' => Trust(r)'
    BY <1>1, <2>1 DEF History, Trust, OneReporter, Results
  <2>4. QED
    BY <2>2, <2>3 DEF History
<1>8. CASE RecoverReport(r)
  <2>1. wire' \subseteq wire \cup {Report(r, RecoveryEvidence(recovery[r]))}
    BY <1>8, SendBounds DEF RecoverReport, Report
  <2>2. /\ recovery[r] # "none" /\ recovery'[r] = "reported"
        /\ UNCHANGED <<ex, outcome, disk, egress, page>>
    BY <1>1, <1>8 DEF RecoverReport, Persisted, ExecutorType
  <2>3. \A m \in Results(r)' :
          \/ m \in Results(r)
          \/ /\ ~m.evidence.success /\ ~m.evidence.failure
             /\ ~m.evidence.installed => recovery[r] = "DISPATCHING"
    <3> DEFINE e == RecoveryEvidence(recovery[r])
    <3>1. \A m \in Results(r)' : m \in Results(r) \/ m.evidence = e
      BY <2>1 DEF Results, Report
    <3>2. ~e.success /\ ~e.failure /\ (~e.installed => recovery[r] = "DISPATCHING")
      BY DEF RecoveryEvidence
    <3> HIDE DEF e
    <3>3. QED
      BY <3>1, <3>2
  <2>4. Witness(r)'
    BY <1>1, <2>2, <2>3 DEF History, Witness
  <2>5. Trusting' => Trust(r)'
    BY <1>1, <1>d, <2>2, <2>3 DEF History, Trust, OneReporter, Ended
  <2>6. QED
    BY <2>4, <2>5 DEF History
<1>9. CASE RecoverRemove(r)
  <2>1. /\ recovery[r] = "reported" /\ recovery'[r] = "done" /\ disk'[r] = "none"
        /\ UNCHANGED <<ex, outcome, egress, wire, page>>
    BY <1>1, <1>9 DEF RecoverRemove, Persist, ExecutorType
  <2>2. Witness(r)'
    BY <1>1, <2>1 DEF History, Witness, Results
  <2>3. Trusting' => Trust(r)'
    BY <1>1, <2>1 DEF History, Trust, OneReporter, Results
  <2>4. QED
    BY <2>2, <2>3 DEF History
<1>10. QED
  BY <1>3, <1>4, <1>5, <1>6, <1>7, <1>8, <1>9

LEMMA DeathHistory ==
  ASSUME HistoryInv, NEW r \in Run, WorkerDies
  PROVE  History(r)'
<1>1. History(r) /\ ExecutorType /\ ex[r] \in ExecutorPhase
  BY TypeParts DEF HistoryInv, PhaseInv, ExecutorType
<1>2. /\ UNCHANGED <<attempt, source, late, outcome, disk, egress, wire, page, signedOut>>
      /\ Trusting' => Trusting
      /\ ex'[r] = (IF ex[r] \in Alive THEN "dead" ELSE ex[r])
      /\ recovery'[r] = "listed" \/ recovery'[r] = recovery[r]
  BY <1>1, ListType DEF WorkerDies, ExecutorType, lvars, ledgerVars, Trusting
<1>3. \/ ex'[r] = "dead"
      \/ ex'[r] = ex[r] /\ ex[r] \in {"idle", "gone", "dead"}
  BY <1>1, <1>2 DEF Alive, ExecutorPhase
<1>4. Witness(r)'
  BY <1>1, <1>2, <1>3 DEF History, Witness, Results, Before, ToClick, Ended
<1>5. Trusting' => Trust(r)'
  BY <1>1, <1>2, <1>3 DEF History, Trust, OneReporter, Results, ToClick, Ended
<1>6. QED
  BY <1>4, <1>5 DEF History

LEMMA HistoryStep ==
  ASSUME HistoryInv, [SubmissionNext]_svars
  PROVE  HistoryInv'
<1>1. LedgerTypeOK /\ ExecutorType /\ PhaseInv /\ PhaseInv'
  BY TypeParts, PhaseStep DEF HistoryInv, PhaseInv
<1>2. /\ \A r \in Run : Executing(r) \/ Serving(r) => signedOut' = signedOut
      /\ (LedgerAlone /\ UNCHANGED executorVars) \/ WorkerDies \/ Wipe \/ UNCHANGED svars => signedOut' = signedOut
  BY QuietSteps DEF Serving, ServePreClick, ServeDispatch, ServeResult, Accepts, WorkerDies, Wipe, svars, executorVars
<1>3. SignedStays /\ (MaySignOut \/ signedOut' = "NO")
  BY <1>1, <1>2 DEF PhaseInv, HistoryInv, SubmissionNext, SignOut, SignedStays
<1>4. ASSUME NEW r \in Run
      PROVE  History(r)'
  <2>1. ASSUME NEW s \in Run, Executing(s)
        PROVE  History(r)'
    <3>1. CASE s = r
      BY <2>1, <3>1, ControllerHistory, ClickHistory, EndingHistory DEF Executing
    <3>2. CASE s # r
      <4>1. Rests(r) /\ Allowed(r)
        BY <1>1, <2>1, <3>2, OthersRest, QuietSteps, UntouchedAllowed DEF lvars, ledgerVars
      <4>2. QED
        BY <4>1, <1>3, RestingHistory
    <3>3. QED
      BY <3>1, <3>2
  <2>2. ASSUME NEW s \in Run, Serving(s)
        PROVE  History(r)'
    <3>1. Rests(r)
      BY <1>1, <2>2, ServingRests
    <3>2. Allowed(r)
      <4>1. CASE s = r
        BY <2>2, <4>1, ServingAllowed
      <4>2. CASE s # r
        <5>1. UNCHANGED <<attempt[r], source[r], late[r]>>
          BY <1>1, <2>2, <4>2, ServingSteps, OthersUntouched DEF lvars, ledgerVars
        <5>2. QED
          BY <5>1, UntouchedAllowed
      <4>3. QED
        BY <4>1, <4>2
    <3>3. QED
      BY <3>1, <3>2, <1>3, RestingHistory
  <2>3. CASE LedgerAlone /\ UNCHANGED executorVars
    <3>1. Rests(r)
      BY <2>3 DEF executorVars, Rests
    <3>2. QED
      BY <2>3, <3>1, <1>3, LedgerAloneAllowed, RestingHistory
  <2>4. CASE WorkerDies
    BY <2>4, DeathHistory
  <2>r. CASE SignOut \/ Wipe
    <3>1. History(r) /\ UNCHANGED <<attempt, source, late, ex, outcome, egress, wire, page>>
      BY <2>r DEF SignOut, Wipe, HistoryInv, lvars, ledgerVars
    <3>2. signedOut' # "NO" /\ (Trusting' => Trusting)
      BY <1>1, <2>r DEF SignOut, Wipe, PhaseInv, ExecutorType, Trusting
    <3>3. Witness(r)'
      BY <3>1 DEF History, Witness, Results
    <3>4. Trusting' => Trust(r)'
      BY <3>1, <3>2 DEF History, Trust
    <3>5. QED
      BY <3>3, <3>4 DEF History
  <2>5. CASE UNCHANGED svars
    <3>1. Rests(r) /\ UNCHANGED <<attempt[r], source[r], late[r]>>
      BY <2>5 DEF svars, executorVars, Rests, lvars, ledgerVars
    <3>2. QED
      BY <3>1, <1>3, UntouchedAllowed, RestingHistory
  <2>6. QED
    BY <2>1, <2>2, <2>3, <2>4, <2>r, <2>5 DEF SubmissionNext
<1>5. QED
  BY <1>1, <1>3, <1>4 DEF HistoryInv

LEMMA HistoryInit == SubmissionInit => HistoryInv
<1> SUFFICES ASSUME SubmissionInit
             PROVE  HistoryInv
  OBVIOUS
<1>1. ASSUME NEW r \in Run
      PROVE  History(r)
  BY <1>1 DEF SubmissionInit, LedgerInit, History, Witness, Trust, OneReporter, Results, Before, ToClick, Over
<1>2. QED
  BY <1>1, PhaseInit DEF HistoryInv, SubmissionInit

LEMMA HistoryAlways == SubmissionSpec => []HistoryInv
BY HistoryInit, HistoryStep, PTL DEF SubmissionSpec

(* A submission the server confirmed by itself is stored at the employer,  *)
(* and its tab is closed, whatever failed, died or was recovered.          *)
THEOREM ConfirmedMeansStoredAlways == SubmissionSpec => []ConfirmedMeansStored
<1>1. HistoryInv => ConfirmedMeansStored
  BY DEF HistoryInv, History, Witness, ConfirmedMeansStored
<1>2. QED
  BY <1>1, HistoryAlways, PTL

(* A failure the server concluded by itself stored nothing, provided that  *)
(* clicks are prompt: unless the extension was signed out while the server *)
(* could not be told, and so never if nobody may sign out.                 *)
THEOREM FailedMeansNotStoredAlways ==
  ASSUME Prompt
  PROVE  /\ SubmissionSpec => [](signedOut # "LOCAL" => FailedMeansNotStored)
         /\ ~MaySignOut => (SubmissionSpec => []FailedMeansNotStored)
<1>1. HistoryInv /\ signedOut # "LOCAL" => FailedMeansNotStored
  BY DEF HistoryInv, History, Trust, Trusting, FailedMeansNotStored
<1>2. SubmissionSpec => [](signedOut # "LOCAL" => FailedMeansNotStored)
  BY <1>1, HistoryAlways, PTL
<1>3. ASSUME ~MaySignOut PROVE SubmissionSpec => []FailedMeansNotStored
  <2>1. HistoryInv => FailedMeansNotStored
    BY <1>1, <1>3 DEF HistoryInv
  <2>2. QED
    BY <2>1, HistoryAlways, PTL
<1>4. QED
  BY <1>2, <1>3

LEMMA HistoryKeepsTheJob ==
  ASSUME Prompt, HistoryInv, signedOut # "LOCAL"
  PROVE  StoredKeepsTheJob
<1> SUFFICES ASSUME NEW r \in Run, page[r] = "stored"
             PROVE  intent[r] \in Live
  BY DEF StoredKeepsTheJob
<1>1. attempt[r] \in Sent
  BY DEF HistoryInv, PhaseInv, Knows
<1>2. attempt[r] # "SUBMISSION_FAILED"
  BY DEF HistoryInv, History, Trust, Trusting
<1>3. QED
  BY <1>1, <1>2 DEF HistoryInv, PhaseInv, LedgerInv, IntentMatchesAttempt, OpenAttempt, Sent, Over, Live

(* Under the same provisos an application that the employer has keeps its  *)
(* job from every other run ...                                            *)
THEOREM StoredKeepsTheJobAlways ==
  ASSUME Prompt
  PROVE  /\ SubmissionSpec => [](signedOut # "LOCAL" => StoredKeepsTheJob)
         /\ ~MaySignOut => (SubmissionSpec => []StoredKeepsTheJob)
<1>1. HistoryInv /\ signedOut # "LOCAL" => StoredKeepsTheJob
  BY HistoryKeepsTheJob
<1>2. SubmissionSpec => [](signedOut # "LOCAL" => StoredKeepsTheJob)
  BY <1>1, HistoryAlways, PTL
<1>3. ASSUME ~MaySignOut PROVE SubmissionSpec => []StoredKeepsTheJob
  <2>1. HistoryInv => StoredKeepsTheJob
    BY <1>1, <1>3 DEF HistoryInv
  <2>2. QED
    BY <2>1, HistoryAlways, PTL
<1>4. QED
  BY <1>2, <1>3

(* ... and no employer receives a second application for a job.            *)
THEOREM OneApplicationPerJobAlways ==
  ASSUME Prompt
  PROVE  /\ SubmissionSpec => [](signedOut # "LOCAL" => OneApplicationPerJob)
         /\ ~MaySignOut => (SubmissionSpec => []OneApplicationPerJob)
<1>1. HistoryInv /\ signedOut # "LOCAL" => OneApplicationPerJob
  BY HistoryKeepsTheJob
  DEF StoredKeepsTheJob, OneApplicationPerJob, HistoryInv, PhaseInv, LedgerInv, OneLiveIntentPerJob
<1>2. SubmissionSpec => [](signedOut # "LOCAL" => OneApplicationPerJob)
  BY <1>1, HistoryAlways, PTL
<1>3. ASSUME ~MaySignOut PROVE SubmissionSpec => []OneApplicationPerJob
  <2>1. HistoryInv => OneApplicationPerJob
    BY <1>1, <1>3 DEF HistoryInv
  <2>2. QED
    BY <2>1, HistoryAlways, PTL
<1>4. QED
  BY <1>2, <1>3

(* The composition keeps the ledger's own promise: seen through its        *)
(* intents and attempts, every history is one of SubmitOnce.               *)
THEOREM SubmissionSubmitsOnce == SubmissionSpec => SubmitsOnce
<1>1. SubmissionInit => Promise!Init
  BY StageInitially DEF SubmissionInit
<1>2. PhaseInv /\ PhaseInv' /\ [SubmissionNext]_svars => [Promise!Next]_Stage
  <2> SUFFICES ASSUME PhaseInv, PhaseInv', [SubmissionNext]_svars
               PROVE  [Promise!Next]_Stage
    OBVIOUS
  <2>1. LedgerInv /\ LedgerInv' /\ [LedgerNext]_lvars
    BY TypeParts, StepOfLedger DEF PhaseInv
  <2>2. QED
    BY <2>1, LedgerStep
<1>3. QED
  BY <1>1, <1>2, PhaseAlways, PTL DEF SubmissionSpec, SubmitsOnce, Promise!Spec

=============================================================================

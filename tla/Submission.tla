----------------------------- MODULE Submission -----------------------------
(***************************************************************************)
(* One browser extension submitting authorized applications against the    *)
(* ledger of SubmissionLedger: the SubmitController of each filled run     *)
(* (extension/src/submit/submit-controller.ts), its record in              *)
(* chrome.storage.session, the SUBMIT egress rules of its tab              *)
(* (extension/src/submit/egress.ts), the HTTP requests between the two,    *)
(* and the employer's page behind the one click.                           *)
(*                                                                         *)
(* The controllers share one service worker, which may die at any step and *)
(* starts again by recovering every stored record.  A request may be       *)
(* answered, or its sender may give up on it while the server still        *)
(* processes it later.                                                     *)
(***************************************************************************)
EXTENDS SubmissionLedger, Naturals

CONSTANTS
  MaxFaults,    \* bound on steps in which something fails: the worker dies, a request,
                \* an event or an answer is lost, rules are not updated, code throws
  WithControls, \* whether kill switch, sentinel and pause are exercised
  MaySignOut,   \* whether the person may sign the extension out
  Prompt        \* whether an executor clicks within its dispatch deadline

ASSUME SubmissionAssumption ==
  /\ MaxFaults \in Nat
  /\ WithControls \in BOOLEAN /\ MaySignOut \in BOOLEAN /\ Prompt \in BOOLEAN

VARIABLES
  ex,        \* what the run's SubmitController is doing
  outcome,   \* what its watch concluded
  disk,      \* phase of its record in chrome.storage.session
  egress,    \* the tab's SUBMIT allow rules are installed
  recovery,  \* progress of recoverSubmitAfterRestart on the run's record
  wire,      \* requests the server has not processed
  reply,     \* the server's answer to the controller's pre-click or dispatch
  events,    \* submit_events the server recorded for the attempt
  page,      \* what became of the click at the employer
  signedOut, \* NO, LOCAL (the revocation call failed) or REVOKED
  wipe,      \* no, pending while the listeners of a sign-out run, done
  unrestored,\* history: the last restoreTotal of the run was not verified
  faults     \* faults so far

executorVars == <<ex, outcome, disk, egress, recovery, wire, reply, events, page, signedOut, wipe, unrestored, faults>>
svars == <<lvars, executorVars>>

-----------------------------------------------------------------------------

ExecutorPhase == {"idle", "preclick", "ready", "dispatching", "acked", "installed", "armed",
                  "watching", "ending", "reporting", "gone", "dead"}
Alive == ExecutorPhase \ {"idle", "gone", "dead"}
Outcome == {"NONE", "NO_CLICK", "UNKNOWN", "SUCCESS", "FAILURE", "CONTENT", "NO_SIGNAL"}
Persisted == {"DISPATCHING", "DISPATCHED_ACK", "CLICKED"}

Request ==
  [kind : {"preclick", "dispatch"}, run : Run] \cup [kind : {"result"}, run : Run, evidence : Evidence]

SubmissionTypeOK ==
  /\ LedgerTypeOK
  /\ ex \in [Run -> ExecutorPhase]
  /\ outcome \in [Run -> Outcome]
  /\ disk \in [Run -> Persisted \cup {"none"}]
  /\ egress \in [Run -> BOOLEAN]
  /\ recovery \in [Run -> Persisted \cup {"none", "listed", "reported", "done"}]
  /\ wire \subseteq Request
  /\ reply \in [Run -> {"none", "yes", "no"}]
  /\ events \in [Run -> SUBSET {"EGRESS_INSTALLED", "CLICK_PERFORMED"}]
  /\ page \in [Run -> {"idle", "leaving", "blocked", "rejected", "stored"}]
  /\ signedOut \in {"NO", "LOCAL", "REVOKED"}
  /\ wipe \in {"no", "pending", "done"}
  /\ unrestored \in [Run -> BOOLEAN]
  /\ faults \in 0 .. MaxFaults

SubmissionInit ==
  /\ LedgerInit
  /\ ex = [r \in Run |-> "idle"]
  /\ outcome = [r \in Run |-> "NONE"]
  /\ disk = [r \in Run |-> "none"]
  /\ egress = [r \in Run |-> FALSE]
  /\ recovery = [r \in Run |-> "none"]
  /\ wire = {}
  /\ reply = [r \in Run |-> "none"]
  /\ events = [r \in Run |-> {}]
  /\ page = [r \in Run |-> "idle"]
  /\ signedOut = "NO"
  /\ wipe = "no"
  /\ unrestored = [r \in Run |-> FALSE]
  /\ faults = 0

-----------------------------------------------------------------------------
(* Shapes of a step.                                                       *)

Go(r, phase) == ex' = [ex EXCEPT ![r] = phase]

Persist(r, phase) == disk' = [disk EXCEPT ![r] = phase]

(* The extension has a credential and the server takes it.                 *)
Connected == signedOut # "REVOKED" /\ wipe # "done"

Send(request) == wire' = IF Connected THEN wire \cup {request} ELSE wire

Fault ==
  /\ faults < MaxFaults
  /\ faults' = faults + 1

CountFault(failed) == IF failed THEN Fault ELSE UNCHANGED faults

(* A step of the extension that leaves the server untouched ...            *)
Quietly == UNCHANGED <<lvars, signedOut, wipe>>

(* ... and in which nothing fails.                                         *)
Locally == Quietly /\ UNCHANGED <<unrestored, faults>>

(* A submit_event reaches the server or not; the controller goes on anyway.*)
Emit(r, event, recorded) ==
  /\ recorded => Connected
  /\ events' = [events EXCEPT ![r] = IF recorded THEN @ \cup {event} ELSE @]

(* Without a credential nothing has to go wrong for an event to be lost.   *)
Lost(recorded) == Connected /\ ~recorded

-----------------------------------------------------------------------------
(* The controller, up to the click.                                        *)

(* routeSubmitBeat: the heartbeat delivers an ISSUED, unexpired grant and  *)
(* the controller asks for the pre-click.                                  *)
Begin(r) ==
  /\ ex[r] = "idle" /\ grant[r] = "ISSUED" /\ ~late[r] /\ Connected
  /\ Go(r, "preclick")
  /\ Send([kind |-> "preclick", run |-> r])
  /\ UNCHANGED <<outcome, disk, egress, recovery, reply, events, page>>
  /\ Locally

PreClickAnswered(r) ==
  /\ ex[r] = "preclick" /\ reply[r] # "none"
  /\ Go(r, IF reply[r] = "yes" THEN "ready" ELSE "gone")
  /\ reply' = [reply EXCEPT ![r] = "none"]
  /\ UNCHANGED <<outcome, disk, egress, recovery, wire, events, page>>
  /\ Locally

(* Cancelled from the popup in the cancel window; the server may hear of   *)
(* it (CancelAttempt) or not.                                              *)
CancelInPopup(r) ==
  /\ ex[r] = "ready"
  /\ Go(r, "gone")
  /\ UNCHANGED <<outcome, disk, egress, recovery, wire, reply, events, page>>
  /\ Locally

(* Persisted before the server is asked.                                   *)
AskDispatch(r) ==
  /\ ex[r] = "ready"
  /\ Go(r, "dispatching")
  /\ Persist(r, "DISPATCHING")
  /\ Send([kind |-> "dispatch", run |-> r])
  /\ UNCHANGED <<outcome, egress, recovery, reply, events, page>>
  /\ Locally

DispatchConcludes(r, phase, record) ==
  /\ ex[r] = "dispatching" /\ reply[r] # "none"
  /\ Go(r, phase)
  /\ Persist(r, record)
  /\ reply' = [reply EXCEPT ![r] = "none"]
  /\ UNCHANGED <<outcome, egress, recovery, wire, events, page>>
  /\ Locally

(* Seeded fault: the answer is not looked at.                              *)
DispatchAnsweredAnyway(r) == DispatchConcludes(r, "acked", "DISPATCHED_ACK")

(* Seeded fault: the record is removed either way.                         *)
DispatchAnsweredForgets(r) ==
  \/ reply[r] = "yes" /\ DispatchConcludes(r, "acked", "none")
  \/ reply[r] = "no" /\ DispatchConcludes(r, "gone", "none")

DispatchAnswered(r) ==
  \/ reply[r] = "yes" /\ DispatchConcludes(r, "acked", "DISPATCHED_ACK")
  \/ reply[r] = "no" /\ DispatchConcludes(r, "gone", "none")

(* A request fails at the extension, processed or not: a dispatch whose    *)
(* reply is lost counts as not dispatched.                                 *)
GiveUp(r) ==
  /\ ex[r] \in {"preclick", "dispatching"}
  /\ CountFault(Connected)
  /\ Go(r, "gone")
  /\ Persist(r, "none")
  /\ UNCHANGED <<outcome, egress, recovery, wire, reply, events, page, unrestored>>
  /\ Quietly

(* The certified egress is installed and read back exactly, or that fails  *)
(* (or throws) with or without the allow rules in place.                   *)
InstallEgress(r) ==
  /\ ex[r] = "acked"
  /\ \E installed, recorded \in BOOLEAN, o \in {"NONE", "NO_CLICK", "UNKNOWN"} :
       /\ o = "NONE" => installed
       /\ egress' = [egress EXCEPT ![r] = installed]
       /\ Go(r, IF o = "NONE" THEN "installed" ELSE "ending")
       /\ outcome' = [outcome EXCEPT ![r] = o]
       /\ Emit(r, "EGRESS_INSTALLED", recorded)
       /\ CountFault(o # "NONE" \/ Lost(recorded))
  /\ UNCHANGED <<disk, recovery, wire, reply, page, unrestored>>
  /\ Quietly

Arm(r) ==
  /\ ex[r] = "installed"
  /\ Go(r, "armed")
  /\ Persist(r, "CLICKED")
  /\ UNCHANGED <<outcome, egress, recovery, wire, reply, events, page>>
  /\ Locally

(* The page carries out the one click; its answer may be lost with the     *)
(* page, and then the controller believes that it did not click.           *)
Click(r) ==
  /\ ex[r] = "armed"
  /\ page' = [page EXCEPT ![r] = "leaving"]
  /\ \E answered, recorded \in BOOLEAN :
       /\ Go(r, IF answered THEN "watching" ELSE "ending")
       /\ outcome' = [outcome EXCEPT ![r] = IF answered THEN @ ELSE "NO_CLICK"]
       /\ Emit(r, "CLICK_PERFORMED", answered /\ recorded)
       /\ CountFault(~answered \/ Lost(recorded))
  /\ UNCHANGED <<disk, egress, recovery, wire, reply, unrestored>>
  /\ Quietly

ControlMissing(r) ==
  /\ ex[r] = "armed"
  /\ Go(r, "ending")
  /\ outcome' = [outcome EXCEPT ![r] = "NO_CLICK"]
  /\ UNCHANGED <<disk, egress, recovery, wire, reply, events, page>>
  /\ Locally

-----------------------------------------------------------------------------
(* The employer.  The one-shot allowance lets one submission leave the     *)
(* page, and only through the open egress.                                 *)

PageSends(r) ==
  /\ page[r] = "leaving" /\ egress[r]
  /\ \E fate \in {"stored", "rejected"} : page' = [page EXCEPT ![r] = fate]
  /\ UNCHANGED <<ex, outcome, disk, egress, recovery, wire, reply, events>>
  /\ Locally

PageBlocked(r) ==
  /\ page[r] = "leaving"
  /\ page' = [page EXCEPT ![r] = "blocked"]
  /\ UNCHANGED <<ex, outcome, disk, egress, recovery, wire, reply, events>>
  /\ Locally

-----------------------------------------------------------------------------
(* The watch, the report, and recovery.                                    *)

(* restoreTotal, verified or not ...                                       *)
Restore(r, restored) == egress' = [egress EXCEPT ![r] = @ /\ ~restored]

(* ... as whoever ends the attempt then reports.                           *)
LastRestore(r, restored) ==
  /\ Restore(r, restored)
  /\ unrestored' = [unrestored EXCEPT ![r] = ~restored]
  /\ CountFault(~restored)

(* The certified signals tell what the employer did; an edit or a changed  *)
(* page after a challenge, at which TOTAL is restored at once, or the end  *)
(* of the window tell nothing.                                             *)
WatchEnds(r) ==
  /\ ex[r] = "watching"
  /\ \E o \in {"CONTENT", "NO_SIGNAL"} \cup (IF page[r] = "stored" THEN {"SUCCESS"} ELSE {})
                                       \cup (IF page[r] = "rejected" THEN {"FAILURE"} ELSE {}) :
       /\ outcome' = [outcome EXCEPT ![r] = o]
       /\ \E restored \in BOOLEAN :
            /\ Restore(r, o = "CONTENT" /\ restored)
            /\ CountFault(o = "CONTENT" /\ ~restored)
  /\ Go(r, "ending")
  /\ UNCHANGED <<disk, recovery, wire, reply, events, page, unrestored>>
  /\ Quietly

(* An exception once dispatch has begun (storage fails, or the page cannot *)
(* be observed): run() still finishes, with an unknown click.              *)
Throw(r) ==
  /\ \/ ex[r] \in {"ready", "installed", "watching"}
     \/ ex[r] = "dispatching" /\ reply[r] # "none"
  /\ Fault
  /\ outcome' = [outcome EXCEPT ![r] = "UNKNOWN"]
  /\ Go(r, "ending")
  /\ reply' = [reply EXCEPT ![r] = "none"]
  /\ UNCHANGED <<disk, egress, recovery, wire, events, page, unrestored>>
  /\ Quietly

FinishEvidence(o, restored) ==
  [click |-> IF o = "NO_CLICK" THEN "NO" ELSE IF o = "UNKNOWN" THEN "UNKNOWN" ELSE "YES",
   installed |-> TRUE, restored |-> restored,
   success |-> o = "SUCCESS", failure |-> o = "FAILURE", content |-> o = "CONTENT"]

Finish(r) ==
  /\ ex[r] = "ending"
  /\ \E restored \in BOOLEAN :
       /\ LastRestore(r, restored)
       /\ Send([kind |-> "result", run |-> r, evidence |-> FinishEvidence(outcome[r], restored)])
  /\ Go(r, "reporting")
  /\ UNCHANGED <<outcome, disk, recovery, reply, events, page>>
  /\ Quietly

(* The result was answered, or the request failed.                         *)
Done(r) ==
  /\ ex[r] = "reporting"
  /\ Go(r, "gone")
  /\ Persist(r, "none")
  /\ UNCHANGED <<outcome, egress, recovery, wire, reply, events, page>>
  /\ Locally

(* recoverSubmitAfterRestart lists the stored records, then takes them up  *)
(* one after the other, each as it then stands.                            *)
ListRecords ==
  recovery' = [r \in Run |-> IF disk[r] # "none" THEN "listed" ELSE recovery[r]]

(* The service worker dies with every controller in it; rules and storage  *)
(* outlive it, and so do the requests it sent.  A controller that was      *)
(* running is gone for good; an idle run may be filled after the restart.  *)
(* The restarted worker recovers; a sign-out not carried out is forgotten. *)
WorkerDies ==
  /\ Fault
  /\ ex' = [r \in Run |-> IF ex[r] \in Alive THEN "dead" ELSE ex[r]]
  /\ ListRecords
  /\ reply' = [r \in Run |-> "none"]
  /\ wipe' = IF wipe = "pending" THEN "no" ELSE wipe
  /\ UNCHANGED <<lvars, outcome, disk, egress, wire, events, page, signedOut, unrestored>>

RecoverRestore(r) ==
  /\ recovery[r] = "listed" /\ disk[r] # "none"
  /\ \E restored \in BOOLEAN : LastRestore(r, restored)
  /\ recovery' = [recovery EXCEPT ![r] = disk[r]]
  /\ UNCHANGED <<ex, outcome, disk, wire, reply, events, page>>
  /\ Quietly

(* Without a success signal no verdict looks at "restored".                *)
RecoveryEvidence(phase) ==
  [click |-> IF phase = "CLICKED" THEN "UNKNOWN" ELSE "NO",
   installed |-> phase # "DISPATCHING", restored |-> FALSE,
   success |-> FALSE, failure |-> FALSE, content |-> FALSE]

RecoverReport(r) ==
  /\ recovery[r] \in Persisted
  /\ Send([kind |-> "result", run |-> r, evidence |-> RecoveryEvidence(recovery[r])])
  /\ recovery' = [recovery EXCEPT ![r] = "reported"]
  /\ UNCHANGED <<ex, outcome, disk, egress, reply, events, page>>
  /\ Locally

RecoverRemove(r) ==
  /\ recovery[r] = "reported"
  /\ Persist(r, "none")
  /\ recovery' = [recovery EXCEPT ![r] = "done"]
  /\ UNCHANGED <<ex, outcome, egress, wire, reply, events, page>>
  /\ Locally

(* signOut, or the news that the device is revoked.  The revocation is     *)
(* best effort, and the recovery that follows stops no controller ...      *)
SignOut ==
  /\ MaySignOut /\ wipe = "no"
  /\ wipe' = "pending"
  /\ IF signedOut = "NO" THEN signedOut' \in {"LOCAL", "REVOKED"} ELSE UNCHANGED signedOut
  /\ ListRecords
  /\ UNCHANGED <<lvars, ex, outcome, disk, egress, wire, reply, events, page, unrestored, faults>>

(* ... and when it has handled what it listed, both storages are cleared:  *)
(* the credential goes, and every record a controller wrote in between.    *)
Wipe ==
  /\ wipe = "pending"
  /\ \A r \in Run : recovery[r] \in {"none", "done"} \/ (recovery[r] = "listed" /\ disk[r] = "none")
  /\ wipe' = "done"
  /\ disk' = [r \in Run |-> "none"]
  /\ UNCHANGED <<lvars, ex, outcome, egress, recovery, wire, reply, events, page, signedOut, unrestored, faults>>

-----------------------------------------------------------------------------
(* The server processes a request: one transaction of the ledger.          *)

Accepts(request) ==
  /\ request \in wire /\ signedOut # "REVOKED"
  /\ wire' = wire \ {request}
  /\ UNCHANGED <<ex, outcome, disk, egress, recovery, events, page, signedOut, wipe, unrestored, faults>>

Answer(r, yes) ==
  reply' = [reply EXCEPT ![r] = IF ex[r] \in {"preclick", "dispatching"} THEN (IF yes THEN "yes" ELSE "no") ELSE @]

ServePreClick(r) ==
  /\ Accepts([kind |-> "preclick", run |-> r])
  /\ \/ PreClickCommit(r) /\ Answer(r, TRUE)
     \/ PreClickRefuse(r) /\ Answer(r, FALSE)
     \/ PreClickSeesSentinel(r) /\ Answer(r, FALSE)
     \/ (~Consumable(r) \/ paused) /\ UNCHANGED lvars /\ Answer(r, FALSE)

ServeDispatch(r) ==
  /\ Accepts([kind |-> "dispatch", run |-> r])
  /\ \/ DispatchAcknowledge(r) /\ Answer(r, TRUE)
     \/ DispatchRefuse(r) /\ Answer(r, FALSE)
     \/ attempt[r] # "AUTHORIZED" /\ UNCHANGED lvars /\ Answer(r, FALSE)

(* _result_evidence: every adverse fact is also taken from the events.     *)
WithEvents(r, e) ==
  [e EXCEPT !.click = IF @ = "NO" /\ "CLICK_PERFORMED" \in events[r] THEN "YES" ELSE @,
            !.installed = @ \/ "EGRESS_INSTALLED" \in events[r]]

ServeResult(r) ==
  \E request \in {m \in wire : m.kind = "result" /\ m.run = r} :
    /\ Accepts(request)
    /\ UNCHANGED reply
    /\ IF attempt[r] = "CLICK_DISPATCHED"
         THEN ReportResult(r, Verdict(WithEvents(r, request.evidence)))
         ELSE UNCHANGED lvars   \* result_already_recorded

-----------------------------------------------------------------------------
(* The rest of the ledger, with what the world guarantees.                 *)

(* The person answers an ambiguous attempt truthfully, once the page has   *)
(* settled.                                                                *)
TruthfulResolve(r) == page[r] # "leaving" /\ Resolve(r, page[r] = "stored")

(* Under Prompt the dispatch deadline (the scheduler's result timeout, ten *)
(* minutes by default) does not pass while a click may still come.         *)
DeadlinePasses(r) ==
  /\ Elapse(r)
  /\ Prompt /\ attempt[r] = "CLICK_DISPATCHED" =>
       /\ ex[r] \notin {"dispatching", "acked", "installed", "armed"}
       /\ page[r] # "leaving"

LedgerAlone ==
  \/ \E r \in Run : \/ Authorize(r)
                    \/ AuthorizeSeesSentinel(r)
                    \/ CancelGrant(r)
                    \/ CancelAttempt(r)
                    \/ TruthfulResolve(r)
                    \/ DeadlinePasses(r)
  \/ \E j \in Job : HumanApplied(j)
  \/ Sweeping
  \/ WithControls /\ Controlling

Executing(r) ==
  \/ Begin(r) \/ PreClickAnswered(r) \/ CancelInPopup(r) \/ AskDispatch(r) \/ DispatchAnswered(r)
  \/ GiveUp(r) \/ InstallEgress(r) \/ Arm(r) \/ Click(r) \/ ControlMissing(r)
  \/ PageSends(r) \/ PageBlocked(r) \/ WatchEnds(r) \/ Throw(r) \/ Finish(r) \/ Done(r)
  \/ RecoverRestore(r) \/ RecoverReport(r) \/ RecoverRemove(r)

Serving(r) == ServePreClick(r) \/ ServeDispatch(r) \/ ServeResult(r)

SubmissionNext ==
  \/ LedgerAlone /\ UNCHANGED executorVars
  \/ \E r \in Run : Executing(r) \/ Serving(r)
  \/ WorkerDies
  \/ SignOut
  \/ Wipe

SubmissionSpec == SubmissionInit /\ [][SubmissionNext]_svars

-----------------------------------------------------------------------------
(* Properties.                                                             *)

(* The employer's button is pressed only for an attempt whose dispatch the *)
(* server recorded first, however the worker died, was recovered or lost   *)
(* replies in between.  (J3)                                               *)
ClickOnlyAfterDispatch ==
  \A r \in Run : page[r] # "idle" =>
    attempt[r] \in {"CLICK_DISPATCHED", "SUBMISSION_AMBIGUOUS", "SUBMISSION_FAILED", "CONFIRMED_SUCCESS"}

(* When the server itself concludes that nothing was submitted, the        *)
(* employer has stored nothing, whichever of the controller and the        *)
(* recovery reported and whatever was lost on the way.  (J7)               *)
FailedMeansNotStored ==
  \A r \in Run : attempt[r] = "SUBMISSION_FAILED" /\ source[r] = "SERVER" => page[r] # "stored"

(* When the server itself concludes that the application was submitted,    *)
(* the employer has it and the tab is back under TOTAL.  (J5, J7)          *)
ConfirmedMeansStored ==
  \A r \in Run : attempt[r] = "CONFIRMED_SUCCESS" /\ source[r] = "SERVER" =>
    page[r] = "stored" /\ ~egress[r]

(* From the moment the employer stores an application its job stays taken: *)
(* no verdict, sweep, recovery or truthful answer of the person gives it   *)
(* to another run.  (J8)                                                   *)
StoredKeepsTheJob == \A r \in Run : page[r] = "stored" => intent[r] \in Live

(* What the whole machinery is for: an employer never receives two         *)
(* applications for one job, although two workspaces may both try.  (J8)   *)
OneApplicationPerJob ==
  \A r, s \in Run : JobOf[r] = JobOf[s] /\ page[r] = "stored" /\ page[s] = "stored" => r = s

(* Allow rules outlive the worker, so whoever may have to close them must  *)
(* be able to find them: while nobody signs out a record of the attempt is *)
(* on disk for as long as they are installed, whenever the worker dies,    *)
(* unless the last restoring failed and was reported so.  Once somebody    *)
(* signs out, whose recovery and wipe remove the record of a running       *)
(* attempt, its controller alone attends to them: alive or dead.  (J4, J5) *)
EgressAttended ==
  \A r \in Run : egress[r] /\ disk[r] = "none" =>
    unrestored[r] \/ (signedOut # "NO" /\ ex[r] \in Alive \cup {"dead"})
=============================================================================

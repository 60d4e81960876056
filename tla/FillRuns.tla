------------------------------ MODULE FillRuns ------------------------------
(***************************************************************************)
(* Filling an application form: the run on the server (webapp/services/    *)
(* fill_runs.py, fill_actions.py), the controller in the service worker    *)
(* that drives it (extension/src/fill/run-controller.ts), the form it      *)
(* writes to and the network rules that keep the page from sending         *)
(* anything (fill/quarantine.ts).  A run has a tab of its own.  Its        *)
(* controller has one request under way, beside heartbeats and detections; *)
(* a request and its answer may each be lost.  The rules of a browser are  *)
(* one set for all its tabs.                                               *)
(***************************************************************************)
EXTENDS Integers, FiniteSets

CONSTANTS Run, Workspace, Browser, WsOf, BrowserOf, NoRun,
          Actions,     \* how many fields the plan writes
          MaxFaults    \* bound: lost requests and beats, deaths of a worker, stalls,
                       \* detections and closed tabs

ASSUME FillAssumption ==
  /\ WsOf \in [Run -> Workspace]
  /\ BrowserOf \in [Run -> Browser]
  /\ NoRun \notin Run
  /\ Actions \in Nat \ {0}
  /\ MaxFaults \in Nat

VARIABLES
  (* the server *)
  state,      \* the latest event of a run
  slots,      \* active_fill_runs
  lease,      \* fill_run_leases: none, live, late
  grant,      \* the FILL grant: none, issued, gone (revoked)
  done,       \* how many actions have a successful outcome
  ticket,     \* the next action: none, issued (intent and envelope), failed, unknown
  (* the extension *)
  ctl,        \* what the controller awaits
  wire,       \* its request under way
  answer,
  report,     \* a detection or a closed tab: under way, or answered
  aborted, heart,
  key, mark,  \* chrome.storage.session: fill:run:, and the action of fill:action:, 0 for none
  rec,        \* what a restarted worker reports about the run
  (* the browser *)
  rules,      \* the session rules of the fill ids
  open, page, written,
  faults

server == <<state, slots, lease, grant, done, ticket>>
memory == <<ctl, answer, aborted, heart>>
stored == <<key, mark, rec>>
browser == <<rules, open, page, written>>
vars == <<server, memory, wire, report, stored, browser, faults>>

Working == {"OBSERVING", "REVALIDATING", "QUARANTINE_ACTIVE", "FILLING", "FINAL_VALIDATING"}
(* FILL_STOPPED stands for PLAN_NEEDS_REVIEW and UNSUPPORTED_FORM too.      *)
Ended == {"FILL_STOPPED", "FILLED_AWAITING_SUBMISSION", "FILLED_CONTEXT_UNVERIFIED"}
Request == {"start", "initial", "reset", "lost", "revalidate", "total", "grant", "intent",
            "intentUnverified", "outcomeOk", "outcomeBad", "unknown", "final", "stop", "giveUp"}
Idle == {"off", "unstarted", "over", "filled", "dead"}
Between == {"preloading", "totalling", "ready", "persisted", "executing"}
NoRules == [kind |-> "NONE", tab |-> NoRun]

FillTypeOK ==
  /\ state \in [Run -> {"NONE"} \cup Working \cup Ended]
  /\ slots \subseteq Run
  /\ lease \in [Run -> {"none", "live", "late"}]
  /\ grant \in [Run -> {"none", "issued", "gone"}]
  /\ done \in [Run -> 0 .. Actions]
  /\ ticket \in [Run -> {"none", "issued", "failed", "unknown"}]
  /\ ctl \in [Run -> Idle \cup Between \cup Request]
  /\ wire \in [Run -> {"none"} \cup Request]
  /\ answer \in [Run -> {"none", "yes", "ended", "filled", "error"}]
  /\ report \in [Run -> {"none", "detected", "closed", "heard", "remove", "spent"}]
  /\ aborted \in [Run -> BOOLEAN] /\ heart \in [Run -> BOOLEAN] /\ key \in [Run -> BOOLEAN]
  /\ mark \in [Run -> 0 .. Actions]
  /\ rec \in [Run -> {"none", "unknown", "stop"}]
  /\ rules \in [Browser -> [kind : {"NONE", "PRELOAD", "TOTAL"}, tab : Run \cup {NoRun}]]
  /\ open \in [Run -> BOOLEAN]
  /\ page \in [Run -> {"idle", "running", "good", "bad", "threw"}]
  /\ written \in [Run -> Nat]
  /\ faults \in 0 .. MaxFaults

Init ==
  /\ state = [r \in Run |-> "NONE"]
  /\ slots = {}
  /\ lease = [r \in Run |-> "none"]
  /\ grant = [r \in Run |-> "none"]
  /\ done = [r \in Run |-> 0]
  /\ ticket = [r \in Run |-> "none"]
  /\ ctl = [r \in Run |-> "off"]
  /\ wire = [r \in Run |-> "none"]
  /\ answer = [r \in Run |-> "none"]
  /\ report = [r \in Run |-> "none"]
  /\ aborted = [r \in Run |-> FALSE]
  /\ heart = [r \in Run |-> FALSE]
  /\ key = [r \in Run |-> FALSE]
  /\ mark = [r \in Run |-> 0]
  /\ rec = [r \in Run |-> "none"]
  /\ rules = [b \in Browser |-> NoRules]
  /\ open = [r \in Run |-> TRUE]
  /\ page = [r \in Run |-> "idle"]
  /\ written = [r \in Run |-> 0]
  /\ faults = 0

Fault == faults < MaxFaults /\ faults' = faults + 1

-----------------------------------------------------------------------------
(* The server.  Each operation is one immediate transaction; one that      *)
(* raises leaves nothing behind.                                           *)

Active(r) == state[r] \in Working
Terminal(r) == state[r] \in Ended

(* Seeded fault: a run that ends keeps its grant.                          *)
FinishKeepsGrant(r, event) ==
  /\ state' = [state EXCEPT ![r] = event]
  /\ slots' = slots \ {r}
  /\ lease' = IF event = "FILL_STOPPED" THEN [lease EXCEPT ![r] = "none"] ELSE lease
  /\ UNCHANGED grant

(* finish_in_transaction.                                                  *)
Finish(r, event) ==
  /\ state' = [state EXCEPT ![r] = event]
  /\ slots' = slots \ {r}
  /\ IF event = "FILL_STOPPED"
     THEN /\ lease' = [lease EXCEPT ![r] = "none"]
          /\ grant' = [grant EXCEPT ![r] = IF @ = "issued" THEN "gone" ELSE @]
     ELSE UNCHANGED <<lease, grant>>

Stop(r) == Finish(r, "FILL_STOPPED")

(* Seeded fault: only filled runs are looked at.                           *)
LateFilled == {r \in Run : lease[r] = "late" /\ ~Active(r)}

(* expired_leases.                                                         *)
Late == {r \in Run : lease[r] = "late"}

(* _reap_one, for the runs of R: a filled run is no longer verified, one    *)
(* that works stops.                                                       *)
ReapedState(r) == IF Active(r) THEN "FILL_STOPPED" ELSE "FILLED_CONTEXT_UNVERIFIED"
ReapedGrant(r) == IF Active(r) /\ grant[r] = "issued" THEN "gone" ELSE grant[r]

Reaps(R) ==
  /\ state' = [r \in Run |-> IF r \in R THEN ReapedState(r) ELSE state[r]]
  /\ grant' = [r \in Run |-> IF r \in R THEN ReapedGrant(r) ELSE grant[r]]
  /\ lease' = [r \in Run |-> IF r \in R THEN "none" ELSE lease[r]]
  /\ slots' = slots \ R

(* reap_expired_leases, a sweep of the scheduler.                          *)
Reap ==
  /\ Late # {}
  /\ Reaps(Late)
  /\ UNCHANGED <<done, ticket, memory, wire, report, stored, browser, faults>>

(* A request is handled and answered, unless nobody awaits the answer.     *)
Answers(r, a) ==
  /\ wire' = [wire EXCEPT ![r] = "none"]
  /\ answer' = [answer EXCEPT ![r] = IF ctl[r] = "dead" THEN "none" ELSE a]

Handles(r, request) ==
  /\ wire[r] = request
  /\ UNCHANGED <<ctl, aborted, heart, report, stored, browser, faults>>

Refuses(r) == Answers(r, "error") /\ UNCHANGED server
Stops(r) == Stop(r) /\ Answers(r, "ended") /\ UNCHANGED <<done, ticket>>
Advances(r, event) ==
  /\ state' = [state EXCEPT ![r] = event]
  /\ Answers(r, "yes")
  /\ UNCHANGED <<slots, lease, done, ticket>>

(* claim_active_run: the application is the primary key.                   *)
SlotFree(r) == \A s \in slots \ Late : WsOf[s] # WsOf[r]

(* start_run, which reaps first; a refusal undoes that too.                *)
HandleStart(r) ==
  /\ Handles(r, "start")
  /\ IF SlotFree(r)
     THEN /\ state' = [s \in Run |-> IF s = r THEN "OBSERVING" ELSE IF s \in Late THEN ReapedState(s) ELSE state[s]]
          /\ grant' = [s \in Run |-> IF s \in Late THEN ReapedGrant(s) ELSE grant[s]]
          /\ lease' = [s \in Run |-> IF s = r THEN "live" ELSE IF s \in Late THEN "none" ELSE lease[s]]
          /\ slots' = (slots \ Late) \cup {r}
          /\ Answers(r, "yes")
          /\ UNCHANGED <<done, ticket>>
     ELSE Refuses(r)

(* record_observation, INITIAL: there is a confirmed plan, or the run ends.*)
HandleInitial(r) ==
  /\ Handles(r, "initial")
  /\ IF state[r] = "OBSERVING"
     THEN \/ Advances(r, "REVALIDATING") /\ UNCHANGED grant
          \/ Stops(r)
     ELSE Refuses(r)

(* record_quarantine: PRELOAD_INSTALLED and RELOADED are only recorded.    *)
HandleReset(r) ==
  /\ Handles(r, "reset")
  /\ Answers(r, IF Terminal(r) THEN "error" ELSE "yes")
  /\ UNCHANGED server

HandleLost(r) ==
  /\ Handles(r, "lost")
  /\ IF Terminal(r) THEN Refuses(r) ELSE Stops(r)

(* record_observation, REVALIDATION: the page is the one of the plan, or   *)
(* the run ends.                                                           *)
HandleRevalidate(r) ==
  /\ Handles(r, "revalidate")
  /\ IF state[r] = "REVALIDATING"
     THEN \/ Answers(r, "yes") /\ UNCHANGED server
          \/ Stops(r)
     ELSE Refuses(r)

HandleTotal(r) ==
  /\ Handles(r, "total")
  /\ IF state[r] = "REVALIDATING" THEN Advances(r, "QUARANTINE_ACTIVE") /\ UNCHANGED grant ELSE Refuses(r)

(* request_fill_grant: approval, confirmation, budget or an authority that *)
(* is paused, halted or lowered may refuse.                                *)
HandleGrant(r) ==
  /\ Handles(r, "grant")
  /\ IF Terminal(r) THEN Refuses(r)
     ELSE \/ Stops(r)
          \/ /\ Advances(r, "FILLING")
             /\ grant' = [grant EXCEPT ![r] = "issued"]

(* request_intent; the re-observation before it (PRE_ACTION), approval,    *)
(* authority and a grant that has expired may each stop the run.           *)
HandleIntent(r) ==
  /\ Handles(r, "intent")
  /\ IF state[r] # "FILLING" THEN Refuses(r)
     ELSE \/ Stops(r)
          \/ /\ ticket' = [ticket EXCEPT ![r] = "issued"]
             /\ Answers(r, "yes")
             /\ UNCHANGED <<state, slots, lease, grant, done>>

(* The same with a precheck that names other rules than the plan's.        *)
HandleUnverified(r) ==
  /\ Handles(r, "intentUnverified")
  /\ IF state[r] # "FILLING" THEN Refuses(r) ELSE Stops(r)

(* record_outcome of a failure, or of anything if the envelope expired.    *)
Fails(r, why) ==
  /\ ticket' = [ticket EXCEPT ![r] = why]
  /\ Stop(r)
  /\ UNCHANGED done

(* record_outcome of a success: the next action, the last check, or a stop *)
(* because the page differs from the plan.                                 *)
Succeeds(r) ==
  /\ done' = [done EXCEPT ![r] = @ + 1]
  /\ ticket' = [ticket EXCEPT ![r] = "none"]
  /\ \/ Stop(r) /\ Answers(r, "ended")
     \/ /\ state' = [state EXCEPT ![r] = IF done'[r] = Actions THEN "FINAL_VALIDATING" ELSE "FILLING"]
        /\ Answers(r, "yes")
        /\ UNCHANGED <<slots, lease, grant>>

HandleOutcome(r) ==
  \/ /\ Handles(r, "outcomeOk")
     /\ IF state[r] # "FILLING" THEN Refuses(r)
        ELSE \/ Succeeds(r)
             \/ Fails(r, "failed") /\ Answers(r, "ended")
  \/ /\ Handles(r, "outcomeBad")
     /\ IF state[r] = "FILLING" THEN Fails(r, "failed") /\ Answers(r, "ended") ELSE Refuses(r)

(* record_unknown_outcome, by the controller; see also Recovers.           *)
HandleUnknown(r) ==
  /\ Handles(r, "unknown")
  /\ IF Terminal(r) THEN Refuses(r) ELSE Fails(r, "unknown") /\ Answers(r, "ended")

(* final_validate; that every action is completed follows from the state.  *)
HandleFinal(r) ==
  /\ Handles(r, "final")
  /\ IF state[r] = "FINAL_VALIDATING"
     THEN \/ Stops(r)
          \/ Finish(r, "FILLED_AWAITING_SUBMISSION") /\ Answers(r, "filled") /\ UNCHANGED <<done, ticket>>
     ELSE Refuses(r)

(* Seeded fault: a run may be stopped whatever became of it.               *)
ActiveToStop(r) == TRUE

(* is_terminal refuses the stop of a run that has ended.                   *)
MayStop(r) == Active(r)

(* executor_stop.                                                          *)
HandleStop(r) ==
  /\ Handles(r, "stop")
  /\ IF MayStop(r) THEN Stops(r) ELSE Refuses(r)

(* fail: the run ends as the server recorded it, else it is stopped.       *)
HandleGiveUp(r) ==
  /\ Handles(r, "giveUp")
  /\ CASE Active(r) -> Stops(r)
       [] state[r] = "FILLED_AWAITING_SUBMISSION" -> Answers(r, "filled") /\ UNCHANGED server
       [] OTHER -> Answers(r, "ended") /\ UNCHANGED server

Handle(r) ==
  \/ HandleStart(r) \/ HandleInitial(r) \/ HandleReset(r) \/ HandleLost(r) \/ HandleRevalidate(r)
  \/ HandleTotal(r) \/ HandleGrant(r) \/ HandleIntent(r) \/ HandleUnverified(r) \/ HandleOutcome(r)
  \/ HandleUnknown(r) \/ HandleFinal(r) \/ HandleStop(r) \/ HandleGiveUp(r)

(* record_detection: an active run stops.                                  *)
HandleReport(r) ==
  /\ report[r] \in {"detected", "closed"}
  /\ IF Active(r) THEN Stop(r) ELSE UNCHANGED <<state, slots, lease, grant>>
  /\ report' = [report EXCEPT ![r] = CASE ctl[r] = "dead" -> "spent"
                                       [] @ = "detected" -> "heard"
                                       [] OTHER -> "remove"]
  /\ UNCHANGED <<done, ticket, memory, wire, stored, browser, faults>>

-----------------------------------------------------------------------------
(* The lease.                                                              *)

(* Without a heartbeat the lease runs out; with one, only if it stalls.    *)
Lapse(r) ==
  /\ lease[r] = "live" /\ ~heart[r]
  /\ lease' = [lease EXCEPT ![r] = "late"]
  /\ UNCHANGED <<state, slots, grant, done, ticket, memory, wire, report, stored, browser, faults>>

Stall(r) ==
  /\ lease[r] = "live" /\ heart[r] /\ Fault
  /\ lease' = [lease EXCEPT ![r] = "late"]
  /\ UNCHANGED <<state, slots, grant, done, ticket, memory, wire, report, stored, browser>>

(* heartbeat: a live lease is renewed; any other answer, or none, is the   *)
(* last.                                                                   *)
Beat(r) ==
  /\ heart[r] /\ lease[r] # "live"
  /\ IF lease[r] = "late" THEN Reaps({r}) ELSE UNCHANGED <<state, slots, lease, grant>>
  /\ heart' = [heart EXCEPT ![r] = FALSE]
  /\ UNCHANGED <<done, ticket, ctl, wire, answer, report, aborted, stored, browser, faults>>

BeatLost(r) ==
  /\ heart[r] /\ Fault
  /\ heart' = [heart EXCEPT ![r] = FALSE]
  /\ UNCHANGED <<server, ctl, wire, answer, report, aborted, stored, browser>>
-----------------------------------------------------------------------------
(* The controller.                                                         *)

Asks(r, request) ==
  /\ ctl' = [ctl EXCEPT ![r] = request]
  /\ wire' = [wire EXCEPT ![r] = request]
  /\ answer' = [answer EXCEPT ![r] = "none"]

Pauses(r, at) ==
  /\ ctl' = [ctl EXCEPT ![r] = at]
  /\ answer' = [answer EXCEPT ![r] = "none"]
  /\ UNCHANGED wire

Hears(r, request, a) == ctl[r] = request /\ answer[r] = a

InTab(r, kind) == [kind |-> kind, tab |-> r]
RulesOf(r) == rules[BrowserOf[r]]
SetRules(r, new) == rules' = [rules EXCEPT ![BrowserOf[r]] = new]

(* mayStartOnTab, startFillRun.                                            *)
Start(r) ==
  /\ ctl[r] = "off" /\ open[r] /\ RulesOf(r).tab # r
  /\ Asks(r, "start")
  /\ UNCHANGED <<server, aborted, heart, report, stored, browser, faults>>

(* The run is known: it is stored and its heart beats.  Another            *)
(* quarantined tab stops it, and so do missing permissions and siblings.   *)
Started(r) ==
  /\ Hears(r, "start", "yes") /\ ~aborted[r]
  /\ key' = [key EXCEPT ![r] = TRUE]
  /\ heart' = [heart EXCEPT ![r] = TRUE]
  /\ \/ Asks(r, "stop")
     \/ RulesOf(r).tab \in {r, NoRun} /\ Asks(r, "initial")
  /\ UNCHANGED <<server, aborted, report, mark, rec, browser, faults>>

(* The start failed, or the tab closed while it was under way: the view    *)
(* has no run, and what the server started is left to its lease.           *)
NotStarted(r) ==
  /\ \/ Hears(r, "start", "error")
     \/ Hears(r, "start", "yes") /\ aborted[r]
  /\ Pauses(r, "unstarted")
  /\ UNCHANGED <<server, aborted, heart, report, stored, browser, faults>>

InstallPreload(r) ==
  /\ Hears(r, "initial", "yes")
  /\ SetRules(r, InTab(r, "PRELOAD"))
  /\ Pauses(r, "preloading")
  /\ UNCHANGED <<server, aborted, heart, report, stored, open, page, written, faults>>

VerifyPreload(r) ==
  /\ ctl[r] = "preloading"
  /\ Asks(r, IF RulesOf(r) = InTab(r, "PRELOAD") THEN "reset" ELSE "lost")
  /\ UNCHANGED <<server, aborted, heart, report, stored, browser, faults>>

(* The reload lies between the two records of HandleReset.                 *)
Revalidate(r) ==
  /\ Hears(r, "reset", "yes") /\ open[r]
  /\ Asks(r, "revalidate")
  /\ UNCHANGED <<server, aborted, heart, report, stored, browser, faults>>

InstallTotal(r) ==
  /\ Hears(r, "revalidate", "yes") /\ open[r]
  /\ SetRules(r, InTab(r, "TOTAL"))
  /\ Pauses(r, "totalling")
  /\ UNCHANGED <<server, aborted, heart, report, stored, open, page, written, faults>>

VerifyTotal(r) ==
  /\ ctl[r] = "totalling"
  /\ Asks(r, IF RulesOf(r) = InTab(r, "TOTAL") THEN "total" ELSE "lost")
  /\ UNCHANGED <<server, aborted, heart, report, stored, browser, faults>>

AskGrant(r) ==
  /\ Hears(r, "total", "yes")
  /\ Asks(r, "grant")
  /\ UNCHANGED <<server, aborted, heart, report, stored, browser, faults>>

(* The plan is read with the grant; the mark goes with the outcome.        *)
NextAction(r) ==
  /\ Hears(r, "grant", "yes") \/ Hears(r, "outcomeOk", "yes")
  /\ Pauses(r, "ready")
  /\ mark' = [mark EXCEPT ![r] = 0]
  /\ UNCHANGED <<server, aborted, heart, report, key, rec, browser, faults>>

(* The local check: values that are not the expected ones stop the run;    *)
(* what the rules are goes with the intent.                                *)
Check(r) ==
  /\ ctl[r] = "ready" /\ ~aborted[r] /\ done[r] < Actions
  /\ \/ Asks(r, "stop")
     \/ Asks(r, IF RulesOf(r) = InTab(r, "TOTAL") THEN "intent" ELSE "intentUnverified")
  /\ UNCHANGED <<server, aborted, heart, report, stored, browser, faults>>

(* MAY_HAVE_WRITTEN.                                                       *)
Persists(r) == mark' = [mark EXCEPT ![r] = done[r] + 1]

Persist(r) ==
  /\ Hears(r, "intent", "yes")
  /\ Persists(r)
  /\ Pauses(r, "persisted")
  /\ UNCHANGED <<server, aborted, heart, report, key, rec, browser, faults>>

Execute(r) ==
  /\ ctl[r] = "persisted" /\ ~aborted[r]
  /\ page' = [page EXCEPT ![r] = "running"]
  /\ Pauses(r, "executing")
  /\ UNCHANGED <<server, aborted, heart, report, stored, rules, open, written, faults>>

(* The script in the page goes on when the service worker dies.  It writes *)
(* and reads back what it wrote, or refuses, or something throws before or *)
(* after.  A field that already holds its value counts as written.         *)
PageWrites(r) ==
  /\ page[r] = "running" /\ open[r]
  /\ \/ /\ written' = [written EXCEPT ![r] = @ + 1]
        /\ \E result \in {"good", "bad", "threw"} : page' = [page EXCEPT ![r] = result]
     \/ /\ \E result \in {"bad", "threw"} : page' = [page EXCEPT ![r] = result]
        /\ UNCHANGED written
  /\ UNCHANGED <<server, memory, wire, report, stored, rules, open, faults>>

(* Seeded fault: an action that may have been written is tried again.      *)
Retries(r) == CASE page[r] = "good" -> "outcomeOk" [] page[r] = "bad" -> "outcomeBad" [] OTHER -> "intent"

(* Nothing is ever retried.                                                *)
Outcome(r) == CASE page[r] = "good" -> "outcomeOk" [] page[r] = "bad" -> "outcomeBad" [] OTHER -> "unknown"

ReportOutcome(r) ==
  /\ ctl[r] = "executing" /\ page[r] # "running"
  /\ Asks(r, Outcome(r))
  /\ page' = [page EXCEPT ![r] = "idle"]
  /\ UNCHANGED <<server, aborted, heart, report, stored, rules, open, written, faults>>

Finalize(r) ==
  /\ ctl[r] = "ready" /\ ~aborted[r] /\ done[r] = Actions
  /\ Asks(r, "final")
  /\ UNCHANGED <<server, aborted, heart, report, stored, browser, faults>>

(* run, when it is not filled.  There is no release: the rules stay.       *)
Over(r) ==
  /\ Pauses(r, "over")
  /\ heart' = [heart EXCEPT ![r] = FALSE]
  /\ key' = [key EXCEPT ![r] = FALSE]
  /\ mark' = IF ctl[r] \in {"outcomeOk", "outcomeBad"} /\ answer[r] = "ended" THEN [mark EXCEPT ![r] = 0] ELSE mark
  /\ UNCHANGED <<server, aborted, report, rec, browser, faults>>

EndsAsTold(r) ==
  \/ answer[r] = "ended" /\ Over(r)
  \/ answer[r] = "filled" /\ aborted[r] /\ Over(r)
  \/ Hears(r, "giveUp", "error") /\ Over(r)
  \/ ctl[r] \in {"ready", "persisted"} /\ aborted[r] /\ Over(r)

Filled(r) ==
  /\ answer[r] = "filled" /\ ~aborted[r]
  /\ Pauses(r, "filled")
  /\ UNCHANGED <<server, aborted, heart, report, stored, browser, faults>>

(* fail: an answer that is missing or a refusal, or a page that is gone.   *)
GiveUp(r) ==
  /\ \/ answer[r] = "error" /\ ctl[r] \notin {"start", "giveUp"}
     \/ ~open[r] /\ (Hears(r, "reset", "yes") \/ Hears(r, "revalidate", "yes"))
  /\ Asks(r, "giveUp")
  /\ UNCHANGED <<server, aborted, heart, report, stored, browser, faults>>

Controller(r) ==
  \/ Start(r) \/ Started(r) \/ NotStarted(r) \/ InstallPreload(r) \/ VerifyPreload(r) \/ Revalidate(r)
  \/ InstallTotal(r) \/ VerifyTotal(r) \/ AskGrant(r) \/ NextAction(r) \/ Check(r) \/ Persist(r) \/ Execute(r)
  \/ ReportOutcome(r) \/ Finalize(r) \/ EndsAsTold(r) \/ Filled(r) \/ GiveUp(r)

-----------------------------------------------------------------------------
(* The environment.                                                        *)

(* A request or its answer does not arrive; the controller cannot tell.    *)
Lost(r) ==
  /\ Fault
  /\ \/ wire[r] # "none" /\ Answers(r, "error")
     \/ answer[r] \notin {"none", "error"} /\ answer' = [answer EXCEPT ![r] = "error"] /\ UNCHANGED wire
  /\ UNCHANGED <<server, ctl, aborted, heart, report, stored, browser>>

InMemory(r) == ctl[r] \notin {"off", "dead"}
KnowsRun(r) == InMemory(r) /\ ctl[r] \notin {"start", "unstarted"}

(* The page, or a tab it opened, does what no fill does; onDetection.      *)
Detect(r) ==
  /\ open[r] /\ KnowsRun(r) /\ report[r] = "none" /\ Fault
  /\ report' = [report EXCEPT ![r] = "detected"]
  /\ UNCHANGED <<server, memory, wire, stored, browser>>

HearDetection(r) ==
  /\ report[r] = "heard"
  /\ report' = [report EXCEPT ![r] = "spent"]
  /\ aborted' = [aborted EXCEPT ![r] = @ \/ (state[r] = "FILL_STOPPED" /\ ctl[r] \notin Idle)]
  /\ UNCHANGED <<server, ctl, answer, heart, wire, stored, browser, faults>>

(* A report that is lost is not repeated; the rules go all the same.  (One *)
(* of a detection that is lost is one that is never handled.)              *)
ReportLost(r) ==
  /\ report[r] = "closed"
  /\ report' = [report EXCEPT ![r] = IF ctl[r] = "dead" THEN "spent" ELSE "remove"]
  /\ UNCHANGED <<server, memory, wire, stored, browser, faults>>

(* onRemoved, onTabClosed.                                                 *)
CloseTab(r) ==
  /\ open[r] /\ ctl[r] # "off" /\ Fault
  /\ open' = [open EXCEPT ![r] = FALSE]
  /\ page' = [page EXCEPT ![r] = IF @ = "running" THEN "threw" ELSE @]
  /\ heart' = [heart EXCEPT ![r] = FALSE]
  /\ aborted' = [aborted EXCEPT ![r] = @ \/ ctl[r] \notin Idle]
  /\ report' = [report EXCEPT ![r] = IF KnowsRun(r) THEN "closed" ELSE IF InMemory(r) THEN "remove" ELSE @]
  /\ UNCHANGED <<server, ctl, answer, wire, stored, rules, written>>

(* removeRuleset takes the fill rules, whichever tab they are for.         *)
RemoveRules(r) ==
  /\ report[r] = "remove"
  /\ SetRules(r, NoRules)
  /\ key' = [key EXCEPT ![r] = FALSE]
  /\ report' = [report EXCEPT ![r] = "spent"]
  /\ UNCHANGED <<server, memory, wire, mark, rec, open, page, written, faults>>

(* The service worker of a browser dies; what it sent stays sent.  What    *)
(* chrome.storage.session holds is read when it starts again.              *)
WorkerDies(b) ==
  LET Dying == {r \in Run : BrowserOf[r] = b /\ InMemory(r)}
  IN  /\ Dying # {} /\ Fault
      /\ ctl' = [r \in Run |-> IF r \in Dying THEN "dead" ELSE ctl[r]]
      /\ answer' = [r \in Run |-> IF r \in Dying THEN "none" ELSE answer[r]]
      /\ heart' = [r \in Run |-> heart[r] /\ r \notin Dying]
      /\ aborted' = [r \in Run |-> aborted[r] /\ r \notin Dying]
      /\ report' = [r \in Run |-> IF r \in Dying /\ report[r] \in {"heard", "remove"} THEN "spent" ELSE report[r]]
      /\ rec' = [r \in Run |-> IF r \notin Dying THEN rec[r]
                               ELSE IF mark[r] > 0 THEN "unknown" ELSE IF key[r] THEN "stop" ELSE "none"]
      /\ key' = [r \in Run |-> key[r] /\ r \notin Dying]
      /\ UNCHANGED <<server, wire, mark, browser>>

(* recoverAfterRestart: a marked action has an unknown outcome unless it   *)
(* has one (record_unknown_outcome), another run is stopped.  It may never *)
(* get through.                                                            *)
Recovers(r) ==
  /\ rec[r] # "none"
  /\ rec' = [rec EXCEPT ![r] = "none"]
  /\ mark' = [mark EXCEPT ![r] = 0]
  /\ \/ /\ rec[r] = "unknown" /\ Active(r) /\ mark[r] > done[r]
        /\ Fails(r, "unknown")
     \/ /\ rec[r] = "stop" /\ MayStop(r)
        /\ Stop(r)
        /\ UNCHANGED <<done, ticket>>
     \/ /\ ~Active(r) \/ (rec[r] = "unknown" /\ mark[r] <= done[r])
        /\ UNCHANGED server
  /\ UNCHANGED <<memory, wire, report, key, browser, faults>>

-----------------------------------------------------------------------------
Next ==
  \/ Reap
  \/ \E b \in Browser : WorkerDies(b)
  \/ \E r \in Run :
       \/ Handle(r) \/ HandleReport(r)
       \/ Lapse(r) \/ Stall(r) \/ Beat(r) \/ BeatLost(r)
       \/ Controller(r) \/ PageWrites(r)
       \/ Lost(r) \/ Detect(r) \/ HearDetection(r) \/ ReportLost(r)
       \/ CloseTab(r) \/ RemoveRules(r) \/ Recovers(r)

(* The server answers, a controller in memory and the script in the page   *)
(* go on, time passes and the scheduler sweeps.  Nothing is assumed of     *)
(* reports or of a dead worker: it need not start again.                   *)
Fairness ==
  /\ WF_vars(Reap)
  /\ \A r \in Run : WF_vars(Handle(r)) /\ WF_vars(Controller(r)) /\ WF_vars(PageWrites(r)) /\ WF_vars(Lapse(r))

Spec == Init /\ [][Next]_vars /\ Fairness

-----------------------------------------------------------------------------
(* A run holds its application's slot exactly while it works, and no two   *)
(* runs of one application hold one; a run that works has a lease, and a   *)
(* run that has a lease works or is filled; a grant that is still good     *)
(* belongs to a run that was allowed to fill and did not stop.             *)
EndedHoldsNothing ==
  \A r \in Run :
    /\ r \in slots <=> Active(r)
    /\ Active(r) => lease[r] # "none"
    /\ lease[r] # "none" => Active(r) \/ state[r] = "FILLED_AWAITING_SUBMISSION"
    /\ grant[r] = "issued" => state[r] \in {"FILLING", "FINAL_VALIDATING"} \cup (Ended \ {"FILL_STOPPED"})
    /\ \A s \in slots : r \in slots /\ WsOf[s] = WsOf[r] => s = r

(* What the form holds is what the server has on record, but for the one   *)
(* action it let go ahead: no action is written twice or before its        *)
(* intent, whoever dies in between, and a filled form has every action.    *)
WritesMatchOutcomes ==
  \A r \in Run :
    /\ done[r] <= written[r]
    /\ written[r] <= done[r] + (IF ticket[r] = "none" THEN 0 ELSE 1)
    /\ state[r] \in Ended \ {"FILL_STOPPED"} => done[r] = Actions /\ ticket[r] = "none"

(* A page that has been written to cannot send anything while it is open,  *)
(* however its run ends: the rules are on it in full.                      *)
Quarantined == \A r \in Run : written[r] > 0 /\ open[r] => RulesOf(r) = InTab(r, "TOTAL")

(* A run that has ended stays as it ended, unless a filled one can no      *)
(* longer be vouched for: late reports, recoveries and requests of a       *)
(* controller that did not notice change nothing.                          *)
EndedStaysEnded ==
  [][\A r \in Run : Terminal(r) =>
       /\ state'[r] = state[r] \/ (state[r] = "FILLED_AWAITING_SUBMISSION" /\ state'[r] = "FILLED_CONTEXT_UNVERIFIED")
       /\ done'[r] = done[r]]_vars

(* The slot of an application becomes free again, whatever is lost and     *)
(* whoever dies: it can be filled once more.                               *)
Occupied(w) == \E r \in slots : WsOf[r] = w
SlotsComeFree == \A w \in Workspace : Occupied(w) ~> ~Occupied(w)

-----------------------------------------------------------------------------
(* What a fill is for: FillOnce, seen through the server's record of a run *)
(* and the form in its tab.                                                *)

PhaseOf(r) ==
  CASE state[r] = "NONE" -> "idle"
    [] state[r] \in Working -> "working"
    [] state[r] = "FILL_STOPPED" -> "stopped"
    [] state[r] = "FILLED_AWAITING_SUBMISSION" -> "filled"
    [] state[r] = "FILLED_CONTEXT_UNVERIFIED" -> "void"

Phases == [r \in Run |-> PhaseOf(r)]
LetGo == [r \in Run |-> ticket[r] # "none"]

Promise == INSTANCE FillOnce WITH phase <- Phases, form <- written, record <- done, out <- LetGo

(* Every history of the runs is one of FillOnce: each field is written at  *)
(* most once and only after its intent, in order, a run that has ended     *)
(* never works again, and what it let go is all that it can still write.   *)
FillsOnce == Promise!Spec

=============================================================================

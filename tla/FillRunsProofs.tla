--------------------------- MODULE FillRunsProofs ---------------------------
(***************************************************************************)
(* Proofs about FillRuns, for any runs, applications and browsers, any     *)
(* number of fields and any number of faults.                              *)
(***************************************************************************)
EXTENDS FillRuns, TLAPS

-----------------------------------------------------------------------------
(* Types, but for the bounds of done and mark, which follow from Write.    *)

ServerType ==
  /\ state \in [Run -> {"NONE"} \cup Working \cup Ended]
  /\ slots \subseteq Run
  /\ lease \in [Run -> {"none", "live", "late"}]
  /\ grant \in [Run -> {"none", "issued", "gone"}]
  /\ done \in [Run -> Nat]
  /\ ticket \in [Run -> {"none", "issued", "failed", "unknown"}]

DialogueType ==
  /\ ctl \in [Run -> Idle \cup Between \cup Request]
  /\ wire \in [Run -> {"none"} \cup Request]
  /\ answer \in [Run -> {"none", "yes", "ended", "filled", "error"}]

ExecutorType ==
  /\ report \in [Run -> {"none", "detected", "closed", "heard", "remove", "spent"}]
  /\ aborted \in [Run -> BOOLEAN] /\ heart \in [Run -> BOOLEAN] /\ key \in [Run -> BOOLEAN]
  /\ mark \in [Run -> Nat]
  /\ rec \in [Run -> {"none", "unknown", "stop"}]
  /\ rules \in [Browser -> [kind : {"NONE", "PRELOAD", "TOTAL"}, tab : Run \cup {NoRun}]]
  /\ open \in [Run -> BOOLEAN]
  /\ page \in [Run -> {"idle", "running", "good", "bad", "threw"}]
  /\ written \in [Run -> Nat]
  /\ faults \in 0 .. MaxFaults

Types == ServerType /\ DialogueType /\ ExecutorType

LEMMA FaultType ==
  ASSUME ExecutorType, Fault \/ UNCHANGED faults
  PROVE  faults' \in 0 .. MaxFaults
BY FillAssumption DEF ExecutorType, Fault, FillAssumption

LEMMA AsksType ==
  ASSUME DialogueType, NEW r \in Run, NEW request \in Request, Asks(r, request)
  PROVE  DialogueType'
BY DEF DialogueType, Asks

LEMMA PausesType ==
  ASSUME DialogueType, NEW r \in Run, NEW at \in Idle \cup Between, Pauses(r, at)
  PROVE  DialogueType'
BY DEF DialogueType, Pauses

LEMMA AnswersType ==
  ASSUME DialogueType, NEW r \in Run, NEW a \in {"yes", "ended", "filled", "error"}, Answers(r, a), UNCHANGED ctl
  PROVE  DialogueType'
BY DEF DialogueType, Answers

LEMMA FinishType ==
  ASSUME ServerType, NEW r \in Run, NEW event \in Ended, Finish(r, event), done' \in [Run -> Nat],
         ticket' \in [Run -> {"none", "issued", "failed", "unknown"}]
  PROVE  ServerType'
<1>1. state' \in [Run -> {"NONE"} \cup Working \cup Ended] /\ slots' \subseteq Run
  BY DEF ServerType, Finish
<1>2. lease' \in [Run -> {"none", "live", "late"}]
  BY DEF ServerType, Finish
<1>3. grant' \in [Run -> {"none", "issued", "gone"}]
  BY DEF ServerType, Finish
<1>4. QED
  BY <1>1, <1>2, <1>3 DEF ServerType

LEMMA StopType ==
  ASSUME ServerType, NEW r \in Run, Stop(r), UNCHANGED <<done, ticket>>
  PROVE  ServerType'
<1>1. "FILL_STOPPED" \in Ended /\ done' \in [Run -> Nat]
      /\ ticket' \in [Run -> {"none", "issued", "failed", "unknown"}]
  BY DEF Ended, ServerType
<1>2. QED
  BY <1>1, FinishType DEF Stop

LEMMA FailsType ==
  ASSUME ServerType, NEW r \in Run, NEW why \in {"failed", "unknown"}, Fails(r, why)
  PROVE  ServerType'
<1>1. "FILL_STOPPED" \in Ended /\ done' \in [Run -> Nat]
      /\ ticket' \in [Run -> {"none", "issued", "failed", "unknown"}]
  BY DEF Fails, Ended, ServerType
<1>2. QED
  BY <1>1, FinishType DEF Fails, Stop

LEMMA ReapsType ==
  ASSUME ServerType, NEW R \in SUBSET Run, Reaps(R), UNCHANGED <<done, ticket>>
  PROVE  ServerType'
BY DEF ServerType, Reaps, ReapedState, ReapedGrant, Ended

LEMMA RulesType ==
  ASSUME ExecutorType, NEW r \in Run, NEW kind \in {"PRELOAD", "TOTAL"},
         SetRules(r, InTab(r, kind)) \/ SetRules(r, NoRules)
  PROVE  rules' \in [Browser -> [kind : {"NONE", "PRELOAD", "TOTAL"}, tab : Run \cup {NoRun}]]
BY DEF ExecutorType, SetRules, InTab, NoRules

LEMMA SameServerType == ServerType /\ UNCHANGED server => ServerType'
BY DEF ServerType, server

LEMMA SameDialogueType == DialogueType /\ UNCHANGED <<ctl, wire, answer>> => DialogueType'
BY DEF DialogueType

(* Every request the server handles, and a report, keep the types.         *)
LEMMA HandledType ==
  ASSUME ServerType, DialogueType, NEW r \in Run, UNCHANGED ctl,
         \/ Refuses(r) \/ Stops(r)
         \/ \E event \in Working : Advances(r, event) /\ grant' \in [Run -> {"none", "issued", "gone"}]
         \/ \E a \in {"yes", "ended", "filled", "error"} : Answers(r, a) /\ UNCHANGED server
         \/ \E why \in {"failed", "unknown"} : Fails(r, why) /\ Answers(r, "ended")
  PROVE  ServerType' /\ DialogueType'
<1>1. CASE Refuses(r)
  BY <1>1, AnswersType, SameServerType DEF Refuses
<1>2. CASE Stops(r)
  BY <1>2, AnswersType, StopType DEF Stops
<1>3. ASSUME NEW event \in Working, Advances(r, event), grant' \in [Run -> {"none", "issued", "gone"}]
      PROVE  ServerType' /\ DialogueType'
  <2>1. DialogueType'
    BY <1>3, AnswersType DEF Advances
  <2>2. ServerType'
    BY <1>3 DEF Advances, ServerType
  <2>3. QED
    BY <2>1, <2>2
<1>4. ASSUME NEW a \in {"yes", "ended", "filled", "error"}, Answers(r, a), UNCHANGED server
      PROVE  ServerType' /\ DialogueType'
  BY <1>4, AnswersType, SameServerType
<1>5. ASSUME NEW why \in {"failed", "unknown"}, Fails(r, why), Answers(r, "ended")
      PROVE  ServerType' /\ DialogueType'
  BY <1>5, AnswersType, FailsType
<1>6. QED
  BY <1>1, <1>2, <1>3, <1>4, <1>5

LEMMA SameExecutorType ==
  ExecutorType /\ UNCHANGED <<aborted, heart, report, stored, browser, faults>> => ExecutorType'
BY DEF ExecutorType, stored, browser

LEMMA StartType ==
  ASSUME Types, NEW r \in Run, HandleStart(r)
  PROVE  ServerType' /\ DialogueType'
<1>1. CASE SlotFree(r)
  <2>1. DialogueType'
    BY <1>1, AnswersType DEF HandleStart, Handles, Types
  <2>2. state' \in [Run -> {"NONE"} \cup Working \cup Ended] /\ slots' \subseteq Run
    BY <1>1 DEF HandleStart, Types, ServerType, ReapedState, Working, Ended, Late
  <2>3. lease' \in [Run -> {"none", "live", "late"}] /\ grant' \in [Run -> {"none", "issued", "gone"}]
    BY <1>1 DEF HandleStart, Types, ServerType, ReapedGrant
  <2>4. QED
    BY <1>1, <2>1, <2>2, <2>3 DEF HandleStart, Types, ServerType
<1>2. CASE ~SlotFree(r)
  BY <1>2, HandledType DEF HandleStart, Handles, Types
<1>3. QED
  BY <1>1, <1>2

LEMMA HandleType ==
  ASSUME Types, NEW r \in Run, Handle(r)
  PROVE  Types'
<1> USE DEF Handles
<1>1. ExecutorType' /\ UNCHANGED ctl
  BY SameExecutorType DEF Types, Handle, HandleStart, HandleInitial, HandleReset, HandleLost, HandleRevalidate,
     HandleTotal, HandleGrant, HandleIntent, HandleUnverified, HandleOutcome, HandleUnknown, HandleFinal,
     HandleStop, HandleGiveUp
<1>2. CASE HandleStart(r)
  BY <1>1, <1>2, StartType DEF Types
<1>3. CASE HandleInitial(r)
  BY <1>1, <1>3, HandledType DEF HandleInitial, Types, ServerType, Working
<1>4. CASE HandleReset(r)
  BY <1>1, <1>4, HandledType DEF HandleReset, Types
<1>5. CASE HandleLost(r)
  BY <1>1, <1>5, HandledType DEF HandleLost, Types
<1>6. CASE HandleRevalidate(r)
  BY <1>1, <1>6, HandledType DEF HandleRevalidate, Types
<1>7. CASE HandleTotal(r)
  BY <1>1, <1>7, HandledType DEF HandleTotal, Types, ServerType, Working
<1>8. CASE HandleGrant(r)
  BY <1>1, <1>8, HandledType DEF HandleGrant, Types, ServerType, Working
<1>9. CASE HandleIntent(r)
  <2>1. CASE Refuses(r) \/ Stops(r)
    BY <1>1, <2>1, HandledType DEF Types
  <2>2. CASE ticket' = [ticket EXCEPT ![r] = "issued"] /\ Answers(r, "yes")
             /\ UNCHANGED <<state, slots, lease, grant, done>>
    BY <1>1, <2>2, AnswersType DEF Types, ServerType
  <2>3. QED
    BY <1>9, <2>1, <2>2 DEF HandleIntent
<1>10. CASE HandleUnverified(r)
  BY <1>1, <1>10, HandledType DEF HandleUnverified, Types
<1>11. CASE HandleOutcome(r)
  <2>1. CASE Succeeds(r)
    <3>1. done' \in [Run -> Nat] /\ ticket' \in [Run -> {"none", "issued", "failed", "unknown"}]
      BY <2>1 DEF Succeeds, Types, ServerType
    <3>2. CASE Stop(r) /\ Answers(r, "ended")
      BY <1>1, <3>1, <3>2, FinishType, AnswersType DEF Types, Stop, Ended
    <3>3. CASE /\ state' = [state EXCEPT ![r] = IF done'[r] = Actions THEN "FINAL_VALIDATING" ELSE "FILLING"]
               /\ Answers(r, "yes")
               /\ UNCHANGED <<slots, lease, grant>>
      <4>1. state' \in [Run -> {"NONE"} \cup Working \cup Ended]
        BY <3>3 DEF Types, ServerType, Working
      <4>2. QED
        BY <1>1, <3>1, <3>3, <4>1, AnswersType DEF Types, ServerType
    <3>4. QED
      BY <2>1, <3>2, <3>3 DEF Succeeds
  <2>2. CASE Refuses(r) \/ (\E why \in {"failed", "unknown"} : Fails(r, why) /\ Answers(r, "ended"))
    BY <1>1, <2>2, HandledType DEF Types
  <2>3. QED
    BY <1>11, <2>1, <2>2 DEF HandleOutcome
<1>12. CASE HandleUnknown(r)
  BY <1>1, <1>12, HandledType DEF HandleUnknown, Types
<1>13. CASE HandleFinal(r)
  <2>1. CASE Refuses(r) \/ Stops(r)
    BY <1>1, <2>1, HandledType DEF Types
  <2>2. CASE Finish(r, "FILLED_AWAITING_SUBMISSION") /\ Answers(r, "filled") /\ UNCHANGED <<done, ticket>>
    <3>1. "FILLED_AWAITING_SUBMISSION" \in Ended /\ done' \in [Run -> Nat]
          /\ ticket' \in [Run -> {"none", "issued", "failed", "unknown"}]
      BY <2>2 DEF Types, ServerType, Ended
    <3>2. QED
      BY <1>1, <2>2, <3>1, FinishType, AnswersType DEF Types
  <2>3. QED
    BY <1>13, <2>1, <2>2 DEF HandleFinal
<1>14. CASE HandleStop(r)
  BY <1>1, <1>14, HandledType DEF HandleStop, Types
<1>15. CASE HandleGiveUp(r)
  BY <1>1, <1>15, HandledType DEF HandleGiveUp, Types
<1>16. QED
  BY <1>2, <1>3, <1>4, <1>5, <1>6, <1>7, <1>8, <1>9, <1>10, <1>11, <1>12, <1>13, <1>14, <1>15 DEF Handle

LEMMA ControllerType ==
  ASSUME Types, NEW r \in Run, Controller(r)
  PROVE  Types'
<1> USE DEF Types
<1>1. ServerType'
  BY SameServerType DEF Controller, Start, Started, NotStarted, InstallPreload, VerifyPreload, Revalidate, InstallTotal,
     VerifyTotal, AskGrant, NextAction, Check, Persist, Execute, ReportOutcome, Finalize, EndsAsTold, Over, Filled, GiveUp
<1>2. DialogueType'
  <2>1. CASE \E request \in Request : Asks(r, request)
    BY <2>1, AsksType
  <2>2. CASE \E at \in Idle \cup Between : Pauses(r, at)
    BY <2>2, PausesType
  <2>3. \/ \E request \in Request : Asks(r, request)
        \/ \E at \in Idle \cup Between : Pauses(r, at)
    <3>1. Start(r) \/ Started(r) \/ VerifyPreload(r) \/ Revalidate(r) \/ VerifyTotal(r) \/ AskGrant(r) \/ Finalize(r)
          \/ GiveUp(r) => \E request \in Request : Asks(r, request)
      BY DEF Start, Started, VerifyPreload, Revalidate, VerifyTotal, AskGrant, Finalize, GiveUp, Request
    <3>2. Check(r) \/ ReportOutcome(r) => \E request \in Request : Asks(r, request)
      BY DEF Check, ReportOutcome, Outcome, Request
    <3>3. NotStarted(r) \/ InstallPreload(r) \/ InstallTotal(r) \/ NextAction(r) \/ Persist(r) \/ Execute(r)
          \/ EndsAsTold(r) \/ Filled(r) => \E at \in Idle \cup Between : Pauses(r, at)
      BY DEF NotStarted, InstallPreload, InstallTotal, NextAction, Persist, Execute, EndsAsTold, Over, Filled, Idle, Between
    <3>4. QED
      BY <3>1, <3>2, <3>3 DEF Controller
  <2>4. QED
    BY <2>1, <2>2, <2>3
<1>3. ExecutorType'
  <2>1. CASE Start(r) \/ NotStarted(r) \/ VerifyPreload(r) \/ Revalidate(r) \/ VerifyTotal(r) \/ AskGrant(r)
             \/ Check(r) \/ Finalize(r) \/ Filled(r) \/ GiveUp(r)
    BY <2>1, SameExecutorType DEF Start, NotStarted, VerifyPreload, Revalidate, VerifyTotal, AskGrant, Check,
       Finalize, Filled, GiveUp
  <2>2. CASE Started(r)
    BY <2>2 DEF Started, ExecutorType, browser
  <2>3. CASE InstallPreload(r) \/ InstallTotal(r)
    <3>1. rules' \in [Browser -> [kind : {"NONE", "PRELOAD", "TOTAL"}, tab : Run \cup {NoRun}]]
      BY <2>3, RulesType DEF InstallPreload, InstallTotal
    <3>2. QED
      BY <2>3, <3>1 DEF InstallPreload, InstallTotal, ExecutorType, stored
  <2>4. CASE NextAction(r) \/ Persist(r)
    BY <2>4 DEF NextAction, Persist, Persists, ExecutorType, ServerType, browser
  <2>5. CASE Execute(r) \/ ReportOutcome(r)
    BY <2>5 DEF Execute, ReportOutcome, ExecutorType, stored
  <2>6. CASE EndsAsTold(r)
    <3>1. Over(r)
      BY <2>6 DEF EndsAsTold
    <3>2. heart' \in [Run -> BOOLEAN] /\ key' \in [Run -> BOOLEAN]
      BY <3>1 DEF Over, ExecutorType
    <3>3. mark' \in [Run -> Nat]
      BY <3>1 DEF Over, ExecutorType
    <3>4. QED
      BY <3>1, <3>2, <3>3 DEF Over, ExecutorType, browser
  <2>7. QED
    BY <2>1, <2>2, <2>3, <2>4, <2>5, <2>6 DEF Controller
<1>4. QED
  BY <1>1, <1>2, <1>3

LEMMA ServerEventType ==
  ASSUME Types, NEW r \in Run, Reap \/ HandleReport(r) \/ Lapse(r) \/ Stall(r) \/ Beat(r) \/ BeatLost(r) \/ Recovers(r)
  PROVE  Types'
<1> USE DEF Types
<1>1. CASE Reap
  <2>1. ServerType'
    BY <1>1, ReapsType DEF Reap, Late
  <2>2. QED
    BY <1>1, <2>1, SameDialogueType, SameExecutorType DEF Reap, memory
<1>2. CASE HandleReport(r)
  <2>1. ServerType'
    BY <1>2, StopType, SameServerType DEF HandleReport, server
  <2>2. ExecutorType'
    BY <1>2 DEF HandleReport, ExecutorType, memory, stored, browser
  <2>3. QED
    BY <1>2, <2>1, <2>2, SameDialogueType DEF HandleReport, memory
<1>3. CASE Lapse(r) \/ Stall(r)
  <2>1. ServerType'
    BY <1>3 DEF Lapse, Stall, ServerType
  <2>2. ExecutorType'
    BY <1>3, FaultType DEF Lapse, Stall, ExecutorType, memory, stored, browser
  <2>3. QED
    BY <1>3, <2>1, <2>2, SameDialogueType DEF Lapse, Stall, memory
<1>4. CASE Beat(r)
  <2>1. ServerType'
    <3>1. CASE lease[r] = "late"
      BY <1>4, <3>1, ReapsType DEF Beat
    <3>2. CASE lease[r] # "late"
      BY <1>4, <3>2, SameServerType DEF Beat, server
    <3>3. QED
      BY <3>1, <3>2
  <2>2. ExecutorType'
    BY <1>4 DEF Beat, ExecutorType, stored, browser
  <2>3. QED
    BY <1>4, <2>1, <2>2, SameDialogueType DEF Beat
<1>5. CASE BeatLost(r)
  <2>1. ExecutorType'
    BY <1>5, FaultType DEF BeatLost, ExecutorType, stored, browser
  <2>2. QED
    BY <1>5, <2>1, SameServerType, SameDialogueType DEF BeatLost
<1>6. CASE Recovers(r)
  <2>1. ServerType'
    BY <1>6, FailsType, StopType, SameServerType DEF Recovers
  <2>2. ExecutorType'
    BY <1>6 DEF Recovers, ExecutorType, memory, browser
  <2>3. QED
    BY <1>6, <2>1, <2>2, SameDialogueType DEF Recovers, memory
<1>7. QED
  BY <1>1, <1>2, <1>3, <1>4, <1>5, <1>6

LEMMA EnvironmentType ==
  ASSUME Types, NEW r \in Run, NEW b \in Browser,
         PageWrites(r) \/ Lost(r) \/ Detect(r) \/ HearDetection(r) \/ ReportLost(r) \/ CloseTab(r) \/ RemoveRules(r)
         \/ WorkerDies(b)
  PROVE  Types'
<1> USE DEF Types
<1>1. ServerType'
  BY SameServerType DEF PageWrites, Lost, Detect, HearDetection, ReportLost, CloseTab, RemoveRules, WorkerDies
<1>2. CASE PageWrites(r)
  <2>1. ExecutorType'
    BY <1>2 DEF PageWrites, ExecutorType, memory, stored
  <2>2. QED
    BY <1>1, <1>2, <2>1, SameDialogueType DEF PageWrites, memory
<1>3. CASE Lost(r)
  <2>1. ExecutorType'
    BY <1>3, FaultType DEF Lost, ExecutorType, stored, browser
  <2>2. DialogueType'
    BY <1>3, AnswersType DEF Lost, DialogueType
  <2>3. QED
    BY <1>1, <2>1, <2>2
<1>4. CASE Detect(r) \/ HearDetection(r) \/ ReportLost(r)
  <2>1. ExecutorType'
    BY <1>4, FaultType DEF Detect, HearDetection, ReportLost, ExecutorType, memory, stored, browser
  <2>2. QED
    BY <1>1, <1>4, <2>1, SameDialogueType DEF Detect, HearDetection, ReportLost, memory
<1>5. CASE CloseTab(r)
  <2>1. ExecutorType'
    BY <1>5, FaultType DEF CloseTab, ExecutorType, stored
  <2>2. QED
    BY <1>1, <1>5, <2>1, SameDialogueType DEF CloseTab
<1>6. CASE RemoveRules(r)
  <2>1. rules' \in [Browser -> [kind : {"NONE", "PRELOAD", "TOTAL"}, tab : Run \cup {NoRun}]]
    BY <1>6, RulesType DEF RemoveRules
  <2>2. ExecutorType'
    BY <1>6, <2>1 DEF RemoveRules, ExecutorType, memory
  <2>3. QED
    BY <1>1, <1>6, <2>2, SameDialogueType DEF RemoveRules, memory
<1>7. CASE WorkerDies(b)
  <2>1. ExecutorType'
    BY <1>7, FaultType DEF WorkerDies, ExecutorType, browser
  <2>2. DialogueType'
    BY <1>7 DEF WorkerDies, DialogueType, Idle
  <2>3. QED
    BY <1>1, <2>1, <2>2
<1>8. QED
  BY <1>2, <1>3, <1>4, <1>5, <1>6, <1>7

LEMMA SameTypes == Types /\ UNCHANGED vars => Types'
BY SameServerType, SameDialogueType, SameExecutorType DEF Types, vars, memory

LEMMA NextTypes == Types /\ [Next]_vars => Types'
<1> SUFFICES ASSUME Types, [Next]_vars PROVE Types'
  OBVIOUS
<1>1. CASE Reap
  <2>1. PICK r \in Run : r \in Late
    BY <1>1 DEF Reap, Late
  <2>2. QED
    BY <1>1, <2>1, ServerEventType
<1>2. ASSUME NEW b \in Browser, WorkerDies(b)
      PROVE  Types'
  <2>1. PICK r \in Run : InMemory(r)
    BY <1>2 DEF WorkerDies
  <2>2. QED
    BY <1>2, <2>1, EnvironmentType
<1>3. ASSUME NEW r \in Run, Handle(r) \/ HandleReport(r) \/ Lapse(r) \/ Stall(r) \/ Beat(r) \/ BeatLost(r)
             \/ Controller(r) \/ Recovers(r)
      PROVE  Types'
  BY <1>3, HandleType, ControllerType, ServerEventType
<1>4. ASSUME NEW r \in Run, PageWrites(r) \/ Lost(r) \/ Detect(r) \/ HearDetection(r) \/ ReportLost(r)
             \/ CloseTab(r) \/ RemoveRules(r)
      PROVE  Types'
  <2>1. BrowserOf[r] \in Browser
    BY FillAssumption DEF FillAssumption
  <2>2. QED
    BY <1>4, <2>1, EnvironmentType
<1>5. CASE UNCHANGED vars
  BY <1>5, SameTypes
<1>6. QED
  BY <1>1, <1>2, <1>3, <1>4, <1>5 DEF Next

-----------------------------------------------------------------------------
(* What a step leaves alone.                                               *)

SameServer(q) ==
  state'[q] = state[q] /\ lease'[q] = lease[q] /\ grant'[q] = grant[q] /\ done'[q] = done[q] /\ ticket'[q] = ticket[q]
SameDialogue(q) == ctl'[q] = ctl[q] /\ wire'[q] = wire[q] /\ answer'[q] = answer[q]
SameExecutor(q) ==
  key'[q] = key[q] /\ mark'[q] = mark[q] /\ rec'[q] = rec[q] /\ page'[q] = page[q] /\ written'[q] = written[q]

(* Requests but for the start.                                             *)
HandleKnown(r) ==
  \/ HandleInitial(r) \/ HandleReset(r) \/ HandleLost(r) \/ HandleRevalidate(r) \/ HandleTotal(r) \/ HandleGrant(r)
  \/ HandleIntent(r) \/ HandleUnverified(r) \/ HandleOutcome(r) \/ HandleUnknown(r) \/ HandleFinal(r)
  \/ HandleStop(r) \/ HandleGiveUp(r)

LEMMA FinishOthers ==
  ASSUME NEW r \in Run, NEW q \in Run \ {r}, NEW event, ServerType, Finish(r, event)
  PROVE  state'[q] = state[q] /\ lease'[q] = lease[q] /\ grant'[q] = grant[q]
BY DEF Finish, ServerType

LEMMA ServedOthers ==
  ASSUME NEW r \in Run, NEW q \in Run \ {r}, Types, HandleKnown(r)
  PROVE  SameServer(q) /\ SameDialogue(q) /\ SameExecutor(q)
<1> USE DEF Types, Handles
<1>1. UNCHANGED <<ctl, stored, browser>> /\ \E a : Answers(r, a)
  BY DEF HandleKnown, HandleInitial, HandleReset, HandleLost, HandleRevalidate,
     HandleTotal, HandleGrant, HandleIntent, HandleUnverified, HandleOutcome, HandleUnknown, HandleFinal,
     HandleStop, HandleGiveUp, Refuses, Stops, Advances, Succeeds
<1>2. SameDialogue(q) /\ SameExecutor(q)
  BY <1>1 DEF SameDialogue, SameExecutor, Answers, DialogueType, stored, browser
<1>3. CASE UNCHANGED server
  BY <1>2, <1>3 DEF SameServer, server
<1>4. CASE Stops(r)
  BY <1>2, <1>4, FinishOthers DEF SameServer, Stops, Stop
<1>5. CASE \E why : Fails(r, why)
  BY <1>2, <1>5, FinishOthers DEF SameServer, Fails, Stop, ServerType
<1>6. CASE \E event : Advances(r, event) /\ (UNCHANGED grant \/ grant' = [grant EXCEPT ![r] = "issued"])
  BY <1>2, <1>6 DEF SameServer, Advances, ServerType
<1>7. CASE ticket' = [ticket EXCEPT ![r] = "issued"] /\ UNCHANGED <<state, slots, lease, grant, done>>
  BY <1>2, <1>7 DEF SameServer, ServerType
<1>8. CASE Succeeds(r)
  <2>1. done'[q] = done[q] /\ ticket'[q] = ticket[q]
    BY <1>8 DEF Succeeds, ServerType
  <2>2. state'[q] = state[q] /\ lease'[q] = lease[q] /\ grant'[q] = grant[q]
    <3>1. CASE Stop(r)
      BY <3>1, FinishOthers DEF Stop
    <3>2. CASE state' = [state EXCEPT ![r] = IF done'[r] = Actions THEN "FINAL_VALIDATING" ELSE "FILLING"]
               /\ UNCHANGED <<slots, lease, grant>>
      BY <3>2 DEF ServerType
    <3>3. QED
      BY <1>8, <3>1, <3>2 DEF Succeeds
  <2>3. QED
    BY <1>2, <2>1, <2>2 DEF SameServer
<1>9. CASE Finish(r, "FILLED_AWAITING_SUBMISSION") /\ UNCHANGED <<done, ticket>>
  BY <1>2, <1>9, FinishOthers DEF SameServer
<1>10. QED
  BY <1>3, <1>4, <1>5, <1>6, <1>7, <1>8, <1>9 DEF HandleKnown, HandleInitial, HandleReset, HandleLost, HandleRevalidate,
     HandleTotal, HandleGrant, HandleIntent, HandleUnverified, HandleOutcome, HandleUnknown, HandleFinal,
     HandleStop, HandleGiveUp, Refuses

LEMMA ControlledOthers ==
  ASSUME NEW r \in Run, NEW q \in Run \ {r}, Types, Controller(r)
  PROVE  SameServer(q) /\ SameDialogue(q) /\ SameExecutor(q)
<1> USE DEF Types
<1>1. SameServer(q)
  BY DEF SameServer, server, Controller, Start, Started, NotStarted, InstallPreload, VerifyPreload, Revalidate,
     InstallTotal, VerifyTotal, AskGrant, NextAction, Check, Persist, Execute, ReportOutcome, Finalize, EndsAsTold,
     Over, Filled, GiveUp
<1>2. SameDialogue(q)
  <2>1. \/ \E request : Asks(r, request)
        \/ \E at : Pauses(r, at)
    BY DEF Controller, Start, Started, NotStarted, InstallPreload, VerifyPreload, Revalidate,
       InstallTotal, VerifyTotal, AskGrant, NextAction, Check, Persist, Execute, ReportOutcome, Finalize, EndsAsTold,
       Over, Filled, GiveUp
  <2>2. QED
    BY <2>1 DEF SameDialogue, Asks, Pauses, DialogueType
<1>3. SameExecutor(q)
  <2>1. CASE EndsAsTold(r)
    BY <2>1 DEF SameExecutor, ExecutorType, EndsAsTold, Over, browser
  <2>2. CASE ~EndsAsTold(r)
    BY <2>2 DEF SameExecutor, ExecutorType, stored, browser, Controller, Start, Started, NotStarted, InstallPreload,
       VerifyPreload, Revalidate, InstallTotal, VerifyTotal, AskGrant, NextAction, Check, Persist, Persists, Execute,
       ReportOutcome, Finalize, Filled, GiveUp
  <2>3. QED
    BY <2>1, <2>2
<1>4. QED
  BY <1>1, <1>2, <1>3

LEMMA EventOthers ==
  ASSUME NEW r \in Run, NEW q \in Run \ {r}, Types,
         HandleReport(r) \/ Lapse(r) \/ Stall(r) \/ Beat(r) \/ BeatLost(r) \/ Recovers(r)
  PROVE  SameServer(q) /\ SameDialogue(q) /\ SameExecutor(q)
<1> USE DEF Types
<1>1. SameDialogue(q) /\ SameExecutor(q)
  BY DEF SameDialogue, SameExecutor, ExecutorType, HandleReport, Lapse, Stall, Beat, BeatLost, Recovers,
     memory, stored, browser
<1>2. CASE HandleReport(r) \/ Recovers(r)
  <2>1. Stop(r) \/ UNCHANGED <<state, slots, lease, grant>>
    BY <1>2 DEF HandleReport, Recovers, Fails, server
  <2>2. state'[q] = state[q] /\ lease'[q] = lease[q] /\ grant'[q] = grant[q]
    BY <2>1, FinishOthers DEF Stop
  <2>3. UNCHANGED done /\ (UNCHANGED ticket \/ \E why : ticket' = [ticket EXCEPT ![r] = why])
    BY <1>2 DEF HandleReport, Recovers, Fails, server
  <2>4. done'[q] = done[q] /\ ticket'[q] = ticket[q]
    BY <2>3 DEF ServerType
  <2>5. QED
    BY <1>1, <2>2, <2>4 DEF SameServer
<1>3. CASE Lapse(r) \/ Stall(r) \/ BeatLost(r)
  BY <1>1, <1>3 DEF Lapse, Stall, BeatLost, SameServer, ServerType, server
<1>4. CASE Beat(r)
  BY <1>1, <1>4 DEF Beat, Reaps, SameServer, ServerType
<1>5. QED
  BY <1>2, <1>3, <1>4

LEMMA EnvironmentOthers ==
  ASSUME NEW r \in Run, NEW q \in Run \ {r}, Types,
         PageWrites(r) \/ Lost(r) \/ Detect(r) \/ HearDetection(r) \/ ReportLost(r) \/ CloseTab(r) \/ RemoveRules(r)
  PROVE  SameServer(q) /\ SameDialogue(q) /\ SameExecutor(q)
<1> USE DEF Types
<1>1. SameServer(q)
  BY DEF SameServer, server, PageWrites, Lost, Detect, HearDetection, ReportLost, CloseTab, RemoveRules
<1>2. SameDialogue(q)
  BY DEF SameDialogue, DialogueType, memory, Answers, PageWrites, Lost, Detect, HearDetection, ReportLost, CloseTab, RemoveRules
<1>3. SameExecutor(q)
  BY DEF SameExecutor, ExecutorType, stored, browser, PageWrites, Lost, Detect, HearDetection, ReportLost, CloseTab, RemoveRules
<1>4. QED
  BY <1>1, <1>2, <1>3

-----------------------------------------------------------------------------
(* Where the controller, its request and its answer may be, and that a run *)
(* the server has not heard of has left no trace.                          *)

Untouched(r) ==
  /\ ctl[r] \in {"off", "start", "unstarted", "dead"}
  /\ wire[r] \in {"none", "start"}
  /\ answer[r] \in {"none", "error"}
  /\ lease[r] = "none" /\ grant[r] = "none"
  /\ ~key[r] /\ mark[r] = 0 /\ rec[r] = "none" /\ page[r] = "idle"

Dialogue(r) ==
  /\ wire[r] = "none" \/ ctl[r] = wire[r] \/ ctl[r] = "dead"
  /\ answer[r] # "none" => wire[r] = "none" /\ ctl[r] \in Request
  /\ page[r] = "running" => wire[r] = "none" /\ ctl[r] \in {"executing", "dead"}

Fresh(r) ==
  /\ ctl[r] = "off" \/ wire[r] = "start" => state[r] = "NONE"
  /\ state[r] = "NONE" => Untouched(r)

Control(r) == Dialogue(r) /\ Fresh(r)

LEMMA SameControl ==
  ASSUME NEW q \in Run, Control(q), SameServer(q), SameDialogue(q), SameExecutor(q)
  PROVE  Control(q)'
BY DEF Control, Dialogue, Fresh, Untouched, SameServer, SameDialogue, SameExecutor

LEMMA InitControl == Init => \A r \in Run : Control(r)
BY DEF Init, Control, Dialogue, Fresh, Untouched

(* An answer ends the request; the run it is about is known.               *)
LEMMA ServedControl ==
  ASSUME NEW r \in Run, Types, Control(r), HandleKnown(r)
  PROVE  Control(r)'
<1> USE DEF Types, Handles
<1>1. wire[r] \in Request \ {"start"} /\ UNCHANGED <<ctl, stored, browser>> /\ \E a : Answers(r, a)
  BY DEF HandleKnown, HandleInitial, HandleReset, HandleLost, HandleRevalidate,
     HandleTotal, HandleGrant, HandleIntent, HandleUnverified, HandleOutcome, HandleUnknown, HandleFinal,
     HandleStop, HandleGiveUp, Refuses, Stops, Advances, Succeeds, Request
<1>2. wire[r] # "none" /\ wire[r] # "start" /\ wire[r] \in Request
  BY <1>1 DEF Request
<1>3. state[r] # "NONE" /\ (ctl[r] = "dead" \/ ctl[r] = wire[r]) /\ page[r] # "running"
  BY <1>2 DEF Control, Fresh, Untouched, Dialogue
<1>4. wire'[r] = "none" /\ (ctl[r] = "dead" => answer'[r] = "none") /\ ctl'[r] = ctl[r] /\ page'[r] = page[r]
  BY <1>1 DEF Answers, DialogueType, browser
<1>5. Dialogue(r)'
  BY <1>2, <1>3, <1>4 DEF Dialogue
<1>6. state'[r] # "NONE"
  <2>1. state'[r] = state[r] \/ state'[r] \in Working \cup Ended
    BY DEF HandleKnown, HandleInitial, HandleReset, HandleLost, HandleRevalidate,
       HandleTotal, HandleGrant, HandleIntent, HandleUnverified, HandleOutcome, HandleUnknown, HandleFinal,
       HandleStop, HandleGiveUp, Refuses, Stops, Advances, Succeeds, Fails, Stop, Finish, ServerType, server, Working, Ended
  <2>2. QED
    BY <1>3, <2>1 DEF Working, Ended
<1>7. ctl[r] # "off"
  BY <1>3 DEF Control, Fresh
<1>8. QED
  BY <1>4, <1>5, <1>6, <1>7 DEF Control, Fresh

LEMMA StartControl ==
  ASSUME NEW r \in Run, Types, \A q \in Run : Control(q), HandleStart(r), NEW q \in Run
  PROVE  Control(q)'
<1> USE DEF Types
<1>1. wire[r] = "start" /\ state[r] = "NONE" /\ ctl[r] \in {"start", "dead"} /\ UNCHANGED <<ctl, stored, browser>>
  BY DEF HandleStart, Handles, Control, Dialogue, Fresh
<1>2. wire' = [wire EXCEPT ![r] = "none"] /\ \E a : Answers(r, a)
  BY DEF HandleStart, Refuses, Answers
<1>3. CASE q = r
  <2>1. Dialogue(q)'
    BY <1>1, <1>2, <1>3 DEF Dialogue, Control, Answers, DialogueType, browser, Request
  <2>2. CASE SlotFree(r)
    BY <1>1, <1>2, <1>3, <2>1, <2>2 DEF HandleStart, Control, Fresh, DialogueType
  <2>3. CASE ~SlotFree(r)
    <3>1. UNCHANGED server /\ Answers(r, "error")
      BY <2>3 DEF HandleStart, Refuses
    <3>2. QED
      BY <1>1, <1>2, <1>3, <2>1, <3>1 DEF Control, Fresh, Untouched, Answers, DialogueType, server, stored, browser
  <2>4. QED
    BY <2>2, <2>3
<1>4. CASE q # r
  <2>1. SameDialogue(q) /\ SameExecutor(q)
    BY <1>1, <1>2, <1>4 DEF SameDialogue, SameExecutor, Answers, DialogueType, stored, browser
  <2>2. CASE SlotFree(r) /\ q \in Late
    <3>1. state[q] # "NONE" /\ state'[q] # "NONE"
      BY <1>4, <2>2 DEF HandleStart, Late, Control, Fresh, Untouched, ReapedState
    <3>2. QED
      BY <2>1, <3>1 DEF SameDialogue, SameExecutor, Control, Dialogue, Fresh
  <2>3. CASE ~(SlotFree(r) /\ q \in Late)
    <3>1. SameServer(q)
      BY <1>4, <2>3 DEF SameServer, HandleStart, Refuses, ServerType, server
    <3>2. QED
      BY <2>1, <3>1, SameControl
  <2>4. QED
    BY <2>2, <2>3
<1>5. QED
  BY <1>3, <1>4

(* A controller that goes on has no request under way.                     *)
LEMMA ControlledAwaits ==
  ASSUME NEW r \in Run, Types, Control(r), Controller(r)
  PROVE  wire[r] = "none"
BY DEF Types, Control, Dialogue, DialogueType, Request, Controller, Start, Started, NotStarted, InstallPreload,
   VerifyPreload, Revalidate, InstallTotal, VerifyTotal, AskGrant, NextAction, Check, Persist, Execute, ReportOutcome,
   Finalize, EndsAsTold, Over, Filled, GiveUp, Hears

LEMMA ControlledControl ==
  ASSUME NEW r \in Run, Types, Control(r), Controller(r)
  PROVE  Control(r)'
<1> USE DEF Types
<1>1. wire[r] = "none"
  BY ControlledAwaits
<1>2. CASE Start(r)
  BY <1>1, <1>2 DEF Start, Asks, Control, Dialogue, Fresh, Untouched, DialogueType, server, stored, browser
<1>3. CASE NotStarted(r)
  BY <1>1, <1>3 DEF NotStarted, Hears, Pauses, Control, Dialogue, Fresh, Untouched, DialogueType, server, stored, browser
<1>4. CASE ~Start(r) /\ ~NotStarted(r)
  <2>1. state[r] # "NONE" /\ state' = state
    <3>1. state' = state
      BY <1>4 DEF server, Controller, Started, InstallPreload, VerifyPreload, Revalidate,
         InstallTotal, VerifyTotal, AskGrant, NextAction, Check, Persist, Execute, ReportOutcome, Finalize, EndsAsTold,
         Over, Filled, GiveUp
    <3>2. SUFFICES ASSUME Untouched(r) PROVE FALSE
      BY <3>1 DEF Control, Fresh
    <3>3. ctl[r] \notin {"preloading", "totalling", "ready", "persisted", "executing"} /\ answer[r] \in {"none", "error"}
      BY <3>2 DEF Untouched
    <3>4. answer[r] = "error" => ctl[r] = "start"
      BY <3>2 DEF Untouched, Control, Dialogue, Request
    <3>5. CASE EndsAsTold(r) \/ Filled(r) \/ GiveUp(r)
      BY <3>3, <3>4, <3>5 DEF EndsAsTold, Filled, GiveUp, Hears
    <3>6. CASE VerifyPreload(r) \/ VerifyTotal(r) \/ Check(r) \/ Execute(r) \/ ReportOutcome(r) \/ Finalize(r)
      BY <3>3, <3>6 DEF VerifyPreload, VerifyTotal, Check, Execute, ReportOutcome, Finalize
    <3>7. QED
      BY <1>4, <3>3, <3>5, <3>6 DEF Controller, Started, InstallPreload, Revalidate, InstallTotal, AskGrant, NextAction,
         Persist, Hears
  <2>2. \/ \E request \in Request \ {"start"} : Asks(r, request)
        \/ \E at \in {"preloading", "totalling", "ready", "persisted", "executing", "over", "filled"} : Pauses(r, at)
    BY <1>4 DEF Controller, Started, InstallPreload, VerifyPreload, Revalidate,
       InstallTotal, VerifyTotal, AskGrant, NextAction, Check, Persist, Execute, ReportOutcome, Outcome, Finalize, EndsAsTold,
       Over, Filled, GiveUp, Request
  <2>3. (page'[r] = page[r] /\ page[r] # "running") \/ Execute(r) \/ ReportOutcome(r)
    BY <1>4 DEF Control, Dialogue, Request, browser, Controller, Started, InstallPreload, VerifyPreload, Revalidate,
       InstallTotal, VerifyTotal, AskGrant, NextAction, Check, Persist, Finalize, EndsAsTold,
       Over, Filled, GiveUp, Hears
  <2>4. Dialogue(r)'
    <3>1. CASE Execute(r)
      BY <1>1, <3>1 DEF Execute, Pauses, Dialogue, DialogueType
    <3>2. CASE ReportOutcome(r)
      BY <1>1, <3>2 DEF ReportOutcome, Asks, Dialogue, DialogueType, ExecutorType
    <3>3. CASE page'[r] = page[r] /\ page[r] # "running"
      BY <1>1, <2>2, <3>3 DEF Asks, Pauses, Dialogue, DialogueType
    <3>4. QED
      BY <2>3, <3>1, <3>2, <3>3
  <2>5. Fresh(r)'
    BY <1>1, <2>1, <2>2 DEF Asks, Pauses, Fresh, DialogueType, Request
  <2>6. QED
    BY <2>4, <2>5 DEF Control
<1>5. QED
  BY <1>2, <1>3, <1>4

LEMMA EventControl ==
  ASSUME NEW r \in Run, Types, Control(r),
         HandleReport(r) \/ Lapse(r) \/ Stall(r) \/ Beat(r) \/ BeatLost(r) \/ Recovers(r)
  PROVE  Control(r)'
<1> USE DEF Types
<1>1. SameDialogue(r) /\ page' = page
  BY DEF SameDialogue, memory, browser, HandleReport, Lapse, Stall, Beat, BeatLost, Recovers
<1>2. CASE Recovers(r) /\ UNCHANGED server
  BY <1>1, <1>2 DEF Recovers, Control, Dialogue, Fresh, Untouched, SameDialogue, ExecutorType, server
<1>3. CASE \/ BeatLost(r)
         \/ /\ UNCHANGED <<state, slots, lease, grant>>
            /\ HandleReport(r) \/ Lapse(r) \/ Stall(r) \/ Beat(r)
  BY <1>1, <1>3 DEF BeatLost, HandleReport, Lapse, Stall, Beat, Control, Dialogue, Fresh, Untouched, SameDialogue,
     server, stored
<1>4. CASE \/ Recovers(r) /\ ~UNCHANGED server
         \/ /\ ~UNCHANGED <<state, slots, lease, grant>>
            /\ HandleReport(r) \/ Lapse(r) \/ Stall(r) \/ Beat(r)
  <2>1. state[r] # "NONE" /\ state'[r] # "NONE"
    <3>1. CASE Stop(r) /\ (Active(r) \/ rec[r] = "unknown")
      BY <3>1 DEF Stop, Finish, Active, Working, Control, Fresh, Untouched, ServerType
    <3>2. CASE Lapse(r) \/ Stall(r)
      BY <3>2 DEF Lapse, Stall, Control, Fresh, Untouched
    <3>3. CASE Beat(r) /\ lease[r] = "late"
      BY <3>3 DEF Beat, Reaps, ReapedState, Control, Fresh, Untouched
    <3>4. QED
      BY <1>4, <3>1, <3>2, <3>3 DEF HandleReport, Recovers, Fails, MayStop, Beat
  <2>2. QED
    BY <1>1, <2>1 DEF Control, Dialogue, Fresh, SameDialogue
<1>5. QED
  BY <1>2, <1>3, <1>4

LEMMA EnvironmentControl ==
  ASSUME NEW r \in Run, Types, Control(r),
         PageWrites(r) \/ Lost(r) \/ Detect(r) \/ HearDetection(r) \/ ReportLost(r) \/ CloseTab(r) \/ RemoveRules(r)
  PROVE  Control(r)'
<1> USE DEF Types
<1>1. CASE PageWrites(r)
  BY <1>1 DEF PageWrites, Control, Dialogue, Fresh, Untouched, ExecutorType, server, memory, stored
<1>2. CASE Lost(r)
  BY <1>2 DEF Lost, Answers, Control, Dialogue, Fresh, Untouched, DialogueType, server, stored, browser, Request
<1>3. CASE Detect(r) \/ HearDetection(r) \/ ReportLost(r)
  BY <1>3 DEF Detect, HearDetection, ReportLost, Control, Dialogue, Fresh, Untouched, server, memory, stored, browser
<1>4. CASE CloseTab(r)
  BY <1>4 DEF CloseTab, Control, Dialogue, Fresh, Untouched, ExecutorType, server, stored
<1>5. CASE RemoveRules(r)
  BY <1>5 DEF RemoveRules, Control, Dialogue, Fresh, Untouched, ExecutorType, server, memory
<1>6. QED
  BY <1>1, <1>2, <1>3, <1>4, <1>5

LEMMA DeathControl ==
  ASSUME NEW b \in Browser, Types, WorkerDies(b), NEW q \in Run, Control(q)
  PROVE  Control(q)'
<1>1. CASE BrowserOf[q] = b /\ InMemory(q)
  BY <1>1 DEF WorkerDies, InMemory, Control, Dialogue, Fresh, Untouched, Types, DialogueType, ExecutorType, server, browser
<1>2. CASE ~(BrowserOf[q] = b /\ InMemory(q))
  BY <1>2 DEF WorkerDies, Control, Dialogue, Fresh, Untouched, server, browser
<1>3. QED
  BY <1>1, <1>2

LEMMA ReapControl ==
  ASSUME Types, Reap, NEW q \in Run, Control(q)
  PROVE  Control(q)'
BY DEF Reap, Reaps, ReapedState, Late, Control, Dialogue, Fresh, Untouched, memory, stored, browser

ControlInv == \A q \in Run : Control(q)

LEMMA NextControl == Types /\ ControlInv /\ [Next]_vars => ControlInv'
<1> SUFFICES ASSUME Types, ControlInv, [Next]_vars, NEW q \in Run PROVE Control(q)'
  BY DEF ControlInv
<1> USE DEF ControlInv
<1>1. CASE Reap
  BY <1>1, ReapControl
<1>2. ASSUME NEW b \in Browser, WorkerDies(b)
      PROVE  Control(q)'
  BY <1>2, DeathControl
<1>3. ASSUME NEW r \in Run, Handle(r)
      PROVE  Control(q)'
  <2>1. CASE HandleStart(r)
    BY <2>1, StartControl
  <2>2. CASE HandleKnown(r)
    BY <2>2, ServedControl, ServedOthers, SameControl
  <2>3. QED
    BY <1>3, <2>1, <2>2 DEF Handle, HandleKnown
<1>4. ASSUME NEW r \in Run, Controller(r)
      PROVE  Control(q)'
  BY <1>4, ControlledControl, ControlledOthers, SameControl
<1>5. ASSUME NEW r \in Run,
             HandleReport(r) \/ Lapse(r) \/ Stall(r) \/ Beat(r) \/ BeatLost(r) \/ Recovers(r)
      PROVE  Control(q)'
  BY <1>5, EventControl, EventOthers, SameControl
<1>6. ASSUME NEW r \in Run,
             PageWrites(r) \/ Lost(r) \/ Detect(r) \/ HearDetection(r) \/ ReportLost(r) \/ CloseTab(r) \/ RemoveRules(r)
      PROVE  Control(q)'
  BY <1>6, EnvironmentControl, EnvironmentOthers, SameControl
<1>7. CASE UNCHANGED vars
  BY <1>7, SameControl DEF vars, server, memory, stored, browser, SameServer, SameDialogue, SameExecutor
<1>8. QED
  BY <1>1, <1>2, <1>3, <1>4, <1>5, <1>6, <1>7 DEF Next

-----------------------------------------------------------------------------
(* The slot, the lease and the grant of a run go with its state.           *)

Moves(r, event) ==
  /\ Active(r) /\ event \in Working
  /\ state' = [state EXCEPT ![r] = event]
  /\ UNCHANGED <<slots, lease>>
  /\ \/ grant' = grant /\ (event \in {"FILLING", "FINAL_VALIDATING"} \/ state[r] \in {"OBSERVING", "REVALIDATING"})
     \/ grant' = [grant EXCEPT ![r] = "issued"] /\ event = "FILLING"

(* What a request but a start, a report or a recovery does to its run.     *)
Ends(r) == Active(r) /\ Stop(r)
Fills(r) == state[r] = "FINAL_VALIDATING" /\ Finish(r, "FILLED_AWAITING_SUBMISSION")
Serves(r) ==
  \/ UNCHANGED <<state, slots, lease, grant>>
  \/ Ends(r)
  \/ Fills(r)
  \/ \E event : Moves(r, event)

LEMMA ServedServes ==
  ASSUME NEW r \in Run, Types, Control(r), HandleKnown(r)
  PROVE  Serves(r)
<1> USE DEF Types, Handles
<1>1. wire[r] # "none" /\ wire[r] # "start"
  BY DEF HandleKnown, HandleInitial, HandleReset, HandleLost, HandleRevalidate, HandleTotal, HandleGrant,
     HandleIntent, HandleUnverified, HandleOutcome, HandleUnknown, HandleFinal, HandleStop, HandleGiveUp
<1>2. Active(r) \/ Terminal(r)
  BY <1>1 DEF Control, Fresh, Untouched, ServerType, Active, Terminal
<1>3. CASE HandleInitial(r) \/ HandleTotal(r)
  BY <1>3 DEF HandleInitial, HandleTotal, Refuses, Stops, Advances, Serves, Ends, Moves, Active, Working, server
<1>4. CASE HandleReset(r) \/ HandleLost(r) \/ HandleRevalidate(r) \/ HandleUnknown(r) \/ HandleStop(r) \/ HandleGiveUp(r)
  BY <1>2, <1>4 DEF HandleReset, HandleLost, HandleRevalidate, HandleUnknown, HandleStop, HandleGiveUp, Refuses, Stops,
     Fails, MayStop, Serves, Ends, server, Active, Working
<1>5. CASE HandleGrant(r)
  BY <1>2, <1>5 DEF HandleGrant, Refuses, Stops, Advances, Serves, Ends, Moves, Working, server
<1>6. CASE HandleIntent(r) \/ HandleUnverified(r)
  BY <1>6 DEF HandleIntent, HandleUnverified, Refuses, Stops, Serves, Ends, server, Active, Working
<1>7. CASE HandleOutcome(r)
  BY <1>7 DEF HandleOutcome, Refuses, Succeeds, Fails, Serves, Ends, Moves, server, Active, Working
<1>8. CASE HandleFinal(r)
  BY <1>8 DEF HandleFinal, Refuses, Stops, Serves, Ends, Fills, server, Active, Working
<1>9. QED
  BY <1>3, <1>4, <1>5, <1>6, <1>7, <1>8 DEF HandleKnown

LEMMA ReportedServes ==
  ASSUME NEW r \in Run, HandleReport(r) \/ Recovers(r)
  PROVE  Serves(r)
BY DEF HandleReport, Recovers, Fails, MayStop, Serves, Ends, server

LEMMA ServesLedger ==
  ASSUME NEW r \in Run, ServerType, EndedHoldsNothing, Serves(r)
  PROVE  EndedHoldsNothing'
<1>1. /\ \A q \in Run \ {r} :
           /\ state'[q] = state[q] /\ lease'[q] = lease[q] /\ grant'[q] = grant[q]
           /\ q \in slots' <=> q \in slots
      /\ slots' \subseteq slots
  BY DEF Serves, Ends, Fills, Moves, Stop, Finish, ServerType
<1>2. /\ r \in slots' <=> state'[r] \in Working
      /\ state'[r] \in Working => lease'[r] # "none"
      /\ lease'[r] # "none" => state'[r] \in Working \/ state'[r] = "FILLED_AWAITING_SUBMISSION"
      /\ grant'[r] = "issued" => state'[r] \in {"FILLING", "FINAL_VALIDATING"} \cup (Ended \ {"FILL_STOPPED"})
  <2>1. CASE UNCHANGED <<state, slots, lease, grant>>
    BY <2>1 DEF EndedHoldsNothing, Active
  <2>2. CASE Ends(r)
    BY <2>2 DEF EndedHoldsNothing, Ends, Active, Stop, Finish, ServerType, Working, Ended
  <2>3. CASE Fills(r)
    BY <2>3 DEF EndedHoldsNothing, Fills, Active, Finish, ServerType, Working, Ended
  <2>4. CASE \E event : Moves(r, event)
    BY <2>4 DEF EndedHoldsNothing, Moves, Active, ServerType, Working, Ended
  <2>5. QED
    BY <2>1, <2>2, <2>3, <2>4 DEF Serves
<1>3. QED
  BY <1>1, <1>2 DEF EndedHoldsNothing, Active

(* A sweep takes all from the runs it finds; they are none of a start's.   *)
LEMMA ReapsLedger ==
  ASSUME NEW R \in SUBSET Run, ServerType, EndedHoldsNothing, \A q \in R : lease[q] # "none", Reaps(R)
  PROVE  EndedHoldsNothing'
BY DEF EndedHoldsNothing, Reaps, ReapedState, ReapedGrant, Active, Working, Ended, ServerType

LEMMA LeasesLedger ==
  ASSUME NEW r \in Run, ServerType, EndedHoldsNothing, UNCHANGED <<state, slots, grant>>,
         lease[r] # "none", lease' = [lease EXCEPT ![r] = "late"]
  PROVE  EndedHoldsNothing'
BY DEF EndedHoldsNothing, Active, ServerType

LEMMA StartLedger ==
  ASSUME NEW r \in Run, Types, Control(r), EndedHoldsNothing, HandleStart(r)
  PROVE  EndedHoldsNothing'
<1> USE DEF Types
<1>1. state[r] = "NONE" /\ lease[r] = "none" /\ grant[r] = "none"
  BY DEF HandleStart, Handles, Control, Fresh, Untouched
<1>2. CASE SlotFree(r)
  <2>1. r \notin Late /\ Late \subseteq Run
    BY <1>1 DEF Late
  <2>2. /\ state'[r] = "OBSERVING" /\ lease'[r] = "live" /\ grant'[r] = "none"
        /\ slots' = (slots \ Late) \cup {r}
    BY <1>1, <1>2, <2>1 DEF HandleStart, ServerType
  <2>3. ASSUME NEW q \in Run \ {r}
        PROVE  /\ state'[q] = IF q \in Late THEN ReapedState(q) ELSE state[q]
               /\ lease'[q] = IF q \in Late THEN "none" ELSE lease[q]
               /\ grant'[q] = IF q \in Late THEN ReapedGrant(q) ELSE grant[q]
    BY <1>2 DEF HandleStart
  <2>4. ASSUME NEW q \in Run
        PROVE  /\ q \in slots' <=> Active(q)'
               /\ Active(q)' => lease'[q] # "none"
               /\ lease'[q] # "none" => Active(q)' \/ state'[q] = "FILLED_AWAITING_SUBMISSION"
               /\ grant'[q] = "issued" => state'[q] \in {"FILLING", "FINAL_VALIDATING"} \cup (Ended \ {"FILL_STOPPED"})
    <3>1. CASE q = r
      BY <2>2, <3>1 DEF Active, Working
    <3>2. CASE q # r /\ q \in Late
      BY <2>2, <2>3, <3>2 DEF EndedHoldsNothing, Active, ReapedState, ReapedGrant, Late, Working, Ended
    <3>3. CASE q # r /\ q \notin Late
      BY <2>2, <2>3, <3>3 DEF EndedHoldsNothing, Active
    <3>4. QED
      BY <3>1, <3>2, <3>3
  <2>5. ASSUME NEW p \in slots', NEW q \in slots', WsOf[p] = WsOf[q]
        PROVE  p = q
    BY <1>2, <2>2, <2>5 DEF SlotFree, EndedHoldsNothing, ServerType
  <2>6. slots' \subseteq Run
    BY <2>2 DEF ServerType
  <2>7. QED
    BY <2>4, <2>5, <2>6 DEF EndedHoldsNothing
<1>3. CASE ~SlotFree(r)
  BY <1>3 DEF HandleStart, Refuses, server, EndedHoldsNothing, Active
<1>4. QED
  BY <1>2, <1>3

LEMMA SameLedger == EndedHoldsNothing /\ UNCHANGED <<state, slots, lease, grant>> => EndedHoldsNothing'
BY DEF EndedHoldsNothing, Active

(* The steps that leave the server alone.                                  *)
LEMMA Elsewhere ==
  ASSUME \/ \E r \in Run : \/ Controller(r) \/ PageWrites(r) \/ BeatLost(r) \/ Lost(r) \/ Detect(r) \/ HearDetection(r)
                           \/ ReportLost(r) \/ CloseTab(r) \/ RemoveRules(r)
         \/ \E b \in Browser : WorkerDies(b)
         \/ UNCHANGED vars
  PROVE  UNCHANGED server
<1>1. ASSUME NEW r \in Run, Controller(r)
      PROVE  UNCHANGED server
  BY <1>1 DEF Controller, Start, Started, NotStarted, InstallPreload, VerifyPreload, Revalidate, InstallTotal,
     VerifyTotal, AskGrant, NextAction, Check, Persist, Execute, ReportOutcome, Finalize, EndsAsTold, Over, Filled, GiveUp
<1>2. QED
  BY <1>1 DEF PageWrites, BeatLost, Lost, Detect, HearDetection, ReportLost, CloseTab, RemoveRules, WorkerDies, vars

LEMMA NextLedger == Types /\ ControlInv /\ EndedHoldsNothing /\ [Next]_vars => EndedHoldsNothing'
<1> SUFFICES ASSUME Types, ControlInv, EndedHoldsNothing, [Next]_vars PROVE EndedHoldsNothing'
  OBVIOUS
<1>1. CASE UNCHANGED server
  BY <1>1, SameLedger DEF server
<1>2. CASE Reap
  BY <1>2, ReapsLedger DEF Reap, Late, Types
<1>3. ASSUME NEW r \in Run, HandleStart(r)
      PROVE  EndedHoldsNothing'
  BY <1>3, StartLedger DEF ControlInv
<1>4. ASSUME NEW r \in Run, HandleKnown(r) \/ HandleReport(r) \/ Recovers(r)
      PROVE  EndedHoldsNothing'
  BY <1>4, ServedServes, ReportedServes, ServesLedger DEF ControlInv, Types
<1>5. ASSUME NEW r \in Run, Lapse(r) \/ Stall(r)
      PROVE  EndedHoldsNothing'
  <2>1. UNCHANGED <<state, slots, grant>> /\ lease[r] # "none" /\ lease' = [lease EXCEPT ![r] = "late"]
    BY <1>5 DEF Lapse, Stall
  <2>2. QED
    BY <2>1, LeasesLedger DEF Types
<1>6. ASSUME NEW r \in Run, Beat(r)
      PROVE  EndedHoldsNothing'
  <2>1. CASE lease[r] = "late"
    BY <1>6, <2>1, ReapsLedger DEF Beat, Types
  <2>2. CASE lease[r] # "late"
    BY <1>6, <2>2, SameLedger DEF Beat
  <2>3. QED
    BY <2>1, <2>2
<1>7. QED
  BY <1>1, <1>2, <1>3, <1>4, <1>5, <1>6, Elsewhere DEF Next, Handle, HandleKnown

-----------------------------------------------------------------------------
(* What has ended stays ended.                                             *)

StaysEnded(q) ==
  Terminal(q) =>
    /\ state'[q] = state[q] \/ (state[q] = "FILLED_AWAITING_SUBMISSION" /\ state'[q] = "FILLED_CONTEXT_UNVERIFIED")
    /\ done'[q] = done[q]

LEMMA ServesStaysEnded ==
  ASSUME NEW r \in Run, ServerType, Serves(r), Terminal(r)
  PROVE  UNCHANGED <<state, slots, lease, grant>>
BY DEF Serves, Ends, Fills, Moves, Active, Terminal, Working, Ended

LEMMA ReapsStaysEnded ==
  ASSUME NEW R \in SUBSET Run, \A q \in R : lease[q] # "none", EndedHoldsNothing, Reaps(R), UNCHANGED done, NEW q \in Run
  PROVE  StaysEnded(q)
BY DEF EndedHoldsNothing, Reaps, ReapedState, StaysEnded, Active, Terminal, Working, Ended

LEMMA ServedKeepsDone ==
  ASSUME NEW r \in Run, HandleKnown(r), Terminal(r)
  PROVE  done' = done
BY DEF Handles, HandleKnown, HandleInitial, HandleReset, HandleLost, HandleRevalidate, HandleTotal, HandleGrant,
   HandleIntent, HandleUnverified, HandleOutcome, HandleUnknown, HandleFinal, HandleStop, HandleGiveUp, Refuses, Stops,
   Fails, Advances, server, Terminal, Ended

LEMMA NextStaysEnded ==
  ASSUME Types, ControlInv, EndedHoldsNothing, [Next]_vars, NEW q \in Run
  PROVE  StaysEnded(q)
<1>1. CASE UNCHANGED server
  BY <1>1 DEF server, StaysEnded
<1>2. CASE Reap
  BY <1>2, ReapsStaysEnded DEF Reap, Late
<1>3. ASSUME NEW r \in Run, HandleStart(r)
      PROVE  StaysEnded(q)
  <2>1. state[r] = "NONE"
    BY <1>3 DEF HandleStart, Handles, ControlInv, Control, Fresh
  <2>2. UNCHANGED done
    BY <1>3 DEF HandleStart, Refuses, server
  <2>3. CASE SlotFree(r) /\ q \in Late /\ q # r
    BY <1>3, <2>2, <2>3 DEF HandleStart, StaysEnded, EndedHoldsNothing, Late, ReapedState, Active, Terminal, Working, Ended
  <2>4. CASE ~(SlotFree(r) /\ q \in Late /\ q # r)
    BY <1>3, <2>1, <2>2, <2>4 DEF HandleStart, Refuses, server, StaysEnded, Terminal, Ended
  <2>5. QED
    BY <2>3, <2>4
<1>4. ASSUME NEW r \in Run, HandleKnown(r) \/ HandleReport(r) \/ Recovers(r)
      PROVE  StaysEnded(q)
  <2>1. CASE q = r
    <3>1. SUFFICES ASSUME Terminal(r) PROVE state' = state /\ done' = done
      BY <2>1 DEF StaysEnded
    <3>2. state' = state
      BY <1>4, <3>1, ServedServes, ReportedServes, ServesStaysEnded DEF ControlInv, Types
    <3>3. done' = done
      BY <1>4, <3>1, ServedKeepsDone DEF HandleReport, Recovers, Fails, server
    <3>4. QED
      BY <3>2, <3>3
  <2>2. CASE q # r
    BY <1>4, <2>2, ServedOthers, EventOthers DEF SameServer, StaysEnded
  <2>3. QED
    BY <2>1, <2>2
<1>5. ASSUME NEW r \in Run, Lapse(r) \/ Stall(r)
      PROVE  StaysEnded(q)
  BY <1>5 DEF Lapse, Stall, StaysEnded
<1>6. ASSUME NEW r \in Run, Beat(r)
      PROVE  StaysEnded(q)
  <2>1. CASE lease[r] = "late"
    BY <1>6, <2>1, ReapsStaysEnded DEF Beat
  <2>2. CASE lease[r] # "late"
    BY <1>6, <2>2 DEF Beat, StaysEnded
  <2>3. QED
    BY <2>1, <2>2
<1>7. QED
  BY <1>1, <1>2, <1>3, <1>4, <1>5, <1>6, Elsewhere DEF Next, Handle, HandleKnown

-----------------------------------------------------------------------------
(* What the form holds and what the server has on record.                  *)

Early == {"off", "start", "unstarted", "initial", "preloading", "reset", "lost", "revalidate", "totalling", "total", "grant"}
Quiet == Early \cup {"ready", "intent", "persisted"}
Complete == {"FINAL_VALIDATING", "FILLED_AWAITING_SUBMISSION", "FILLED_CONTEXT_UNVERIFIED"}

Bounded(r) ==
  /\ done[r] <= Actions /\ mark[r] <= Actions
  /\ done[r] <= written[r] /\ written[r] <= done[r] + 1

(* Where the form holds what is on record, and where one action more.      *)
Certain(r) ==
  /\ ticket[r] = "none" => written[r] = done[r]
  /\ ctl[r] \in Quiet => written[r] = done[r]
  /\ ctl[r] = "outcomeOk" /\ answer[r] = "yes" => written[r] = done[r]
  /\ page[r] = "running" => written[r] = done[r]
  /\ wire[r] = "outcomeOk" => written[r] = done[r] + 1
  /\ ctl[r] = "executing" /\ page[r] = "good" => written[r] = done[r] + 1

(* An action is on its way to the page only after its intent.              *)
Allowed(r) ==
  /\ ctl[r] = "persisted" => ticket[r] # "none"
  /\ ctl[r] = "intent" /\ answer[r] = "yes" => ticket[r] # "none"
  /\ page[r] = "running" => ticket[r] # "none"

Counted(r) ==
  /\ ctl[r] \in Early => done[r] = 0
  /\ wire[r] \in Early => done[r] = 0
  /\ ctl[r] = "intent" => done[r] < Actions
  /\ state[r] = "FILLING" => done[r] < Actions
  /\ state[r] \in Complete => done[r] = Actions /\ ticket[r] = "none"

Write(r) == Bounded(r) /\ Certain(r) /\ Allowed(r) /\ Counted(r)

LEMMA SameWrite ==
  ASSUME NEW q \in Run, Write(q), SameServer(q), SameDialogue(q), SameExecutor(q)
  PROVE  Write(q)'
BY DEF Write, Bounded, Certain, Allowed, Counted, SameServer, SameDialogue, SameExecutor

LEMMA InitWrite == Init => \A r \in Run : Write(r)
BY FillAssumption DEF FillAssumption, Init, Write, Bounded, Certain, Allowed, Counted, Early, Quiet, Complete

(* The end of a run leaves its counts alone; one that is swept was filled  *)
(* or stops.                                                               *)
LEMMA StateWrite ==
  ASSUME NEW q \in Run, Write(q), SameDialogue(q), SameExecutor(q), done'[q] = done[q], ticket'[q] = ticket[q],
         \/ state'[q] \in {state[q], "OBSERVING", "FILL_STOPPED"}
         \/ state[q] \in Complete /\ state'[q] \in Complete
  PROVE  Write(q)'
BY DEF Write, Bounded, Certain, Allowed, Counted, SameDialogue, SameExecutor, Complete

LEMMA ReapedWrite ==
  ASSUME EndedHoldsNothing, NEW q \in Run, lease[q] # "none"
  PROVE  ReapedState(q) = "FILL_STOPPED" \/ (state[q] \in Complete /\ ReapedState(q) \in Complete)
BY DEF EndedHoldsNothing, ReapedState, Complete

LEMMA ServedWrite ==
  ASSUME NEW r \in Run, Types, Control(r), Write(r), HandleKnown(r)
  PROVE  Write(r)'
<1> USE DEF Types, Handles
<1>1. wire[r] # "none" /\ UNCHANGED <<ctl, stored, browser>> /\ \E a : Answers(r, a)
  BY DEF HandleKnown, HandleInitial, HandleReset, HandleLost, HandleRevalidate,
     HandleTotal, HandleGrant, HandleIntent, HandleUnverified, HandleOutcome, HandleUnknown, HandleFinal,
     HandleStop, HandleGiveUp, Refuses, Stops, Advances, Succeeds
<1>2. /\ ctl'[r] = ctl[r] /\ page'[r] = page[r] /\ written'[r] = written[r] /\ mark'[r] = mark[r]
      /\ wire'[r] = "none"
      /\ page[r] # "running"
      /\ ctl[r] = wire[r] \/ ctl[r] = "dead"
      /\ ctl[r] = "dead" => answer'[r] = "none"
  BY <1>1 DEF stored, browser, Answers, DialogueType, Control, Dialogue
<1>3. /\ "none" \notin Early /\ "dead" \notin Quiet /\ "executing" \notin Quiet /\ "outcomeOk" \notin Quiet
      /\ Early \subseteq Quiet
  BY DEF Early, Quiet
<1>4. done[r] \in Nat /\ written[r] \in Nat /\ mark[r] \in Nat /\ Actions \in Nat
  BY FillAssumption DEF FillAssumption, ServerType, ExecutorType
<1>5. CASE /\ wire[r] # "outcomeOk" /\ wire[r] # "intent"
           /\ done'[r] = done[r] /\ ticket'[r] = ticket[r]
           /\ \/ state'[r] = state[r]
              \/ state'[r] \notin Complete \cup {"FILLING"}
              \/ state'[r] = "FILLING" /\ wire[r] = "grant"
              \/ state'[r] \in Complete /\ state[r] \in Complete
  <2>1. Bounded(r)' /\ Certain(r)' /\ Allowed(r)'
    BY <1>2, <1>3, <1>5 DEF Write, Bounded, Certain, Allowed
  <2>2. wire[r] = "grant" => done[r] < Actions
    BY <1>4, FillAssumption DEF FillAssumption, Write, Counted, Early
  <2>3. "FILLING" \notin Complete
    BY DEF Complete
  <2>4. Counted(r)'
    BY <1>2, <1>3, <1>5, <2>2, <2>3 DEF Write, Counted
  <2>5. QED
    BY <2>1, <2>4 DEF Write
<1>6. CASE /\ wire[r] = "intent" /\ done'[r] = done[r]
           /\ \/ state'[r] = "FILL_STOPPED" /\ answer'[r] # "yes" /\ ticket'[r] = ticket[r]
              \/ state'[r] = state[r] /\ answer'[r] # "yes" /\ ticket'[r] = ticket[r]
              \/ state'[r] = state[r] /\ state[r] = "FILLING" /\ ticket'[r] = "issued"
  <2>1. Bounded(r)' /\ Certain(r)' /\ Allowed(r)'
    BY <1>2, <1>3, <1>6 DEF Write, Bounded, Certain, Allowed
  <2>2. Counted(r)'
    BY <1>2, <1>3, <1>6 DEF Write, Counted, Complete
  <2>3. QED
    BY <2>1, <2>2 DEF Write
<1>7. CASE /\ wire[r] \in {"outcomeOk", "outcomeBad", "unknown"} /\ done'[r] = done[r] /\ answer'[r] # "yes"
           /\ \/ state'[r] = "FILL_STOPPED" /\ ticket'[r] # "none"
              \/ state'[r] = state[r] /\ ticket'[r] = ticket[r]
  <2>1. Bounded(r)' /\ Certain(r)' /\ Allowed(r)'
    BY <1>2, <1>3, <1>7 DEF Write, Bounded, Certain, Allowed, Quiet, Early
  <2>2. Counted(r)'
    BY <1>2, <1>3, <1>7 DEF Write, Counted, Complete, Early
  <2>3. QED
    BY <2>1, <2>2 DEF Write
<1>8. CASE /\ wire[r] = "outcomeOk" /\ state[r] = "FILLING" /\ done'[r] = done[r] + 1 /\ ticket'[r] = "none"
           /\ \/ state'[r] = "FILL_STOPPED"
              \/ state'[r] = IF done'[r] = Actions THEN "FINAL_VALIDATING" ELSE "FILLING"
  <2>1. written[r] = done[r] + 1 /\ done[r] < Actions
    BY <1>8 DEF Write, Certain, Counted
  <2>2. ctl[r] \in {"outcomeOk", "dead"}
    BY <1>2, <1>8
  <2>3. Bounded(r)' /\ Certain(r)' /\ Allowed(r)'
    BY <1>2, <1>3, <1>4, <1>8, <2>1, <2>2 DEF Write, Bounded, Certain, Allowed, Quiet, Early
  <2>4. Counted(r)'
    BY <1>2, <1>4, <1>8, <2>1, <2>2 DEF Write, Counted, Complete, Early
  <2>5. QED
    BY <2>3, <2>4 DEF Write
<1>9. CASE \/ HandleInitial(r) \/ HandleReset(r) \/ HandleLost(r) \/ HandleRevalidate(r) \/ HandleTotal(r) \/ HandleGrant(r)
           \/ HandleUnverified(r) \/ HandleStop(r) \/ HandleGiveUp(r) \/ HandleFinal(r)
  BY <1>5, <1>9 DEF HandleInitial, HandleReset, HandleLost, HandleRevalidate, HandleTotal, HandleGrant, HandleUnverified,
     HandleStop, HandleGiveUp, HandleFinal, Refuses, Stops, Advances, Stop, Finish, server, ServerType, Complete
<1>10. CASE HandleIntent(r)
  BY <1>6, <1>10 DEF HandleIntent, Refuses, Stops, Answers, Stop, Finish, server, ServerType, DialogueType
<1>11. CASE HandleUnknown(r)
  BY <1>7, <1>11 DEF HandleUnknown, Refuses, Fails, Answers, Stop, Finish, server, ServerType, DialogueType
<1>12. CASE HandleOutcome(r)
  <2>1. CASE Succeeds(r) /\ wire[r] = "outcomeOk" /\ state[r] = "FILLING"
    <3>1. done'[r] = done[r] + 1 /\ ticket'[r] = "none"
      BY <2>1 DEF Succeeds, ServerType
    <3>2. \/ state'[r] = "FILL_STOPPED"
          \/ state'[r] = IF done'[r] = Actions THEN "FINAL_VALIDATING" ELSE "FILLING"
      BY <2>1 DEF Succeeds, Stop, Finish, ServerType
    <3>3. QED
      BY <1>8, <2>1, <3>1, <3>2
  <2>2. CASE Refuses(r) \/ (Fails(r, "failed") /\ Answers(r, "ended"))
    BY <1>7, <1>12, <2>2 DEF HandleOutcome, Refuses, Fails, Answers, Stop, Finish, server, ServerType, DialogueType
  <2>3. QED
    BY <1>12, <2>1, <2>2 DEF HandleOutcome
<1>13. QED
  BY <1>9, <1>10, <1>11, <1>12 DEF HandleKnown

LEMMA ControlledWrite ==
  ASSUME NEW r \in Run, Types, Control(r), Write(r), Controller(r)
  PROVE  Write(r)'
<1> USE DEF Types
<1>1. wire[r] = "none"
  BY ControlledAwaits
<1>2. /\ state'[r] = state[r] /\ done'[r] = done[r] /\ ticket'[r] = ticket[r] /\ written'[r] = written[r]
  BY Elsewhere DEF server, browser, Controller, Start, Started, NotStarted, InstallPreload, VerifyPreload, Revalidate,
     InstallTotal, VerifyTotal, AskGrant, NextAction, Check, Persist, Execute, ReportOutcome, Finalize, EndsAsTold,
     Over, Filled, GiveUp
<1>3. done[r] \in Nat /\ written[r] \in Nat /\ mark[r] \in Nat /\ Actions \in Nat
  BY FillAssumption DEF FillAssumption, ServerType, ExecutorType
<1>4. CASE \E at \in Early, to \in Early \ {"off"} :
             ctl[r] = at /\ page' = page /\ mark' = mark /\ (Asks(r, to) \/ Pauses(r, to))
  <2>1. PICK to \in Early \ {"off"} : Asks(r, to) \/ Pauses(r, to)
    BY <1>4
  <2>2. ctl'[r] \in Early /\ wire'[r] \in Early \cup {"none"} /\ answer'[r] = "none"
    BY <1>1, <2>1 DEF Asks, Pauses, DialogueType
  <2>3. ctl[r] \in Early /\ done[r] = 0 /\ written[r] = 0 /\ page'[r] = page[r] /\ mark'[r] = mark[r]
    BY <1>3, <1>4 DEF Write, Certain, Counted, Quiet
  <2>4. /\ "executing" \notin Early /\ "persisted" \notin Early /\ "intent" \notin Early /\ "outcomeOk" \notin Early
    BY DEF Early
  <2>5. Bounded(r)' /\ Certain(r)' /\ Allowed(r)' /\ Counted(r)'
    BY <1>2, <1>3, <2>2, <2>3, <2>4 DEF Write, Bounded, Certain, Allowed, Counted
  <2>6. QED
    BY <2>5 DEF Write
<1>5. CASE /\ page' = page /\ mark'[r] <= mark[r]
           /\ \/ \E to \in {"stop", "intentUnverified", "final", "giveUp"} : Asks(r, to)
              \/ \E at \in {"over", "filled"} : Pauses(r, at)
  <2>1. /\ ctl'[r] \in {"stop", "intentUnverified", "final", "giveUp", "over", "filled"}
        /\ wire'[r] \in {"stop", "intentUnverified", "final", "giveUp", "none"}
        /\ page'[r] = page[r]
    BY <1>1, <1>5 DEF Asks, Pauses, DialogueType
  <2>2. mark'[r] <= Actions
    BY <1>3, <1>5, NextTypes DEF Write, Bounded, ExecutorType, Next
  <2>3. Bounded(r)' /\ Certain(r)' /\ Allowed(r)' /\ Counted(r)'
    BY <1>2, <2>1, <2>2 DEF Write, Bounded, Certain, Allowed, Counted, Early, Quiet
  <2>4. QED
    BY <2>3 DEF Write
<1>6. CASE NextAction(r)
  <2>1. /\ written[r] = done[r] /\ ctl'[r] = "ready" /\ wire'[r] = "none" /\ mark'[r] = 0 /\ page'[r] = page[r]
    BY <1>1, <1>6 DEF NextAction, Hears, Pauses, DialogueType, ExecutorType, browser, Write, Certain, Early, Quiet
  <2>2. Bounded(r)' /\ Certain(r)' /\ Allowed(r)' /\ Counted(r)'
    BY <1>2, <1>3, <2>1 DEF Write, Bounded, Certain, Allowed, Counted, Early
  <2>3. QED
    BY <2>2 DEF Write
<1>7. CASE Check(r) /\ Asks(r, "intent")
  <2>1. /\ written[r] = done[r] /\ ctl'[r] = "intent" /\ wire'[r] = "intent" /\ answer'[r] = "none"
        /\ mark'[r] = mark[r] /\ page'[r] = page[r] /\ done[r] < Actions
    BY <1>7 DEF Check, Asks, DialogueType, stored, browser, Write, Certain, Early, Quiet
  <2>2. Bounded(r)' /\ Certain(r)' /\ Allowed(r)' /\ Counted(r)'
    BY <1>2, <1>3, <2>1 DEF Write, Bounded, Certain, Allowed, Counted, Early
  <2>3. QED
    BY <2>2 DEF Write
<1>8. CASE Persist(r)
  <2>1. /\ written[r] = done[r] /\ ticket[r] # "none" /\ ctl'[r] = "persisted" /\ wire'[r] = "none"
        /\ mark'[r] = done[r] + 1 /\ page'[r] = page[r] /\ done[r] < Actions
    BY <1>1, <1>8 DEF Persist, Persists, Hears, Pauses, DialogueType, ExecutorType, browser,
       Write, Certain, Allowed, Counted, Quiet
  <2>2. Bounded(r)' /\ Certain(r)' /\ Allowed(r)' /\ Counted(r)'
    BY <1>2, <1>3, <2>1 DEF Write, Bounded, Certain, Allowed, Counted, Early
  <2>3. QED
    BY <2>2 DEF Write
<1>9. CASE Execute(r)
  <2>1. /\ written[r] = done[r] /\ ticket[r] # "none" /\ ctl'[r] = "executing" /\ wire'[r] = "none"
        /\ mark'[r] = mark[r] /\ page'[r] = "running"
    BY <1>1, <1>9 DEF Execute, Pauses, DialogueType, ExecutorType, stored, Write, Certain, Allowed, Quiet
  <2>2. Bounded(r)' /\ Certain(r)' /\ Allowed(r)' /\ Counted(r)'
    BY <1>2, <1>3, <2>1 DEF Write, Bounded, Certain, Allowed, Counted, Early, Quiet
  <2>3. QED
    BY <2>2 DEF Write
<1>10. CASE ReportOutcome(r)
  <2>1. /\ ctl[r] = "executing" /\ ctl'[r] = wire'[r] /\ answer'[r] = "none" /\ mark'[r] = mark[r] /\ page'[r] = "idle"
        /\ wire'[r] \in {"outcomeOk", "outcomeBad", "unknown"}
        /\ wire'[r] = "outcomeOk" => page[r] = "good"
    BY <1>10 DEF ReportOutcome, Outcome, Asks, DialogueType, ExecutorType, stored
  <2>2. Bounded(r)' /\ Certain(r)' /\ Allowed(r)' /\ Counted(r)'
    BY <1>2, <1>3, <2>1 DEF Write, Bounded, Certain, Allowed, Counted, Early, Quiet
  <2>3. QED
    BY <2>2 DEF Write
<1>11. CASE Start(r) \/ NotStarted(r) \/ InstallPreload(r) \/ VerifyPreload(r) \/ Revalidate(r) \/ InstallTotal(r)
            \/ VerifyTotal(r) \/ AskGrant(r) \/ (Started(r) /\ Asks(r, "initial"))
  BY <1>4, <1>11 DEF Start, Started, NotStarted, InstallPreload, VerifyPreload, Revalidate, InstallTotal, VerifyTotal,
     AskGrant, Hears, stored, browser, Early
<1>12. CASE \/ (Started(r) \/ Check(r)) /\ (Asks(r, "stop") \/ Asks(r, "intentUnverified"))
            \/ Finalize(r) \/ EndsAsTold(r) \/ Filled(r) \/ GiveUp(r)
  <2>1. mark'[r] <= mark[r]
    BY <1>3, <1>12 DEF Started, Check, Finalize, EndsAsTold, Over, Filled, GiveUp, stored, ExecutorType
  <2>2. QED
    BY <1>5, <1>12, <2>1 DEF Started, Check, Finalize, EndsAsTold, Over, Filled, GiveUp, browser
<1>13. QED
  BY <1>6, <1>7, <1>8, <1>9, <1>10, <1>11, <1>12 DEF Controller, Started, Check

LEMMA StartWrite ==
  ASSUME NEW r \in Run, Types, ControlInv, EndedHoldsNothing, HandleStart(r), NEW q \in Run, Write(q)
  PROVE  Write(q)'
<1> USE DEF Types
<1>1. UNCHANGED <<ctl, done, ticket, stored, browser>> /\ wire' = [wire EXCEPT ![r] = "none"]
  BY DEF HandleStart, Handles, Refuses, Answers, server
<1>2. state'[q] \in {state[q], "OBSERVING", "FILL_STOPPED"} \/ (state[q] \in Complete /\ state'[q] \in Complete)
  <2>1. CASE SlotFree(r) /\ q # r /\ q \in Late
    BY <2>1, ReapedWrite DEF HandleStart, Late
  <2>2. CASE ~(SlotFree(r) /\ q # r /\ q \in Late)
    BY <2>2 DEF HandleStart, Refuses, server
  <2>3. QED
    BY <2>1, <2>2
<1>3. CASE q # r
  <2>1. SameDialogue(q) /\ SameExecutor(q) /\ done'[q] = done[q] /\ ticket'[q] = ticket[q]
    BY <1>1, <1>3 DEF SameDialogue, SameExecutor, stored, browser, DialogueType, HandleStart, Refuses, Answers
  <2>2. QED
    BY <1>2, <2>1, StateWrite
<1>4. CASE q = r
  <2>1. /\ wire[q] = "start" /\ ctl[q] \in {"start", "dead"} /\ wire'[q] = "none"
        /\ state'[q] \in {"NONE", "OBSERVING"}
    BY <1>1, <1>4 DEF HandleStart, Handles, Refuses, server, DialogueType, ControlInv, Control, Dialogue, Fresh
  <2>2. /\ ctl'[q] = ctl[q] /\ done'[q] = done[q] /\ ticket'[q] = ticket[q] /\ mark'[q] = mark[q]
        /\ page'[q] = page[q] /\ written'[q] = written[q]
    BY <1>1 DEF stored, browser
  <2>3. Bounded(q)' /\ Certain(q)' /\ Allowed(q)' /\ Counted(q)'
    BY <2>1, <2>2 DEF Write, Bounded, Certain, Allowed, Counted, Early, Complete
  <2>4. QED
    BY <2>3 DEF Write
<1>5. QED
  BY <1>3, <1>4

LEMMA EventWrite ==
  ASSUME NEW r \in Run, Types, EndedHoldsNothing, Write(r),
         HandleReport(r) \/ Lapse(r) \/ Stall(r) \/ Beat(r) \/ BeatLost(r) \/ Recovers(r)
  PROVE  Write(r)'
<1> USE DEF Types
<1>1. /\ SameDialogue(r) /\ page' = page /\ written' = written /\ done' = done
      /\ ticket'[r] = ticket[r] \/ (ticket'[r] = "unknown" /\ Recovers(r) /\ state'[r] = "FILL_STOPPED")
  BY DEF SameDialogue, memory, browser, server, HandleReport, Lapse, Stall, Beat, BeatLost, Recovers, Fails, Stop, Finish, ServerType
<1>2. state'[r] \in {state[r], "FILL_STOPPED"} \/ (state[r] \in Complete /\ state'[r] \in Complete)
  <2>1. CASE Beat(r) /\ lease[r] = "late"
    BY <2>1, ReapedWrite DEF Beat, Reaps
  <2>2. CASE ~(Beat(r) /\ lease[r] = "late")
    BY <2>2 DEF HandleReport, Lapse, Stall, Beat, BeatLost, Recovers, Fails, Stop, Finish, server, ServerType
  <2>3. QED
    BY <2>1, <2>2
<1>3. mark'[r] = mark[r] \/ mark'[r] = 0
  BY DEF HandleReport, Lapse, Stall, Beat, BeatLost, Recovers, stored, ExecutorType
<1>4. 0 <= Actions
  BY FillAssumption DEF FillAssumption
<1>5. Bounded(r)' /\ Certain(r)' /\ Allowed(r)'
  BY <1>1, <1>3, <1>4 DEF SameDialogue, Write, Bounded, Certain, Allowed
<1>6. Counted(r)'
  BY <1>1, <1>2 DEF SameDialogue, Write, Counted, Complete
<1>7. QED
  BY <1>5, <1>6 DEF Write

LEMMA EnvironmentWrite ==
  ASSUME NEW r \in Run, Types, Control(r), Write(r),
         PageWrites(r) \/ Lost(r) \/ Detect(r) \/ HearDetection(r) \/ ReportLost(r) \/ CloseTab(r) \/ RemoveRules(r)
  PROVE  Write(r)'
<1> USE DEF Types
<1>1. state'[r] = state[r] /\ done'[r] = done[r] /\ ticket'[r] = ticket[r]
  BY Elsewhere DEF server
<1>2. done[r] \in Nat /\ written[r] \in Nat
  BY DEF ServerType, ExecutorType
<1>3. CASE PageWrites(r)
  <2>1. /\ wire[r] = "none" /\ ctl[r] \in {"executing", "dead"} /\ written[r] = done[r] /\ ticket[r] # "none"
    BY <1>3 DEF PageWrites, Control, Dialogue, Write, Certain, Allowed
  <2>2. /\ SameDialogue(r) /\ mark'[r] = mark[r]
        /\ \/ written'[r] = written[r] + 1 /\ page'[r] # "running"
           \/ written'[r] = written[r] /\ page'[r] \in {"bad", "threw"}
    BY <1>3 DEF PageWrites, SameDialogue, memory, stored, ExecutorType
  <2>3. Bounded(r)' /\ Certain(r)' /\ Allowed(r)' /\ Counted(r)'
    BY <1>1, <1>2, <2>1, <2>2 DEF SameDialogue, Write, Bounded, Certain, Allowed, Counted, Early, Quiet
  <2>4. QED
    BY <2>3 DEF Write
<1>4. CASE Lost(r)
  <2>1. /\ ctl'[r] = ctl[r] /\ wire'[r] \in {wire[r], "none"} /\ answer'[r] # "yes"
        /\ mark'[r] = mark[r] /\ page'[r] = page[r] /\ written'[r] = written[r]
    BY <1>4 DEF Lost, Answers, DialogueType, stored, browser
  <2>2. Bounded(r)' /\ Certain(r)' /\ Allowed(r)' /\ Counted(r)'
    BY <1>1, <2>1 DEF Write, Bounded, Certain, Allowed, Counted, Early
  <2>3. QED
    BY <2>2 DEF Write
<1>5. CASE \/ Detect(r) \/ HearDetection(r) \/ ReportLost(r) \/ CloseTab(r) \/ RemoveRules(r)
  <2>1. SameDialogue(r) /\ mark'[r] = mark[r] /\ written'[r] = written[r] /\ page'[r] \in {page[r], "threw"}
    BY <1>5 DEF Detect, HearDetection, ReportLost, CloseTab, RemoveRules, SameDialogue, memory, stored, browser, ExecutorType
  <2>2. Bounded(r)' /\ Certain(r)' /\ Allowed(r)' /\ Counted(r)'
    BY <1>1, <2>1 DEF SameDialogue, Write, Bounded, Certain, Allowed, Counted
  <2>3. QED
    BY <2>2 DEF Write
<1>6. QED
  BY <1>3, <1>4, <1>5

LEMMA DeathWrite ==
  ASSUME NEW b \in Browser, Types, WorkerDies(b), NEW q \in Run, Write(q)
  PROVE  Write(q)'
<1>1. /\ state' = state /\ done' = done /\ ticket' = ticket /\ wire' = wire
      /\ mark' = mark /\ page' = page /\ written' = written
  BY DEF WorkerDies, server, browser
<1>2. (ctl'[q] = ctl[q] /\ answer'[q] = answer[q]) \/ (ctl'[q] = "dead" /\ answer'[q] = "none")
  BY DEF WorkerDies
<1>3. Bounded(q)' /\ Certain(q)' /\ Allowed(q)' /\ Counted(q)'
  BY <1>1, <1>2 DEF Write, Bounded, Certain, Allowed, Counted, Early, Quiet
<1>4. QED
  BY <1>3 DEF Write

LEMMA ReapWrite ==
  ASSUME EndedHoldsNothing, Reap, NEW q \in Run, Write(q)
  PROVE  Write(q)'
<1>1. SameDialogue(q) /\ SameExecutor(q) /\ done'[q] = done[q] /\ ticket'[q] = ticket[q]
  BY DEF Reap, SameDialogue, SameExecutor, memory, stored, browser
<1>2. state'[q] \in {state[q], "FILL_STOPPED"} \/ (state[q] \in Complete /\ state'[q] \in Complete)
  BY ReapedWrite DEF Reap, Reaps, Late
<1>3. QED
  BY <1>1, <1>2, StateWrite

WriteInv == \A q \in Run : Write(q)

LEMMA NextWrite == Types /\ ControlInv /\ EndedHoldsNothing /\ WriteInv /\ [Next]_vars => WriteInv'
<1> SUFFICES ASSUME Types, ControlInv, EndedHoldsNothing, WriteInv, [Next]_vars, NEW q \in Run PROVE Write(q)'
  BY DEF WriteInv
<1> USE DEF WriteInv, ControlInv
<1>1. CASE Reap
  BY <1>1, ReapWrite
<1>2. ASSUME NEW b \in Browser, WorkerDies(b)
      PROVE  Write(q)'
  BY <1>2, DeathWrite
<1>3. ASSUME NEW r \in Run, Handle(r)
      PROVE  Write(q)'
  <2>1. CASE HandleStart(r)
    BY <2>1, StartWrite
  <2>2. CASE HandleKnown(r)
    BY <2>2, ServedWrite, ServedOthers, SameWrite
  <2>3. QED
    BY <1>3, <2>1, <2>2 DEF Handle, HandleKnown
<1>4. ASSUME NEW r \in Run, Controller(r)
      PROVE  Write(q)'
  BY <1>4, ControlledWrite, ControlledOthers, SameWrite
<1>5. ASSUME NEW r \in Run,
             HandleReport(r) \/ Lapse(r) \/ Stall(r) \/ Beat(r) \/ BeatLost(r) \/ Recovers(r)
      PROVE  Write(q)'
  BY <1>5, EventWrite, EventOthers, SameWrite
<1>6. ASSUME NEW r \in Run,
             PageWrites(r) \/ Lost(r) \/ Detect(r) \/ HearDetection(r) \/ ReportLost(r) \/ CloseTab(r) \/ RemoveRules(r)
      PROVE  Write(q)'
  BY <1>6, EnvironmentWrite, EnvironmentOthers, SameWrite
<1>7. CASE UNCHANGED vars
  BY <1>7, SameWrite DEF vars, server, memory, stored, browser, SameServer, SameDialogue, SameExecutor
<1>8. QED
  BY <1>1, <1>2, <1>3, <1>4, <1>5, <1>6, <1>7 DEF Next

-----------------------------------------------------------------------------
Inv == Types /\ ControlInv /\ EndedHoldsNothing /\ WriteInv

LEMMA InitInv == Init => Inv
<1> SUFFICES ASSUME Init PROVE Inv
  OBVIOUS
<1>1. Types
  BY FillAssumption DEF FillAssumption, Init, Types, ServerType, DialogueType, ExecutorType, NoRules, Idle
<1>2. EndedHoldsNothing
  BY DEF Init, EndedHoldsNothing, Active, Working
<1>3. QED
  BY <1>1, <1>2, InitControl, InitWrite DEF Inv, ControlInv, WriteInv

LEMMA NextInv == Inv /\ [Next]_vars => Inv'
BY NextTypes, NextControl, NextLedger, NextWrite DEF Inv

LEMMA AlwaysInv == Spec => []Inv
BY InitInv, NextInv, PTL DEF Spec

(* Every variable keeps its type, and no more actions are done or marked   *)
(* than the plan has.                                                      *)
THEOREM FillTypeCorrect == Spec => []FillTypeOK
<1>1. Inv => FillTypeOK
  <2> SUFFICES ASSUME Inv PROVE FillTypeOK
    OBVIOUS
  <2>1. Types /\ Actions \in Nat
    BY FillAssumption DEF FillAssumption, Inv
  <2>2. done \in [Run -> 0 .. Actions] /\ mark \in [Run -> 0 .. Actions]
    BY <2>1 DEF Inv, WriteInv, Write, Bounded, Types, ServerType, ExecutorType
  <2>3. QED
    BY <2>1, <2>2 DEF FillTypeOK, Types, ServerType, DialogueType, ExecutorType
<1>2. QED
  BY <1>1, AlwaysInv, PTL

(* The slot, the lease and the grant of a run go with its state, and an    *)
(* application has one run that works, however many start, stop, lapse and *)
(* are swept.                                                              *)
THEOREM EndedHoldsNothingAlways == Spec => []EndedHoldsNothing
<1>1. Inv => EndedHoldsNothing
  BY DEF Inv
<1>2. QED
  BY <1>1, AlwaysInv, PTL

(* No late request, report or recovery changes how a run ended.            *)
THEOREM FillEndedStaysEnded == Spec => EndedStaysEnded
<1>1. Inv /\ [Next]_vars => [\A r \in Run : StaysEnded(r)]_vars
  BY NextStaysEnded DEF Inv
<1>2. (\A r \in Run : StaysEnded(r)) <=>
      (\A r \in Run : Terminal(r) =>
         /\ state'[r] = state[r] \/ (state[r] = "FILLED_AWAITING_SUBMISSION" /\ state'[r] = "FILLED_CONTEXT_UNVERIFIED")
         /\ done'[r] = done[r])
  BY DEF StaysEnded
<1>3. QED
  BY <1>1, <1>2, AlwaysInv, PTL DEF Spec, EndedStaysEnded

(* The form and the record differ by at most the one action whose intent   *)
(* is out, and a filled form holds every action.                           *)
THEOREM WritesMatchOutcomesAlways == Spec => []WritesMatchOutcomes
<1>1. Inv => WritesMatchOutcomes
  <2> SUFFICES ASSUME Inv, NEW r \in Run
               PROVE  /\ done[r] <= written[r]
                      /\ written[r] <= done[r] + (IF ticket[r] = "none" THEN 0 ELSE 1)
                      /\ state[r] \in Ended \ {"FILL_STOPPED"} => done[r] = Actions /\ ticket[r] = "none"
    BY DEF WritesMatchOutcomes
  <2>1. Write(r) /\ done[r] \in Nat /\ written[r] \in Nat
    BY DEF Inv, WriteInv, Types, ServerType, ExecutorType
  <2>2. QED
    BY <2>1 DEF Write, Bounded, Certain, Counted, Complete, Ended
<1>2. QED
  BY <1>1, AlwaysInv, PTL

-----------------------------------------------------------------------------
(* Quarantine.  The rules of a browser are one set for its tabs, so closing*)
(* one tab takes them from another.  That is the only way to lose them: a  *)
(* run that has its browser to itself keeps them from the check before an  *)
(* intent until its tab is closed.                                         *)

ItsOwnBrowser == \A r, s \in Run : BrowserOf[r] = BrowserOf[s] => r = s

Guarded(r) ==
  /\ report[r] \in {"closed", "remove"} => ~open[r]
  /\ ctl[r] \in {"off", "start", "initial"} => page[r] = "idle" /\ written[r] = 0
  /\ open[r] /\ (ctl[r] \in {"intent", "persisted"} \/ page[r] = "running" \/ written[r] > 0)
       => RulesOf(r) = InTab(r, "TOTAL")

GuardInv == \A q \in Run : Guarded(q)

SameGuard(q) ==
  /\ ctl'[q] = ctl[q] /\ report'[q] = report[q] /\ page'[q] = page[q] /\ written'[q] = written[q]
  /\ open'[q] = open[q] /\ rules'[BrowserOf[q]] = rules[BrowserOf[q]]

LEMMA SameGuarded ==
  ASSUME NEW q \in Run, Guarded(q), SameGuard(q)
  PROVE  Guarded(q)'
BY DEF Guarded, SameGuard, RulesOf, InTab

LEMMA BrowsersApart ==
  ASSUME ItsOwnBrowser, NEW r \in Run, NEW q \in Run \ {r}
  PROVE  BrowserOf[r] # BrowserOf[q]
BY DEF ItsOwnBrowser

LEMMA GuardOthers ==
  ASSUME ItsOwnBrowser, Types, NEW r \in Run, NEW q \in Run \ {r}, Guarded(q),
         Controller(r) \/ HandleReport(r) \/ PageWrites(r) \/ Detect(r) \/ HearDetection(r) \/ ReportLost(r)
           \/ CloseTab(r) \/ RemoveRules(r)
  PROVE  Guarded(q)'
<1>1. ctl'[q] = ctl[q] /\ page'[q] = page[q] /\ written'[q] = written[q]
  BY ControlledOthers, EventOthers, EnvironmentOthers DEF SameDialogue, SameExecutor
<1>2. UNCHANGED rules \/ \E new : SetRules(r, new)
  BY DEF Controller, Start, Started, NotStarted, InstallPreload, VerifyPreload, Revalidate,
     InstallTotal, VerifyTotal, AskGrant, NextAction, Check, Persist, Execute, ReportOutcome, Finalize, EndsAsTold,
     Over, Filled, GiveUp, HandleReport, PageWrites, Detect, HearDetection, ReportLost, CloseTab, RemoveRules, browser
<1>3. rules'[BrowserOf[q]] = rules[BrowserOf[q]]
  <2>1. PICK b \in Browser : b = BrowserOf[r]
    BY FillAssumption DEF FillAssumption
  <2>2. PICK c \in Browser : c = BrowserOf[q]
    BY FillAssumption DEF FillAssumption
  <2>3. b # c
    BY <2>1, <2>2, BrowsersApart
  <2>4. ASSUME NEW new, SetRules(r, new)
        PROVE  rules'[c] = rules[c]
    BY <2>1, <2>2, <2>3, <2>4 DEF SetRules, Types, ExecutorType
  <2>5. QED
    BY <1>2, <2>2, <2>4
<1>4. report'[q] = report[q]
  BY DEF Controller, Start, Started, NotStarted, InstallPreload, VerifyPreload, Revalidate,
     InstallTotal, VerifyTotal, AskGrant, NextAction, Check, Persist, Execute, ReportOutcome, Finalize, EndsAsTold,
     Over, Filled, GiveUp, HandleReport, PageWrites, Detect, HearDetection, ReportLost, CloseTab, RemoveRules,
     Types, ExecutorType
<1>5. open'[q] = open[q]
  BY DEF Controller, Start, Started, NotStarted, InstallPreload, VerifyPreload, Revalidate,
     InstallTotal, VerifyTotal, AskGrant, NextAction, Check, Persist, Execute, ReportOutcome, Finalize, EndsAsTold,
     Over, Filled, GiveUp, HandleReport, PageWrites, Detect, HearDetection, ReportLost, CloseTab, RemoveRules, browser,
     Types, ExecutorType
<1>6. QED
  BY <1>1, <1>3, <1>4, <1>5, SameGuarded DEF SameGuard

(* The run's own controller: only InstallPreload and InstallTotal set the  *)
(* rules, before anything was let go or in full.                           *)
LEMMA ControlledGuard ==
  ASSUME Types, NEW r \in Run, Control(r), Guarded(r), Controller(r)
  PROVE  Guarded(r)'
<1> USE DEF Types
<1>1. PICK b \in Browser : b = BrowserOf[r]
  BY FillAssumption DEF FillAssumption
<1>2. UNCHANGED <<report, open, written>>
  BY DEF Controller, Start, Started, NotStarted, InstallPreload, VerifyPreload, Revalidate,
     InstallTotal, VerifyTotal, AskGrant, NextAction, Check, Persist, Execute, ReportOutcome, Finalize, EndsAsTold,
     Over, Filled, GiveUp, browser
<1>3. ASSUME UNCHANGED <<page, rules>>, ctl'[r] \notin {"off", "start", "initial"},
             ctl'[r] \in {"intent", "persisted"} => ctl[r] \in {"intent", "persisted"} \/ RulesOf(r) = InTab(r, "TOTAL")
      PROVE  Guarded(r)'
  BY <1>2, <1>3 DEF Guarded, RulesOf, InTab
<1>4. CASE Start(r) \/ Started(r)
  <2>1. ctl[r] \in {"off", "start"} /\ UNCHANGED <<page, rules>> /\ ctl'[r] \in {"start", "stop", "initial"}
    BY <1>4 DEF Start, Started, Hears, Asks, browser, DialogueType
  <2>2. QED
    BY <1>2, <2>1 DEF Guarded, RulesOf, InTab
<1>5. CASE NotStarted(r) \/ VerifyPreload(r) \/ Revalidate(r) \/ VerifyTotal(r) \/ AskGrant(r) \/ NextAction(r)
             \/ Check(r) \/ Finalize(r) \/ EndsAsTold(r) \/ Filled(r) \/ GiveUp(r)
  <2>1. UNCHANGED <<page, rules>>
    BY <1>5 DEF NotStarted, VerifyPreload, Revalidate, VerifyTotal, AskGrant, NextAction, Check, Finalize, EndsAsTold,
       Over, Filled, GiveUp, browser
  <2>2. /\ ctl'[r] \notin {"off", "start", "initial", "persisted"}
        /\ ctl'[r] = "intent" => RulesOf(r) = InTab(r, "TOTAL")
    BY <1>5 DEF NotStarted, VerifyPreload, Revalidate, VerifyTotal, AskGrant, NextAction, Check, Finalize, EndsAsTold,
       Over, Filled, GiveUp, Asks, Pauses, DialogueType
  <2>3. QED
    BY <1>3, <2>1, <2>2
<1>6. CASE Persist(r)
  <2>1. UNCHANGED <<page, rules>> /\ ctl[r] = "intent" /\ ctl'[r] = "persisted"
    BY <1>6 DEF Persist, Hears, Pauses, browser, DialogueType
  <2>2. QED
    BY <1>3, <2>1
<1>7. CASE Execute(r) \/ ReportOutcome(r)
  <2>1. /\ UNCHANGED rules /\ ctl[r] \in {"persisted", "executing"} /\ page'[r] \in {"running", "idle"}
        /\ ctl'[r] \in {"executing", "outcomeOk", "outcomeBad", "unknown"}
        /\ page'[r] = "running" => ctl[r] = "persisted"
    BY <1>7 DEF Execute, ReportOutcome, Outcome, Asks, Pauses, DialogueType, ExecutorType
  <2>2. QED
    BY <1>2, <2>1 DEF Guarded, RulesOf, InTab
<1>8. CASE InstallPreload(r)
  <2>1. ctl[r] = "initial" /\ ctl'[r] = "preloading" /\ UNCHANGED page
    BY <1>8 DEF InstallPreload, Hears, Pauses, DialogueType
  <2>2. QED
    BY <1>2, <2>1 DEF Guarded
<1>9. CASE InstallTotal(r)
  <2>1. ctl'[r] = "totalling" /\ UNCHANGED page /\ rules'[b] = InTab(r, "TOTAL")
    BY <1>1, <1>9 DEF InstallTotal, Pauses, SetRules, DialogueType, ExecutorType
  <2>2. QED
    BY <1>1, <1>2, <2>1 DEF Guarded, RulesOf, InTab
<1>10. QED
  BY <1>4, <1>5, <1>6, <1>7, <1>8, <1>9 DEF Controller

(* The page, its tab and what is reported of them.                         *)
LEMMA EnvironmentGuard ==
  ASSUME Types, NEW r \in Run, Control(r), Guarded(r),
         HandleReport(r) \/ PageWrites(r) \/ Detect(r) \/ HearDetection(r) \/ ReportLost(r) \/ CloseTab(r)
           \/ RemoveRules(r)
  PROVE  Guarded(r)'
<1> USE DEF Types
<1>1. UNCHANGED ctl
  BY DEF HandleReport, PageWrites, Detect, HearDetection, ReportLost, CloseTab, RemoveRules, memory
<1>2. CASE HandleReport(r) \/ Detect(r) \/ HearDetection(r) \/ ReportLost(r)
  <2>1. UNCHANGED <<page, written, open, rules>>
    BY <1>2 DEF HandleReport, Detect, HearDetection, ReportLost, browser
  <2>2. report'[r] \in {"closed", "remove"} => report[r] = "closed"
    BY <1>2 DEF HandleReport, Detect, HearDetection, ReportLost, ExecutorType
  <2>3. QED
    BY <1>1, <2>1, <2>2 DEF Guarded, RulesOf, InTab
<1>3. CASE PageWrites(r)
  <2>1. /\ page[r] = "running" /\ open[r] /\ page'[r] # "running" /\ UNCHANGED <<report, open, rules>>
    BY <1>3 DEF PageWrites, ExecutorType
  <2>2. ctl[r] \in {"executing", "dead"}
    BY <2>1 DEF Control, Dialogue
  <2>3. QED
    BY <1>1, <2>1, <2>2 DEF Guarded, RulesOf, InTab
<1>4. CASE CloseTab(r)
  <2>1. ~open'[r] /\ ctl[r] # "off" /\ UNCHANGED <<written, rules>> /\ page'[r] # "running"
    BY <1>4 DEF CloseTab, ExecutorType
  <2>2. page[r] = "idle" => page'[r] = "idle"
    BY <1>4 DEF CloseTab, ExecutorType
  <2>3. QED
    BY <1>1, <2>1, <2>2 DEF Guarded
<1>5. CASE RemoveRules(r)
  <2>1. report[r] = "remove" /\ report'[r] = "spent" /\ UNCHANGED <<page, written, open>>
    BY <1>5 DEF RemoveRules, ExecutorType
  <2>2. QED
    BY <1>1, <2>1 DEF Guarded
<1>6. QED
  BY <1>2, <1>3, <1>4, <1>5

LEMMA DeathGuard ==
  ASSUME Types, NEW b, WorkerDies(b), NEW q \in Run, Guarded(q)
  PROVE  Guarded(q)'
<1>1. UNCHANGED <<rules, open, page, written>>
  BY DEF WorkerDies, browser
<1>2. ctl'[q] \in {ctl[q], "dead"} /\ report'[q] \in {report[q], "spent"}
  BY DEF WorkerDies
<1>3. QED
  BY <1>1, <1>2 DEF Guarded, RulesOf, InTab

LEMMA GuardStep ==
  ASSUME ItsOwnBrowser, Types, ControlInv, GuardInv, [Next]_vars
  PROVE  GuardInv'
<1> SUFFICES ASSUME NEW q \in Run PROVE Guarded(q)'
  BY DEF GuardInv
<1>1. Guarded(q) /\ Control(q) /\ \A r \in Run : Guarded(r) /\ Control(r)
  BY DEF GuardInv, ControlInv
<1>2. ASSUME UNCHANGED <<ctl, report, browser>> PROVE Guarded(q)'
  BY <1>1, <1>2, SameGuarded DEF SameGuard, browser
<1>3. CASE Reap \/ UNCHANGED vars
             \/ \E r \in Run : Handle(r) \/ Lapse(r) \/ Stall(r) \/ Beat(r) \/ BeatLost(r) \/ Lost(r) \/ Recovers(r)
  <2>1. CASE \E r \in Run : Handle(r)
    BY <1>2, <2>1 DEF Handle, HandleStart, HandleInitial, HandleReset, HandleLost, HandleRevalidate,
       HandleTotal, HandleGrant, HandleIntent, HandleUnverified, HandleOutcome, HandleUnknown, HandleFinal,
       HandleStop, HandleGiveUp, Handles
  <2>2. CASE Reap \/ UNCHANGED vars
               \/ \E r \in Run : Lapse(r) \/ Stall(r) \/ Beat(r) \/ BeatLost(r) \/ Lost(r) \/ Recovers(r)
    BY <1>2, <2>2 DEF Reap, vars, memory, Lapse, Stall, Beat, BeatLost, Lost, Recovers
  <2>3. QED
    BY <1>3, <2>1, <2>2
<1>4. ASSUME NEW r \in Run, Controller(r) PROVE Guarded(q)'
  <2>1. CASE q = r
    BY <1>1, <1>4, <2>1, ControlledGuard
  <2>2. CASE q # r
    BY <1>1, <1>4, <2>2, GuardOthers
  <2>3. QED
    BY <2>1, <2>2
<1>5. ASSUME NEW r \in Run,
             HandleReport(r) \/ PageWrites(r) \/ Detect(r) \/ HearDetection(r) \/ ReportLost(r) \/ CloseTab(r)
               \/ RemoveRules(r)
      PROVE  Guarded(q)'
  <2>1. CASE q = r
    BY <1>1, <1>5, <2>1, EnvironmentGuard
  <2>2. CASE q # r
    BY <1>1, <1>5, <2>2, GuardOthers
  <2>3. QED
    BY <2>1, <2>2
<1>6. ASSUME NEW b \in Browser, WorkerDies(b) PROVE Guarded(q)'
  BY <1>1, <1>6, DeathGuard
<1>7. QED
  BY <1>3, <1>4, <1>5, <1>6 DEF Next

(* With one fill tab to a browser a page that was written to cannot send   *)
(* anything while it is open, whatever is lost, dies or ends.  Two tabs of *)
(* one browser are what the statement cannot do without.                   *)
THEOREM QuarantinedInItsOwnBrowser == ItsOwnBrowser => (Spec => []Quarantined)
<1> SUFFICES ASSUME ItsOwnBrowser PROVE Spec => []Quarantined
  OBVIOUS
<1>1. Init => GuardInv
  BY DEF Init, GuardInv, Guarded
<1>2. Inv /\ GuardInv /\ [Next]_vars => GuardInv'
  BY GuardStep DEF Inv
<1>3. GuardInv => Quarantined
  BY DEF GuardInv, Guarded, Quarantined
<1>4. QED
  BY <1>1, <1>2, <1>3, AlwaysInv, PTL DEF Spec

-----------------------------------------------------------------------------
(* The refinement of FillOnce.  It needs that what a controller reports,   *)
(* or a restarted worker finds marked, was let go.                         *)

Reporting == {"outcomeOk", "outcomeBad", "unknown"}

Marked(r) ==
  /\ mark[r] <= done[r] + 1
  /\ mark[r] > done[r] => ticket[r] # "none"
  /\ ctl[r] = "executing" => ticket[r] # "none"
  /\ wire[r] \in Reporting => ticket[r] # "none"

MarkInv == \A r \in Run : Marked(r)

LEMMA CountsAreNat == Types => \A r \in Run : done[r] \in Nat /\ written[r] \in Nat /\ mark[r] \in Nat
BY DEF Types, ServerType, ExecutorType

LEMMA InitMarked == Init => MarkInv
BY DEF Init, MarkInv, Marked, Reporting

LEMMA SameMarked ==
  ASSUME NEW q \in Run, Marked(q), SameServer(q), SameDialogue(q), SameExecutor(q)
  PROVE  Marked(q)'
BY DEF Marked, SameServer, SameDialogue, SameExecutor

(* The counts of a run: what a request does to them.                       *)
Keeps(r) == ticket'[r] = ticket[r] /\ done'[r] = done[r]
Lets(r) ==
  /\ ticket'[r] = "issued" /\ done'[r] = done[r]
  /\ state[r] = "FILLING" /\ UNCHANGED <<state, slots, lease, grant>>
Gives(r) == ticket[r] # "none" /\ ticket'[r] # "none" /\ done'[r] = done[r]
Confirms(r) ==
  /\ wire[r] = "outcomeOk" /\ state[r] = "FILLING"
  /\ ticket'[r] = "none" /\ done'[r] = done[r] + 1

LEMMA ServedCounts ==
  ASSUME NEW r \in Run, Types, Marked(r), HandleKnown(r)
  PROVE  Keeps(r) \/ Lets(r) \/ Gives(r) \/ Confirms(r)
<1> USE DEF Types, ServerType, Handles
<1>1. CASE \/ HandleInitial(r) \/ HandleReset(r) \/ HandleLost(r) \/ HandleRevalidate(r) \/ HandleTotal(r) \/ HandleGrant(r)
           \/ HandleUnverified(r) \/ HandleStop(r) \/ HandleGiveUp(r) \/ HandleFinal(r)
  BY <1>1 DEF HandleInitial, HandleReset, HandleLost, HandleRevalidate, HandleTotal, HandleGrant, HandleUnverified,
     HandleStop, HandleGiveUp, HandleFinal, Refuses, Stops, Advances, server, Keeps
<1>2. CASE HandleIntent(r)
  BY <1>2 DEF HandleIntent, Refuses, Stops, server, Keeps, Lets
<1>3. CASE HandleUnknown(r)
  <2>1. ticket[r] # "none"
    BY <1>3 DEF HandleUnknown, Marked, Reporting
  <2>2. QED
    BY <1>3, <2>1 DEF HandleUnknown, Refuses, Fails, server, Keeps, Gives
<1>4. CASE HandleOutcome(r)
  <2>1. ticket[r] # "none"
    BY <1>4 DEF HandleOutcome, Marked, Reporting
  <2>2. CASE Succeeds(r) /\ wire[r] = "outcomeOk" /\ state[r] = "FILLING"
    BY <2>2 DEF Succeeds, Confirms
  <2>3. CASE Refuses(r) \/ Fails(r, "failed")
    BY <2>1, <2>3 DEF Refuses, Fails, server, Keeps, Gives
  <2>4. QED
    BY <1>4, <2>2, <2>3 DEF HandleOutcome
<1>5. QED
  BY <1>1, <1>2, <1>3, <1>4 DEF HandleKnown

LEMMA ServedMarked ==
  ASSUME NEW r \in Run, Types, Control(r), Marked(r), HandleKnown(r)
  PROVE  Marked(r)'
<1>1. UNCHANGED <<ctl, stored, browser>> /\ wire[r] # "none" /\ \E a : Answers(r, a)
  BY DEF Handles, HandleKnown, HandleInitial, HandleReset, HandleLost, HandleRevalidate,
     HandleTotal, HandleGrant, HandleIntent, HandleUnverified, HandleOutcome, HandleUnknown, HandleFinal,
     HandleStop, HandleGiveUp, Refuses, Stops, Advances, Succeeds
<1>2. ctl'[r] = ctl[r] /\ mark'[r] = mark[r] /\ wire'[r] = "none" /\ (ctl[r] = wire[r] \/ ctl[r] = "dead")
  BY <1>1 DEF stored, Answers, Types, DialogueType, Control, Dialogue
<1>3. done[r] \in Nat /\ mark[r] \in Nat
  BY CountsAreNat
<1>4. Keeps(r) \/ Lets(r) \/ Gives(r) \/ Confirms(r)
  BY ServedCounts
<1>5. QED
  BY <1>2, <1>3, <1>4 DEF Keeps, Lets, Gives, Confirms, Marked, Reporting

LEMMA StartKeeps ==
  ASSUME NEW r \in Run, Types, HandleStart(r)
  PROVE  /\ UNCHANGED <<ctl, done, ticket, stored, browser>>
         /\ wire' = [wire EXCEPT ![r] = "none"]
BY DEF HandleStart, Handles, Refuses, Answers, server

LEMMA ControlledMarked ==
  ASSUME NEW r \in Run, Types, Control(r), Write(r), Marked(r), Controller(r)
  PROVE  Marked(r)'
<1> USE DEF Types
<1>1. wire[r] = "none" /\ done'[r] = done[r] /\ ticket'[r] = ticket[r]
  BY ControlledAwaits, Elsewhere DEF server
<1>2. done[r] \in Nat /\ mark[r] \in Nat
  BY CountsAreNat
<1>3. CASE Execute(r)
  <2>1. ticket[r] # "none" /\ wire'[r] = "none" /\ mark'[r] = mark[r]
    BY <1>1, <1>3 DEF Execute, Pauses, stored, Write, Allowed
  <2>2. QED
    BY <1>1, <2>1 DEF Marked, Reporting
<1>4. CASE ReportOutcome(r)
  <2>1. ticket[r] # "none" /\ mark'[r] = mark[r]
    BY <1>4 DEF ReportOutcome, Marked, stored
  <2>2. QED
    BY <1>1, <2>1 DEF Marked
<1>5. CASE Persist(r)
  <2>1. ticket[r] # "none" /\ mark'[r] = done[r] + 1
    BY <1>5 DEF Persist, Persists, Hears, ExecutorType, Write, Allowed
  <2>2. QED
    BY <1>1, <1>2, <2>1 DEF Marked
<1>6. CASE ~Execute(r) /\ ~ReportOutcome(r) /\ ~Persist(r)
  <2>1. mark'[r] = mark[r] \/ mark'[r] = 0
    BY <1>6 DEF Controller, Start, Started, NotStarted, InstallPreload, VerifyPreload, Revalidate,
       InstallTotal, VerifyTotal, AskGrant, NextAction, Check, Finalize, EndsAsTold, Over, Filled, GiveUp, stored,
       ExecutorType
  <2>2. \/ \E to \in Request \ Reporting : Asks(r, to)
        \/ \E to \in {"unstarted", "preloading", "totalling", "ready", "over", "filled"} : Pauses(r, to)
    BY <1>6 DEF Controller, Start, Started, NotStarted, InstallPreload, VerifyPreload, Revalidate,
       InstallTotal, VerifyTotal, AskGrant, NextAction, Check, Finalize, EndsAsTold, Over, Filled, GiveUp,
       Request, Reporting
  <2>3. ctl'[r] # "executing" /\ wire'[r] \notin Reporting
    BY <1>1, <2>2 DEF Asks, Pauses, DialogueType, Request, Reporting
  <2>4. QED
    BY <1>1, <1>2, <2>1, <2>3 DEF Marked
<1>7. QED
  BY <1>3, <1>4, <1>5, <1>6

LEMMA EventCounts ==
  ASSUME NEW r \in Run, Types, Marked(r),
         HandleReport(r) \/ Lapse(r) \/ Stall(r) \/ Beat(r) \/ BeatLost(r) \/ Recovers(r)
  PROVE  /\ Keeps(r) \/ Gives(r)
         /\ UNCHANGED <<ctl, wire, written>>
         /\ mark'[r] = mark[r] \/ mark'[r] = 0
<1> USE DEF Types, ServerType, ExecutorType
<1>1. CASE Recovers(r)
  <2>1. UNCHANGED <<ctl, wire, written>> /\ mark'[r] = 0
    BY <1>1 DEF Recovers, memory, browser
  <2>2. CASE rec[r] = "unknown" /\ mark[r] > done[r] /\ Fails(r, "unknown")
    BY <2>1, <2>2 DEF Fails, Marked, Gives
  <2>3. CASE UNCHANGED <<done, ticket>>
    BY <2>1, <2>3 DEF Keeps
  <2>4. QED
    BY <1>1, <2>2, <2>3 DEF Recovers, server
<1>2. CASE HandleReport(r) \/ Lapse(r) \/ Stall(r) \/ Beat(r) \/ BeatLost(r)
  BY <1>2 DEF HandleReport, Lapse, Stall, Beat, BeatLost, server, memory, stored, browser, Keeps
<1>3. QED
  BY <1>1, <1>2

LEMMA EnvironmentMarked ==
  ASSUME NEW r \in Run, Types, Marked(r),
         PageWrites(r) \/ Lost(r) \/ Detect(r) \/ HearDetection(r) \/ ReportLost(r) \/ CloseTab(r) \/ RemoveRules(r)
  PROVE  Marked(r)'
<1>1. UNCHANGED <<server, ctl, mark>> /\ wire'[r] \in {wire[r], "none"}
  BY DEF Types, DialogueType, memory, stored, Answers, PageWrites, Lost, Detect, HearDetection, ReportLost, CloseTab,
         RemoveRules
<1>2. QED
  BY <1>1 DEF server, Marked, Reporting

LEMMA NextMarked == Types /\ ControlInv /\ WriteInv /\ MarkInv /\ [Next]_vars => MarkInv'
<1> SUFFICES ASSUME Types, ControlInv, WriteInv, MarkInv, [Next]_vars, NEW q \in Run PROVE Marked(q)'
  BY DEF MarkInv
<1> USE DEF MarkInv, WriteInv, ControlInv
<1>1. CASE Reap
  BY <1>1 DEF Reap, memory, stored, Marked
<1>2. ASSUME NEW b \in Browser, WorkerDies(b)
      PROVE  Marked(q)'
  <2>1. ctl'[q] \in {ctl[q], "dead"} /\ UNCHANGED <<done, ticket, wire, mark>>
    BY <1>2 DEF WorkerDies, server
  <2>2. QED
    BY <2>1 DEF Marked
<1>3. ASSUME NEW r \in Run, Handle(r)
      PROVE  Marked(q)'
  <2>1. CASE HandleStart(r)
    <3>1. wire'[q] \in {wire[q], "none"}
      BY <2>1, StartKeeps DEF Types, DialogueType
    <3>2. QED
      BY <2>1, <3>1, StartKeeps DEF stored, Marked, Reporting
  <2>2. CASE HandleKnown(r)
    BY <2>2, ServedMarked, ServedOthers, SameMarked
  <2>3. QED
    BY <1>3, <2>1, <2>2 DEF Handle, HandleKnown
<1>4. ASSUME NEW r \in Run, Controller(r)
      PROVE  Marked(q)'
  BY <1>4, ControlledMarked, ControlledOthers, SameMarked
<1>5. ASSUME NEW r \in Run,
             HandleReport(r) \/ Lapse(r) \/ Stall(r) \/ Beat(r) \/ BeatLost(r) \/ Recovers(r)
      PROVE  Marked(q)'
  <2>1. CASE q = r
    BY <1>5, <2>1, EventCounts, CountsAreNat DEF Keeps, Gives, Marked
  <2>2. CASE q # r
    BY <1>5, <2>2, EventOthers, SameMarked
  <2>3. QED
    BY <2>1, <2>2
<1>6. ASSUME NEW r \in Run,
             PageWrites(r) \/ Lost(r) \/ Detect(r) \/ HearDetection(r) \/ ReportLost(r) \/ CloseTab(r) \/ RemoveRules(r)
      PROVE  Marked(q)'
  BY <1>6, EnvironmentMarked, EnvironmentOthers, SameMarked
<1>7. CASE UNCHANGED vars
  BY <1>7, SameMarked DEF vars, server, memory, stored, browser, SameServer, SameDialogue, SameExecutor
<1>8. QED
  BY <1>1, <1>2, <1>3, <1>4, <1>5, <1>6, <1>7 DEF Next

(* What a step does to a run as FillOnce sees it.                          *)
SamePhase(q) == PhaseOf(q)' = PhaseOf(q)
SameCounts(q) == written'[q] = written[q] /\ done'[q] = done[q] /\ LetGo'[q] = LetGo[q]

LEMMA PhaseFacts ==
  /\ \A r \in Run : state[r] = "NONE" => PhaseOf(r) = "idle"
  /\ \A r \in Run : Active(r) => PhaseOf(r) = "working"
  /\ \A r \in Run : state[r] = "FILL_STOPPED" => PhaseOf(r) = "stopped"
  /\ \A r \in Run : state[r] = "FILLED_AWAITING_SUBMISSION" => PhaseOf(r) = "filled"
  /\ \A r \in Run : state[r] = "FILLED_CONTEXT_UNVERIFIED" => PhaseOf(r) = "void"
BY DEF PhaseOf, Active, Working

LEMMA PhaseFactsNext ==
  /\ \A r \in Run : state'[r] = "NONE" => PhaseOf(r)' = "idle"
  /\ \A r \in Run : state'[r] \in Working => PhaseOf(r)' = "working"
  /\ \A r \in Run : state'[r] = "FILL_STOPPED" => PhaseOf(r)' = "stopped"
  /\ \A r \in Run : state'[r] = "FILLED_AWAITING_SUBMISSION" => PhaseOf(r)' = "filled"
  /\ \A r \in Run : state'[r] = "FILLED_CONTEXT_UNVERIFIED" => PhaseOf(r)' = "void"
BY DEF PhaseOf, Working

LEMMA WorkingIsActive ==
  ASSUME Types, NEW r \in Run, PhaseOf(r) = "working"
  PROVE  Active(r)
BY DEF Types, ServerType, PhaseOf, Active, Working, Ended

LEMMA SamePhases ==
  ASSUME NEW q \in Run, state'[q] = state[q]
  PROVE  SamePhase(q)
BY DEF SamePhase, PhaseOf

LEMMA SameAll ==
  ASSUME Types, Types', \A q \in Run : SamePhase(q) /\ SameCounts(q)
  PROVE  UNCHANGED <<Phases, written, done, LetGo>>
<1>1. UNCHANGED <<written, done>>
  BY DEF SameCounts, Types, ServerType, ExecutorType
<1>2. UNCHANGED <<Phases, LetGo>>
  BY DEF SamePhase, SameCounts, Phases, LetGo
<1>3. QED
  BY <1>1, <1>2

(* Runs that the server stops, or whose filled form it no longer vouches   *)
(* for, are given up.                                                      *)
LEMMA GivingUp ==
  ASSUME Types, Types', NEW S \in SUBSET Run, \A q \in Run : SameCounts(q),
         \A q \in Run \ S : SamePhase(q),
         \A q \in S : \/ Active(q) /\ state'[q] = "FILL_STOPPED"
                      \/ state[q] = "FILLED_AWAITING_SUBMISSION" /\ state'[q] = "FILLED_CONTEXT_UNVERIFIED"
  PROVE  Promise!GiveUp(S)
<1>1. UNCHANGED <<written, done, LetGo>>
  BY DEF SameCounts, Types, ServerType, ExecutorType, LetGo
<1>2. \A q \in Run : PhaseOf(q)' = IF q \in S /\ PhaseOf(q) = "working" THEN "stopped"
                                   ELSE IF q \in S /\ PhaseOf(q) = "filled" THEN "void"
                                   ELSE PhaseOf(q)
  BY PhaseFacts, PhaseFactsNext DEF SamePhase
<1>3. QED
  BY <1>1, <1>2 DEF Promise!GiveUp, Promise!GivenUp, Phases

LEMMA LeasedPhases ==
  ASSUME EndedHoldsNothing, NEW q \in Run, lease[q] # "none"
  PROVE  \/ Active(q) /\ ReapedState(q) = "FILL_STOPPED"
         \/ state[q] = "FILLED_AWAITING_SUBMISSION" /\ ReapedState(q) = "FILLED_CONTEXT_UNVERIFIED"
BY DEF EndedHoldsNothing, ReapedState, Active, Working

(* A sweep and a heartbeat that is late.                                   *)
LEMMA ReapsGiveUp ==
  ASSUME Types, Types', EndedHoldsNothing, NEW R \in SUBSET Run, \A q \in R : lease[q] # "none", Reaps(R),
         UNCHANGED <<done, ticket, written>>
  PROVE  Promise!Next
<1>1. \A q \in Run : SameCounts(q)
  BY DEF SameCounts, LetGo
<1>2. \A q \in Run \ R : SamePhase(q)
  BY SamePhases DEF Reaps
<1>3. \A q \in R : state'[q] = ReapedState(q)
  BY DEF Reaps
<1>4. Promise!GiveUp(R)
  BY <1>1, <1>2, <1>3, LeasedPhases, GivingUp
<1>5. QED
  BY <1>4 DEF Promise!Next

LEMMA StartBegins ==
  ASSUME Types, Types', ControlInv, EndedHoldsNothing, NEW r \in Run, HandleStart(r)
  PROVE  Promise!Next \/ UNCHANGED <<Phases, written, done, LetGo>>
<1>1. state[r] = "NONE" /\ lease[r] = "none" /\ UNCHANGED <<written, done, ticket>>
  BY StartKeeps DEF browser, HandleStart, Handles, ControlInv, Control, Fresh, Untouched
<1>2. UNCHANGED <<written, done, LetGo>>
  BY <1>1 DEF LetGo
<1>3. CASE SlotFree(r)
  <2>1. r \notin Late /\ Late \subseteq Run
    BY <1>1 DEF Late
  <2>2. state'[r] = "OBSERVING" /\ \A q \in Run \ {r} : state'[q] = IF q \in Late THEN ReapedState(q) ELSE state[q]
    BY <1>3 DEF HandleStart
  <2>3. PhaseOf(r) = "idle" /\ PhaseOf(r)' = "working"
    BY <1>1, <2>2, PhaseFacts, PhaseFactsNext DEF Working
  <2>4. \A q \in Run \ {r} : PhaseOf(q)' = Promise!GivenUp(Late)[q]
    <3>1. ASSUME NEW q \in Run \ {r}, q \in Late
          PROVE  PhaseOf(q)' = Promise!GivenUp(Late)[q]
      <4>1. lease[q] # "none" /\ state'[q] = ReapedState(q)
        BY <2>2, <3>1 DEF Late
      <4>2. \/ PhaseOf(q) = "working" /\ PhaseOf(q)' = "stopped"
            \/ PhaseOf(q) = "filled" /\ PhaseOf(q)' = "void"
        BY <4>1, LeasedPhases, PhaseFacts, PhaseFactsNext
      <4>3. QED
        BY <3>1, <4>2 DEF Promise!GivenUp, Phases
    <3>2. ASSUME NEW q \in Run \ {r}, q \notin Late
          PROVE  PhaseOf(q)' = Promise!GivenUp(Late)[q]
      BY <2>2, <3>2, SamePhases DEF Promise!GivenUp, Phases, SamePhase
    <3>3. QED
      BY <3>1, <3>2
  <2>5. ASSUME NEW q \in Run, WsOf[q] = WsOf[r]
        PROVE  Promise!GivenUp(Late)[q] # "working"
    <3>1. CASE q \in Late
      BY <3>1 DEF Promise!GivenUp, Phases
    <3>2. CASE q \notin Late
      <4>1. q \notin slots
        BY <1>3, <2>5, <3>2 DEF SlotFree
      <4>2. PhaseOf(q) # "working"
        BY <4>1, WorkingIsActive DEF EndedHoldsNothing
      <4>3. QED
        BY <3>2, <4>2 DEF Promise!GivenUp, Phases
    <3>3. QED
      BY <3>1, <3>2
  <2>6. Phases' = [Promise!GivenUp(Late) EXCEPT ![r] = "working"]
    BY <2>3, <2>4 DEF Promise!GivenUp, Phases
  <2>7. Phases[r] = "idle"
    BY <2>3 DEF Phases
  <2>8. Promise!Begin(r, Late)
    BY <1>2, <2>5, <2>6, <2>7 DEF Promise!Begin
  <2>9. QED
    BY <2>1, <2>8 DEF Promise!Next
<1>4. CASE ~SlotFree(r)
  <2>1. state' = state
    BY <1>4 DEF HandleStart, Refuses, server
  <2>2. QED
    BY <1>2, <2>1 DEF Phases, PhaseOf
<1>5. QED
  BY <1>3, <1>4

(* An end, a fill or an advance whose counts stay, as far as FillOnce      *)
(* sees them.                                                              *)
LEMMA ServesPromise ==
  ASSUME NEW r \in Run, Types, Types', Write(r), Serves(r), \A q \in Run : SameCounts(q)
  PROVE  Promise!Next \/ UNCHANGED <<Phases, written, done, LetGo>>
<1>1. UNCHANGED <<written, done, LetGo>>
  BY DEF SameCounts, Types, ServerType, ExecutorType, LetGo
<1>2. \A q \in Run \ {r} : state'[q] = state[q]
  BY DEF Serves, Ends, Fills, Moves, Stop, Finish, Types, ServerType
<1>3. CASE UNCHANGED state \/ \E event : Moves(r, event)
  <2>1. state'[r] = state[r] \/ (Active(r) /\ state'[r] \in Working)
    BY <1>3 DEF Moves, Types, ServerType
  <2>2. \A q \in Run : SamePhase(q)
    BY <1>2, <2>1, SamePhases, PhaseFacts, PhaseFactsNext DEF SamePhase
  <2>3. QED
    BY <2>2, SameAll
<1>4. CASE Ends(r)
  <2>1. Active(r) /\ state'[r] = "FILL_STOPPED"
    BY <1>4 DEF Ends, Stop, Finish, Types, ServerType
  <2>2. Promise!GiveUp({r})
    BY <1>2, <2>1, SamePhases, GivingUp
  <2>3. QED
    BY <2>2 DEF Promise!Next
<1>5. CASE Fills(r)
  <2>1. state[r] = "FINAL_VALIDATING" /\ state'[r] = "FILLED_AWAITING_SUBMISSION"
    BY <1>5 DEF Fills, Finish, Types, ServerType
  <2>2. PhaseOf(r) = "working" /\ PhaseOf(r)' = "filled"
    BY <2>1, PhaseFacts, PhaseFactsNext DEF Active, Working
  <2>3. done[r] = Actions /\ ~LetGo[r]
    BY <2>1 DEF Write, Counted, Complete, LetGo
  <2>4. \A q \in Run \ {r} : SamePhase(q)
    BY <1>2, SamePhases
  <2>5. Phases' = [Phases EXCEPT ![r] = "filled"] /\ Phases[r] = "working"
    BY <2>2, <2>4 DEF SamePhase, Phases
  <2>6. Promise!Finish(r)
    BY <1>1, <2>3, <2>5 DEF Promise!Finish
  <2>7. QED
    BY <2>6 DEF Promise!Next
<1>6. QED
  BY <1>3, <1>4, <1>5 DEF Serves

(* Requests.                                                               *)
LEMMA ServedPromise ==
  ASSUME NEW r \in Run, Types, Types', Control(r), Write(r), Marked(r), HandleKnown(r)
  PROVE  Promise!Next \/ UNCHANGED <<Phases, written, done, LetGo>>
<1>1. Serves(r) /\ (Keeps(r) \/ Lets(r) \/ Gives(r) \/ Confirms(r))
  BY ServedServes, ServedCounts
<1>2. \A q \in Run \ {r} : SameServer(q) /\ SameExecutor(q)
  BY ServedOthers
<1>3. UNCHANGED written
  BY DEF browser, Handles, HandleKnown, HandleInitial, HandleReset, HandleLost, HandleRevalidate,
     HandleTotal, HandleGrant, HandleIntent, HandleUnverified, HandleOutcome, HandleUnknown, HandleFinal,
     HandleStop, HandleGiveUp
<1>4. \A q \in Run \ {r} : SameCounts(q) /\ SamePhase(q)
  BY <1>2, <1>3, SamePhases DEF SameServer, SameCounts, LetGo
<1>5. CASE Keeps(r) \/ Gives(r)
  <2>1. \A q \in Run : SameCounts(q)
    BY <1>3, <1>4, <1>5 DEF Keeps, Gives, SameCounts, LetGo
  <2>2. QED
    BY <1>1, <2>1, ServesPromise
<1>6. CASE Lets(r)
  <2>1. LetGo' = [LetGo EXCEPT ![r] = TRUE]
    BY <1>4, <1>6 DEF Lets, SameCounts, LetGo
  <2>2. done' = done /\ UNCHANGED Phases
    BY <1>2, <1>6 DEF Lets, SameServer, Types, ServerType, Phases, PhaseOf
  <2>3. Phases[r] = "working" /\ done[r] < Actions
    BY <1>6, PhaseFacts DEF Lets, Active, Working, Phases, Write, Counted
  <2>4. Promise!LetGo(r)
    BY <1>3, <2>1, <2>2, <2>3 DEF Promise!LetGo
  <2>5. QED
    BY <2>4 DEF Promise!Next
<1>7. CASE Confirms(r)
  <2>1. written[r] = done[r] + 1 /\ LetGo[r]
    BY <1>7 DEF Confirms, Write, Certain, Marked, Reporting, LetGo
  <2>2. LetGo' = [LetGo EXCEPT ![r] = FALSE] /\ done' = [done EXCEPT ![r] = @ + 1]
    <3>1. LetGo' = [LetGo EXCEPT ![r] = FALSE]
      BY <1>4, <1>7 DEF Confirms, SameCounts, LetGo
    <3>2. done' = [done EXCEPT ![r] = @ + 1]
      BY <1>2, <1>7 DEF Confirms, SameServer, Types, ServerType
    <3>3. QED
      BY <3>1, <3>2
  <2>3. Phases[r] = "working"
    BY <1>7, PhaseFacts DEF Confirms, Active, Working, Phases
  <2>4. PhaseOf(r) = "working" /\ PhaseOf(r)' \in {"working", "stopped"}
    <3>1. state[r] = "FILLING"
      BY <1>7 DEF Confirms
    <3>2. state'[r] \in Working \cup {"FILL_STOPPED"}
      BY <1>1, <3>1 DEF Serves, Ends, Fills, Moves, Stop, Finish, Types, ServerType, Working
    <3>3. QED
      BY <3>1, <3>2, PhaseFacts, PhaseFactsNext DEF Active, Working
  <2>5. Phases' = Phases \/ Phases' = Promise!GivenUp({r})
    BY <1>4, <2>4 DEF SamePhase, Phases, Promise!GivenUp
  <2>6. Promise!Confirm(r)
    BY <1>3, <2>1, <2>2, <2>3, <2>5 DEF Promise!Confirm
  <2>7. QED
    BY <2>6 DEF Promise!Next
<1>8. QED
  BY <1>1, <1>5, <1>6, <1>7

LEMMA PageWritesOnce ==
  ASSUME NEW r \in Run, Types, Types', Write(r), PageWrites(r)
  PROVE  Promise!Next \/ UNCHANGED <<Phases, written, done, LetGo>>
<1>1. UNCHANGED <<Phases, done, LetGo>>
  BY DEF PageWrites, server, Phases, PhaseOf, LetGo
<1>2. LetGo[r] /\ written[r] = done[r]
  BY DEF PageWrites, Write, Certain, Allowed, LetGo
<1>3. UNCHANGED written \/ written' = [written EXCEPT ![r] = @ + 1]
  BY DEF PageWrites
<1>4. CASE written' = [written EXCEPT ![r] = @ + 1]
  BY <1>1, <1>2, <1>4 DEF Promise!Write, Promise!Next
<1>5. QED
  BY <1>1, <1>3, <1>4

LEMMA FillOnceStep == Inv /\ MarkInv /\ [Next]_vars => [Promise!Next]_(Promise!vars)
<1> SUFFICES ASSUME Inv, MarkInv, [Next]_vars
             PROVE  Promise!Next \/ UNCHANGED <<Phases, written, done, LetGo>>
  BY DEF Promise!vars
<1> USE DEF Inv, ControlInv, WriteInv, MarkInv
<1>1. Types'
  BY NextTypes
<1>2. CASE Reap
  <2>1. UNCHANGED <<done, ticket, written>> /\ Reaps(Late) /\ Late \in SUBSET Run /\ \A q \in Late : lease[q] # "none"
    BY <1>2 DEF Reap, browser, Late
  <2>2. QED
    BY <1>1, <2>1, ReapsGiveUp
<1>3. ASSUME NEW r \in Run, HandleStart(r)
      PROVE  Promise!Next \/ UNCHANGED <<Phases, written, done, LetGo>>
  BY <1>1, <1>3, StartBegins
<1>4. ASSUME NEW r \in Run, HandleKnown(r)
      PROVE  Promise!Next \/ UNCHANGED <<Phases, written, done, LetGo>>
  BY <1>1, <1>4, ServedPromise
<1>5. ASSUME NEW r \in Run, HandleReport(r) \/ Recovers(r)
      PROVE  Promise!Next \/ UNCHANGED <<Phases, written, done, LetGo>>
  <2>1. Serves(r)
    BY <1>5, ReportedServes
  <2>2. written' = written /\ (Keeps(r) \/ Gives(r))
    BY <1>5, EventCounts
  <2>3. \A q \in Run \ {r} : SameServer(q)
    BY <1>5, EventOthers
  <2>4. \A q \in Run : SameCounts(q)
    BY <2>2, <2>3 DEF Keeps, Gives, SameServer, SameCounts, LetGo
  <2>5. QED
    BY <1>1, <2>1, <2>4, ServesPromise
<1>6. ASSUME NEW r \in Run, Beat(r)
      PROVE  Promise!Next \/ UNCHANGED <<Phases, written, done, LetGo>>
  <2>1. UNCHANGED <<done, ticket, written>>
    BY <1>6 DEF Beat, browser
  <2>2. CASE lease[r] = "late"
    BY <1>1, <1>6, <2>1, <2>2, ReapsGiveUp DEF Beat
  <2>3. CASE lease[r] # "late"
    <3>1. \A q \in Run : SamePhase(q) /\ SameCounts(q)
      BY <1>6, <2>1, <2>3, SamePhases DEF Beat, SameCounts, LetGo
    <3>2. QED
      BY <1>1, <3>1, SameAll
  <2>4. QED
    BY <2>2, <2>3
<1>7. ASSUME NEW r \in Run, PageWrites(r)
      PROVE  Promise!Next \/ UNCHANGED <<Phases, written, done, LetGo>>
  BY <1>1, <1>7, PageWritesOnce
<1>8. ASSUME UNCHANGED <<state, done, ticket, written>>
      PROVE  UNCHANGED <<Phases, written, done, LetGo>>
  BY <1>8 DEF Phases, PhaseOf, LetGo
<1>9. ASSUME NEW r \in Run,
             \/ Lapse(r) \/ Stall(r) \/ BeatLost(r) \/ Lost(r) \/ Detect(r) \/ HearDetection(r) \/ ReportLost(r)
             \/ CloseTab(r) \/ RemoveRules(r)
      PROVE  UNCHANGED <<state, done, ticket, written>>
  BY <1>9 DEF Lapse, Stall, BeatLost, Lost, Detect, HearDetection, ReportLost, CloseTab, RemoveRules, server, browser
<1>10. ASSUME NEW r \in Run, Controller(r)
       PROVE  UNCHANGED <<state, done, ticket, written>>
  BY <1>10 DEF server, browser, Controller, Start, Started, NotStarted, InstallPreload, VerifyPreload, Revalidate,
     InstallTotal, VerifyTotal, AskGrant, NextAction, Check, Persist, Execute, ReportOutcome, Finalize, EndsAsTold, Over,
     Filled, GiveUp
<1>11. (\E b \in Browser : WorkerDies(b)) \/ UNCHANGED vars => UNCHANGED <<state, done, ticket, written>>
  BY DEF WorkerDies, vars, server, browser
<1>12. QED
  BY <1>2, <1>3, <1>4, <1>5, <1>6, <1>7, <1>8, <1>9, <1>10, <1>11 DEF Next, Handle, HandleKnown

LEMMA FillOnceInit == Init => Promise!Init
<1> SUFFICES ASSUME Init
             PROVE  Promise!Init
  OBVIOUS
<1>1. \A r \in Run : PhaseOf(r) = "idle" /\ ticket[r] = "none"
  BY PhaseFacts DEF Init
<1>2. Phases = [r \in Run |-> "idle"] /\ LetGo = [r \in Run |-> FALSE]
  BY <1>1 DEF Phases, LetGo
<1>3. QED
  BY <1>2 DEF Init, Promise!Init

(* The runs implement FillOnce, for any runs and applications, any number  *)
(* of fields and faults: each field is written at most once and only after *)
(* its intent, however requests, reports and workers are lost, a filled    *)
(* form has every field, and a run that has ended never works again.       *)
THEOREM FillsOnceAlways == Spec => FillsOnce
<1>1. Init /\ [][Next]_vars => [](Inv /\ MarkInv)
  <2>1. Inv /\ MarkInv /\ [Next]_vars => (Inv /\ MarkInv)'
    BY NextInv, NextMarked DEF Inv
  <2>2. QED
    BY <2>1, InitInv, InitMarked, PTL
<1>2. QED
  BY <1>1, FillOnceInit, FillOnceStep, PTL DEF Spec, FillsOnce, Promise!Spec

=============================================================================

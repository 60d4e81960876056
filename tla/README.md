# A verification project for ai-job-search

`src/` is a web application that finds jobs, prepares applications and, with a browser
extension, fills and submits them. Most of it turns documents into documents. A smaller part
decides *whether something irreversible happens*, how often, and what is believed afterwards:
an application sent to an employer, a unit of quota charged, an e-mail sent, a job run. That
part is concurrent (HTTP requests, a scheduler thread, background workers, one service worker
in every browser), loses processes and messages, and is what these modules model.

Contents: [inventory](#1-inventory), [plan](#2-plan), [what is modelled](#3-the-modules),
[what is checked](#4-the-runs), [what is proved](#5-the-proofs),
[where the code and its documents disagree](#6-disagreements), [what is left out](#7-abstractions-and-what-is-not-modelled).

## 1. Inventory

`PROJECT.json` lists every component with its sources. Those with state and actors of their own:

| Component | State it keeps | Operations | Talks to | Hard part | Correct when |
|---|---|---|---|---|---|
| Submission ledger (`services/human_submit.py`, `services/autonomy.py`, `persistence/autonomy_ledger.py`) | grants, intents, attempts and their event log | authorise, cancel, pre-click commit, dispatch, result, resolve, sweeps | web UI, extension, scheduler, tracker | nine transactions write two tables; reports, sweeps and people race | one live intent per job; an intent is released only on proof or on a person's word |
| Halt controls (`services/autonomy_controls.py`) | kill switch, acknowledgement, pauses, a sentinel file | engage, release, resume all, pause, latch | ledger, scheduler | a halt against what was already granted | nothing granted before a halt is usable after it |
| Submit executor (`extension/src/submit/`) | phase in `chrome.storage.session`, session egress rules, the controller in memory | pre-click, dispatch, open egress, click, watch, restore, report; recovery; sign-out | ledger over HTTP, employer page | the worker dies at any await; replies and events get lost; rules outlive the worker | no click before the dispatch is recorded; a failure is never claimed wrongly; the egress is closed again |
| Scheduler (`services/autonomy_scheduler.py`) | none of its own | sweeps, leases, paid steps | ledger, prepare queues, fill runs | it may be off; it meets slow workers | every phase ends |
| Job worker (`webapp/worker/runner.py`) | `jobs` rows, the claims in memory | enqueue, look, claim, renew, finish, retry | every background task | lease expiry under a live worker, crash at every point | results come from the latest claim only; every job ends |
| Outbox (`webapp/comms/outbox.py`) | `outbound_messages`, suppressions | enqueue, claim a batch, send, settle | job worker, e-mail provider | effects that cannot be rolled back, leases shorter than a batch | a duplicate needs a fault; what is done holds no secret |
| Prepare queues (`services/autonomy_prepare.py`, `persistence/autonomy_prepare.py`) | leases with generations, attempt log, budget reservations | lease, start, finish, recover orphans | scheduler, model providers | a paid step outside any transaction, zombie workers | a fenced worker writes nothing; each reservation is settled once |
| Fill runs (`services/fill_runs.py`, `services/fill_actions.py`, `extension/src/fill/run-controller.ts`) | run events, slot, lease, grant, outcomes; the controller in memory; two storage keys | start, observe, quarantine, grant, intent, outcome, beat, detect, stop, recover, reap | extension, page, scheduler | reaper, recovery, detections and a slow controller all end one run | an ended run holds nothing; nothing is written twice; the slot comes free |
| Quarantine (`extension/src/fill/quarantine.ts`, `background/fill-wiring.ts`) | session network rules, one set per browser | install, verify, narrow, remove | fill runs, tabs | rules outlive the worker and are shared by tabs | a page that was written to cannot send |
| Extension credentials (`services/extension_auth.py`, `token-client.ts`) | pairing codes, refresh tokens, devices; two storages of the client | pair, refresh, call, revoke, sign out | extension | the server reads, then writes; answers are lost | a code pairs once; an honest client is taken for a thief only for a cause |
| Usage metering (`services/usage.py`) | reservations, action claims | reserve, consume, release, take over, sweep | every AI action | the sweep against work still running | what ran is charged once, what failed is not |
| Billing (`services/billing_webhooks.py`, `services/billing.py`) | events, customers, checkouts, subscriptions | check out, receive, process, retry, supersede | provider, job worker | events late and out of order, two processors of one subscription | one live subscription; what was processed shows |
| Extension event queue (`extension/src/background/event-queue.ts`) | events per session in storage | append, flush, acknowledge | handoff API | worker death between send and remove | in order, at least once |
| Account lifecycle, sessions, notifications, discovery, onboarding | single rows | single transactions | job worker, outbox | little concurrency | consistent with what they schedule |
| Policies, understanding, fit, strategy, rendering | documents | pure functions | model providers | content | schemas and golden tests, not a state space |

`PROJECT.json` "hazards" names what is hard to test in this code, line by line, with the
properties that cover it, or the reason why none does.

## 2. Plan

In order of what the program must not get wrong; every entry is done.

1. **Submitting an application** - `SubmissionLedger` (server), its promise `SubmitOnce`, and
   `Submission`, which composes the ledger with the extension, the network and the employer's page.
2. **The carriers of background work** - `JobWorker` and `Outbox`.
3. **Paid work** - `PrepareQueue` (fenced leases, generations, budget reservations, orphan recovery) and
   `UsageMetering` (claims, reservations, takeover, TTL sweep).
4. **Who may act, and on what page** - `ExtensionTokens` (rotation against an honest client with lost
   replies) and `FillRuns` (run, lease, grant, controller, quarantine rules, reaper).
5. **Money** - `BillingSync` (checkouts, webhooks, superseding, conflicts).

What is left has little interaction to model: the extension's event queue (at-least-once append and
acknowledge), account deletion against running jobs, and the documents and policies of section 7.

Every module takes its sets and bounds as CONSTANTS with a named assumption, has one action per operation,
and uses no recursive operator, so that it can be proved about as well as checked.

## 3. The modules

| Module | Models | State | Actions |
|---|---|---|---|
| `SubmissionLedger` | the server's transactions, the halt controls, the scheduler's sweeps | `grant attempt source intent late byHuman halt sentinel paused` | one per transaction |
| `SubmitOnce` | what the ledger promises about each job | `stage` of a job: free, held, clicking, applied | hold, click, withdraw, not submitted, applied |
| `Submission` | `SubmissionLedger` composed with the extension's controllers, recovery, the network, the page | the ledger's and `ex outcome disk egress recovery wire reply events page signedOut` | one per stretch of the controller between two awaits that matter |
| `Budget` | what counted allowances promise | each charge's unit in each scope: none, reserved, spent, freed | reserve, free, spend |
| `FillOnce` | what filling a form promises | per run: phase, writes, confirmed writes, what is let go | begin, let go, write, confirm, finish, give up |
| `TokenFamily` | what rotating refresh tokens promise | per code: its family, the tokens that work; how many were issued | start, rotate, end |
| `Entitlement` | what an account may rely on, of subscriptions another party keeps | per subscription: how far it has come there, and as shown here | advance, show |
| `JobWorker` | the jobs table and its workers | the row's columns, `seen` and `claim` of each worker, retries under way | each statement or transaction of the runner |
| `Outbox` | the outbox, its dispatchers, the provider | the row's columns, `batch` and `work` of each dispatcher, what the provider accepted | each statement of the dispatch |
| `PrepareQueue` | the queue of unattended preparations and its drivers | lease, eligibility, attempts with their thread and reservations, the place of each driver in its tick | each transaction of a tick, and what a step's thread does |
| `UsageMetering` | units of a plan and claims of actions | place of each request, its claim, its ledger rows, the row it relies on | arrive, admit, refuse, keep, settle, sweep, die |
| `ExtensionTokens` | the credential of the extension, both ends | devices, tokens, both storages, requests in flight | send; each read and each write of the server; hear the answer |
| `FillRuns` | a fill run, its controller, the form, the rules of the browser | run state, slot, lease, grant, outcomes; controller, request, answer, storage; rules, tab, page | one per handler, per stretch of the controller, and per event of the browser |
| `BillingSync` | the subscriptions of an account at the provider and here | customer, checkouts, rows, events, the provider's subscriptions, what each processor is doing | check out, record, change, ingest, fetch, apply, mark, wait, fail |
| `*Proofs` (8 modules) | theorems: `SubmissionProofs` (ledger and composition), `JobWorkerProofs`, `OutboxProofs`, `PrepareQueueProofs`, `UsageMeteringProofs`, `ExtensionTokensProofs`, `FillRunsProofs`, `BillingSyncProofs` | | |
| `MC*` | instances for TLC | | |

**SubmissionLedger.** A run has at most one grant, one attempt and one intent (unique columns), so all
are functions of the run; `JobOf` maps runs to the job identity, and two runs of one job are two application
workspaces. `attempt` and `source` are the latest row of the attempt's event log; `late` is the deadline of
whatever phase the run is in (`expires_at` of the grant, `CLICK_DISPATCH_TTL`, the result timeout) and is
reset when the phase changes. `halt` has the three states the two tables give it: off, engaged, and released
but not acknowledged by RESUME_ALL. Transactions are `BEGIN IMMEDIATE` (or hold the account lock), hence
atomic; what a refused transaction still writes (the revocation of a grant, the expiry of an attempt) is part
of the refusing action. `Verdict` is `determine_submit_result` over the evidence of a report.

**Submission.** `ex` is the program counter of `SubmitController.steps`; `disk` is what it persisted before
going on. `WorkerDies` empties all controllers at once, since they share one service worker, and the restart
recovers every record found. A request sits in `wire` until the server handles it; its sender may have
given up by then. `page` is what the click did behind the egress rules: on its way, blocked, rejected, stored.
The server actions of the ledger are conjoined with taking a request and answering it; all other ledger
actions interleave freely. `SignOut` asks for the revocation (`signedOut` says whether the server heard it) and lists the
records for the recovery, without stopping the controllers, as the code does; `Wipe` clears both storages when the
listed records have been handled, also the records that controllers wrote meanwhile, and takes the credential: what is
sent afterwards fails (`Connected`). A worker that dies between the two forgets the sign-out. `unrestored` is history.

**JobWorker.** `_claim` is three steps, `Look` (SELECT), `TryClaim` (conditional UPDATE, committed) and
`ReadRow` (the SELECT of the claimed row), because other workers act in between. `claim[w]` is what the worker
holds in memory: the job, the attempts it read, and as history the `number` its UPDATE counted, which is not what it
read when it stalled past its lease in between. A stalled worker goes on with a claim that the table has given away.
`_finish` is conditional on the holder.

**Outbox.** `claim_due` marks a batch SENDING under one lease; `Read` is the SELECT of one message, and the
write that follows it (`_set`) is unconditional, as in the code. `mails` counts what the provider accepted.

**PrepareQueue.** A tick judges leases by the time it began at (`tick[d].now`), the step's fence and the end
of a step read the clock; that difference is in the code and in the model. A paid step runs on a thread
(`thread[a]`) that outlives its driver's patience (`StepTimesOut`), its driver (`CrashAndRestart`) and its
lease; its commit re-reads holder, generation and attempt (`StepCommits`, else `StepRefused`). `verdicts[a]`
is the *set* of terminal rows of an attempt, because a slow driver and a recovery may both write one.

**UsageMetering.** Admission holds the account's lock and is one action; the work runs outside it; the
settlement is another transaction. `unit[r][l]` is the request whose row pays for `r`, which may be an earlier one of the same
workspace. Rows expire by the clock when `SweepExpired` runs, claims when somebody takes them over. The work commits (`Keep`)
before it is known how its request ends: an artifact commits as it is saved, a paid step through its fence. So a
request may fail (`SettleFailure`; `Unreserve` for a step that raised, timed out or lost its lease) or die with its output
in the database; `kept[r]` is that history.

**ExtensionTokens.** Each request of the server is two steps, `...Reads` and `...Writes`, as it reads outside
the write transaction and then updates conditionally. `life` numbers the starts of the service worker: an
answer to an earlier life is for nobody. A refused refresh stands for expiry too.

**FillRuns.** The controller has one request under way (`ctl`, `wire`, `answer`) beside heartbeats and
reports. `key` and `mark` are the two records in `chrome.storage.session`; a restarted worker turns them into
`rec`, the report it will try to make. `rules` is one per *browser*, as the rule ids are. `written` counts what
the script in the page wrote; the script goes on when the worker dies.

**BillingSync.** An event carries no state. `Fetch` is the call to the provider, `Apply` the transaction that
is released with the savepoint, `Mark` the statement after it, and `Fail` may come before either. Each change at
the provider has a number, `version`; a row remembers which version it shows. `overlapped` is history: the
subscriptions of which two processors held a snapshot at once.

**The promises.** Five small modules say what a component is for without saying how, and the detailed module
states that it implements one (`Promise == INSTANCE ...` and a property `Promise!Spec`): `SubmissionLedger` implements
`SubmitOnce` (stages of a job), `PrepareQueue` and `UsageMetering` both implement `Budget`, `FillRuns` implements `FillOnce`,
`ExtensionTokens` implements `TokenFamily`, and `BillingSync` implements `Entitlement`. The mappings read only what is
durable: rows of the server (for `FillRuns` also what the form in the tab has seen). `PrepareQueue`
maps each attempt to a charge of two scopes, its day and its item, capped by `DayCap` and `ItemCap`; once settled it is spent,
never freed. `UsageMetering` maps each request to a charge of its allowances; a lapsed row is freed, by
the sweep or by the next reservation in the same step. `FillRuns` maps the run's latest event to a phase,
`written` to the writes of the form, `done` to what is confirmed, and an issued intent to what is let go.
`ExtensionTokens` maps a code to its family (unused, live, ended) and to the tokens of it that are not rotated.
`BillingSync` grades a status (none, attempted, running, ended) at the provider and here.

Seeded faults (operators commented as such or named for what they forget, such as `FinishById`) are not part
of any specification: each is a plausible bug in the definition that follows it, and exists to show that the
property beside it can fail.

## 4. The runs

| Run | Question | Bounds | Result |
|---|---|---|---|
| `ledger` | Do the transactions keep one intent per job, halts effective, phases finite, and `SubmitOnce`? | 2 runs of one job, a second job with manual application only | holds, 10,304 states |
| `submission_two` | Can two browsers' runs of one job end in two applications, or a stored one be called failed? | 2 runs, 1 fault, no controls | holds, about 454,000 states up to symmetry |
| `submission_controls` | Is the click always behind a recorded dispatch, and who can close an open egress, under all controls and sign-out? | 1 run, 1 fault, deadlines may pass at any time | holds, about 2.0 million states |
| `submission_sign_out` | Is a failure proven when the extension signs out in the middle? | 1 run, no fault | violated |
| `worker` | Single worker per claim, results from the holder only, ended jobs stay ended, all jobs end | 2 jobs, 2 workers, 2 attempts, 2 faults, 2 retries | holds, about 437,000 states |
| `outbox` | Duplicates, redaction, leases, every message ends | 2 messages, 2 dispatchers, 2 attempts, 2 faults | holds, about 31,000 states |
| `prepare` | Budgets under concurrent drivers, fenced commits, `Budget`, every attempt ends | 1 item, 2 drivers, 1 step, 2 attempts, 2 leases, caps 1 and 2, 1 change of inputs or crash, time to 2 | holds, about 658,000 states |
| `usage` | Limits, duplicates and takeovers, unpaid work, stuck units, `Budget` | 3 requests, 2 workspaces, 1 stage, 1 unit of each allowance, TTL 1, time to 2 | holds, about 685,000 states |
| `extension` | False theft, `TokenFamily` | 2 codes, 4 requests, 1 lost answer or death | holds, about 484,000 states up to symmetry |
| `fill` | What an ended run holds, form against record, `FillOnce`, free slots | 2 runs of one application in 2 tabs, 2 fields, 1 fault | holds, about 520,000 states |
| `fill_tabs` | Is a page that was written to quarantined while it is open? | the same | violated |
| `billing` | One live subscription, processed events show and converge, `Entitlement` | 2 sessions, 2 plans, 2 processors, 3 changes in all | holds, about 1.8 million states up to symmetry |

**Why the bounds are enough.** Two workspaces are the smallest conflict over one job, two drivers, workers,
dispatchers or processors the smallest race; what a third could add to the safety properties is covered by the
proofs, which hold for any number. One fault means one lost reply, one lost
event, one failed storage or rules update, one closed tab, or one death *at any point of the run*, which is what
the code is built to survive; two independent losses in one run are outside the runs, not outside the proofs. Two
attempts are the least with a "last" one that differs from the first; two workers and two faults let
one stall, be overtaken, and the other crash. A batch of two messages is the least in which a crash loses
part of one.
In `prepare`, a step timeout of 0 and a lease of 1 let a thread outlive its timeout, its lease and the next
lease within two units of time; a day's cap of 1 below two attempts makes the second driver meet a budget that
the first still holds. The same cap lets TLC begin one attempt only (a cap of 2 takes it beyond five minutes), so
what several attempts of one step do to one another is covered by `PrepareQueueProofs`, which holds for any cap. In `usage` the first request is a stage of one workspace, the second an autonomous preparation
of it, the third that stage again or an autonomous preparation of another workspace: so they meet over a claim, over a unit,
or over a limit of one.
In `extension`, pairing twice, refreshing, and one more request is the shortest history in which a stored token
is overwritten while its refresh is in flight. In `fill` the second run claims what the first has lapsed from.
In `billing` three changes suffice for one subscription to be paid, fail and end, or for two to be paid and one
to end. `MaxFaults`, `MaxRetries`, `MaxChanges`, `MaxVersion`, `MaxFlights`, `MaxAttempts` and `MaxLeases` of `PrepareQueue`,
`LastLease`, `LastArrival` and `MaxTime` bound what the environment does or how long TLC looks, not what the
program does; `MaxAttempts` of `JobWorker` and `Outbox`, `MaxAttemptsPerCycle`, the caps and the TTL are the
code's own limits made small. `Fate` fixes in advance which messages a dispatcher refuses. Symmetry is used in
`submission_two`, `extension` and `billing`, which check no liveness.

**What may stop.** `ledger` and `prepare` check for deadlock: there the controls, or the drivers' ticks, can always act. The
other runs set `CHECK_DEADLOCK FALSE`: when all jobs have ended, all messages are settled, the executor of the only run is
gone, or the requests and changes of the instance are used up, there really is nothing to do.

**Fairness, and why the code justifies it.**
- Ledger: time passes (`Elapse`) and each sweep runs (`ExpireGrants`, `ExpireUnclicked`,
  `MarkStaleAmbiguous`). `run_driver` calls `tick_once` on a period and the sweeps are the first thing a tick
  does, halted or not. This assumes the scheduler is *enabled*: with `autonomy_scheduler_enabled` off, no tick
  runs and nothing expires. No fairness is assumed of people, the extension or the controls.
- Worker: time passes, a live worker polls, tries what it read, and its handler returns or is timed out
  (`run_forever`, the handler's timeout). Crashes and stalls are unfair and finite.
- Outbox: time passes, dispatch jobs keep being started (the schedule enqueues one a minute) and each goes
  on with its batch (the SMTP client has a timeout).
- Prepare queue: time passes and each driver's loop goes on, whichever branch its tick takes. Nothing is assumed of a step: it
  may never return, it is the driver that stops waiting.
- Usage: time passes and the scheduled sweep runs. Work may take for ever.
- Fill: the server handles a request that reached it, a controller in memory and the script in the page go on,
  an unrenewed lease lapses, the sweep reaps. Nothing is assumed of a dead worker (it need not start again), of beats or reports.
- `Submission`, `ExtensionTokens` and `BillingSync` have no fairness: their properties are about what never
  happens. That a submit ends is `PhasesEnd` of the ledger, whatever executors do. An event of a conflict may
  wait for ever (section 6), so no liveness of billing would be true.

**The properties.**
- *IntentMatchesAttempt* relates the two tables; *OneLiveIntentPerJob* the intents of a job, also those a
  person recorded by hand; *HaltLeavesNoGrant* the halt and the grants; *DispatchOnlyByHolder* is an action
  property about the one step that hands out the right to click. *PhasesEnd* is liveness.
  *SubmitsOnce* is the refinement `SubmissionLedger => SubmitOnce` under `Stage`, which reads a job's stage
  off its intents and attempts: an unknown outcome stays "clicking", so no sweep can free such a job.
- *ClickOnlyAfterDispatch*, *FailedMeansNotStored*, *ConfirmedMeansStored* compare what the employer's
  page did with what the server believes; *StoredKeepsTheJob* and *OneApplicationPerJob* are the end-to-end
  promise; *EgressAttended* says who can close opened egress rules: a record leads recovery to
  them unless the last restoring failed; once somebody signs out, only the running controller, and nobody if it dies.
- *OneWorkerPerClaim* (one worker per job until something fails, one per counted attempt when leases lapse under
  live workers, although a worker that reads its row late may go by its successor's number; while nobody retried by hand, since a retry restarts the numbering and frees the lease),
  *OnlyHolderFinishes*, *EndedStaysEnded*, *JobsEnd*.
- *EveryDuplicateHasACause* bounds the e-mails of a message by the faults that happened and says that one
  without its links is never the first; *DoneIsRedacted*, *OneDispatcherPerMessage*, *MessagesEnd*.
- *SpendWithinCaps* counts reserved and consumed calls against both caps over all drivers;
  *OnlyTheYoungestCommits* is about the thread nobody waits for any more; *AttemptsEnd* about every crash.
  *KeepsBudgets* is the refinement `PrepareQueue => Budget`: an attempt is charged to both scopes in one step
  and only below both caps, and what two settlers make of it is spent once.
- *UsedWithinLimit*, *SuccessesAreSequential* and *KeptWorkIsPaid*, which says of everything that was kept, also by requests that
  failed or died, that it rests on a consumed unit unless the unit expired under way or its reserver failed, died or still works;
  *ReservationsSettle*. *KeepsPlan* is the refinement `UsageMetering => Budget`: units are taken together or not at all,
  each settles once, and a late settlement never takes back what a sweep freed.
- *TheftHasACause*: reuse detection fires on an honest device only after the
  answer to one of its own refreshes never reached it. *KeepsFamilies* is the refinement
  `ExtensionTokens => TokenFamily`, although every request reads in one step and writes in another.
- *EndedHoldsNothing*, *WritesMatchOutcomes* (form against record), *SlotsComeFree*. *FillsOnce* is the refinement
  `FillRuns => FillOnce`: no field is written twice or out of order, across deaths, recoveries and
  stops, and a run that has ended never works again (filled ones may become void).
- *OneLive*, *ProcessedIsApplied* and *ConvergesOnProvider* (with the one exemption that the code needs), and
  *KeepsEntitlement*, the refinement `BillingSync => Entitlement`: ends are final, what was paid ends only
  with the provider, a new subscription enters only when no other one runs. *BillingTypeOK* includes when the payment grace begins.

Other type invariants, and the consequences *CredentialsAreUnique*, *EndedStaysEnded* (of `FillRuns`), *TerminalStays* and
*PaidEndsWithProvider* of the refinements, are not repeated in the runs: they are proved.

## 5. The proofs

All theorems hold for any constants that satisfy the named assumptions. These say that functions have their
domains (`JobOfAssumption`, `SubmissionAssumption`, `FillAssumption`), that bounds are naturals, that "nobody" is not somebody
(`WorkerAssumption`, `TokensAssumption`), that something exists to choose from (`PrepareAssumption`, `UsageAssumption`) and, where the argument counts,
that a set is finite: the dispatchers (`OutboxAssumption`), the requests, the items. Other sets may be infinite, and
every bound of section 4 is arbitrary.

**SubmissionProofs, the ledger.** The inductive invariant is

    LedgerInv == LedgerTypeOK /\ IntentMatchesAttempt /\ OneLiveIntentPerJob /\ HaltLeavesNoGrant

None of the last three is inductive by itself: that a sweep may release an intent needs its attempt to
be unclicked (`IntentMatchesAttempt`); that a commit adds the only live intent needs that a run with an
issued grant has none yet (again `IntentMatchesAttempt`: an intent means a consumed grant); and that a
release by one run cannot free another's job needs `OneLiveIntentPerJob`. Each is preserved by lemmas per
transaction, sweep and control (`SubmittingMatches`, `SweepingMatches`, `ControllingMatches`,
`HaltPreserved`, `ShrinkingKeepsOneLive`). From `LedgerInv` follow `IntentMatchesAttemptAlways`,
`OneLiveIntentAlways`, `HaltLeavesNoGrantAlways`, the action property
`DispatchOnlyByHolderAlways`, and `LedgerSubmitsOnce`: initial states map to initial states
(`StageInitially`) and each step to a step of `SubmitOnce` or a stutter (`LedgerStep`). The refinement
needs the invariant in both the state before and the state after: only with one live intent per job is the stage of a
job that of the run that holds it (`StageOfHolder`).

**SubmissionProofs, the composition.** Every step of `Submission` is a step of the ledger or leaves it alone,
so the ledger's theorems carry over, and `SubmissionSubmitsOnce` is one of them. `PhaseInv` adds what a
controller knows at each of its phases: which answers can be on the wire (`Answers`), what the ledger must hold
when it goes on (`Knows`) and who attends the egress (`Attended`: there is a record from before the egress opens until it was restored or the
restoring failed; the record is lost earlier only in a sign-out). From it follow `ClickOnlyAfterDispatchAlways` and
`EgressAttendedAlways`. `HistoryInv` relates page, events and evidence to the verdict; from it follows
`ConfirmedMeansStoredAlways`, for every behaviour, and, in the states of `Trusting == Prompt /\ signedOut # "LOCAL"`,
`FailedMeansNotStoredAlways`, `StoredKeepsTheJobAlways` and `OneApplicationPerJobAlways`; if nobody may sign out these hold
in every state. Before a sign-out a run has one reporter (`OneReporter`, with `Attended`: a recovery begins only where the controller is dead). After a
sign-out both may be at work, but if the server heard of it, it takes no more of their reports, so what it then concludes
it concludes from its own deadlines. Nothing is left but the sign-out it did not hear of, and that case is real:
`submission_sign_out` shows it. `Prompt`, that an executor does not click after its dispatch deadline, is an assumption on time.

**JobWorkerProofs.** `WorkerInv` has, beside the types and the two halves of `OneWorkerPerClaim`
(`OneWorkerPerAttempt`, and `ClaimsAreHeld`: until something fails, who has claimed a job holds its lease), that a
worker that holds the row counted and reads the row's latest attempt number (`HolderIsLatest`), that no claim precedes
its row, that claims count no number above the row's and read none below their own (`ReadsAreLater`), and that
retries under way were asked for.
`HolderIsLatest` is why a write conditional on the *holder* alone is safe although it does not name the attempt.

**OutboxProofs.** `HoldInv` is why two dispatchers do not meet before a lease is overrun. `CountInv` is a
budget: mails accepted so far, plus one if somebody may still send, are covered by the faults charged to the message
(`WithinBudget`); `LinksInv` says why a message without links was sent before. Together they are
`EveryDuplicateHasACauseAlways`.

**PrepareQueueProofs.** `SpendWithinCaps` is inductive with the types, once it is proved that adding one
attempt adds at most one to each count. `KeepsBudgetsAlways`, the refinement of `Budget`, takes its strengthening
from that invariant: an attempt not yet begun has no reservation, and the units in use of a scope are `Charged` or `ChargedTo`
(`InUse` of the promise, counted by `SameCount`, since the provers keep the `Cardinality` of an instance apart from
that of the module). `CommitInv` says of each driver what its job, its attempt and the lease must be
at each place (`Sound`), and that a failed attempt's thread is over or fenced out (`FailedIsOver`); generations only grow, which makes a younger lease final.

**UsageMeteringProofs.** `ClaimsInv` orders executions of one action in time (`OneRunning`,
`RunningIsLater`) for `SuccessesAreSequentialAlways`; `UnitsInv` follows each unit from reservation to settlement
(`ReservedIsPending`, `UnitsAccounted`) for `KeptWorkIsPaidAlways`; `LimitInv` counts. With it
`KeepsPlanAlways` maps each step to one of `Budget`: a reservation frees what has lapsed and takes its units in one
step of both, a settlement spends or frees the request's own units, and the sweep frees.

**ExtensionTokensProofs.** `TheftInv` follows each token from its birth: only one request can bring it
(`BroughtOnce`), a rotated token was presented (`RotatedWasPresented`), a second presentation has a cause
(`PresentedAgainForACause`), and what the client still has to hear it does not know yet (`PendingIsUnknown`).
`KeepsFamiliesAlways` rests on `CredentialsInv` (types and `CredentialsAreUnique`): since a code has one device and a device
one working token, a rotation takes exactly the token that was working (`FamilyRotates`), a pairing starts a family that was
unused (`FamilyStarts`), and a revocation of any kind ends one (`FamilyEnds`). What is subtle is the gap between
read and write: a refresh that read before its device was revoked still rotates, so the promise allows a rotation of an
ended family, whose new token nobody accepts.

**FillRunsProofs.** `ControlInv` says of each run what its request, its answer, the record and the page can
be, given where its controller is; with it `EndedHoldsNothing` and `WriteInv` (form against outcomes, for any
number of fields) are inductive. `FillsOnceAlways` adds `MarkInv`: what a controller executes or reports, and what a
restarted worker finds marked, was let go by an intent that is still out and is the next action, so nothing is confirmed that was not written.
`QuarantinedInItsOwnBrowser` settles what `fill_tabs` leaves open: under `ItsOwnBrowser` (no two runs share a browser) no
fault, death or order of events takes the rules from a written page while its tab is open. Its invariant `GuardInv` says that the
rules are in full from the check before an intent on, and are only removed for a tab that is closed. So the
sharing of one rule set by tabs is the only cause of that finding.

**BillingSyncProofs.** `BillingInv == TypeInv /\ OneLive /\ Real /\ Fresh`. `Real` says that no row and no
snapshot in hand is newer than the provider, that a snapshot is not older than the event it was fetched for, and that a terminal one is still true; `Fresh`
that, unless a subscription was overlapped, the one snapshot in hand is not older than the row and what was applied or processed shows in it.
`TerminalStaysAlways` and `PaidEndsWithProviderAlways` follow from a step's effect on the rows (`ApplyStep`).
`ConvergesOnProviderAlways` needs that versions tell states apart (`Agreement`): a snapshot in hand (`HandsAgree`) or a row (`RowsAgree`)
of the provider's present version has the provider's present status, unless the row was ended here.
With one processor at a time nothing is overlapped and the exemption is void (`OneProcessorConverges`).
`KeepsEntitlementAlways` adds `SnapshotsBehind`, that no snapshot in hand has come further than the provider; then `Changes` maps to
`Advance` (`ChangesMaps`), `Apply` to `Show` with all that it supersedes (`ApplyMaps`), and everything else to a stutter.

**Model-checked only.** The liveness properties (`PhasesEnd`, `JobsEnd`, `MessagesEnd`, `AttemptsEnd`,
`ReservationsSettle`, `SlotsComeFree`): the provers handle neither fairness nor ENABLED. Out of reach for these
provers altogether are induction over data and recursive operators; no module needs either.

## 6. Disagreements

Statements of the repository that its code does not keep. The first two have a run with a counterexample
and an entry under "findings" in `PROJECT.json`; the others are visible in the models, whose properties are stated
so as to allow exactly them.

1. *Signing out during a submit can produce a false failure* (`background/index.ts:61`). The recovery reports
   "not clicked" for a run whose controller is about to click. It takes a sign-out that the server does not hear of:
   in all other states `FailedMeansNotStored` is proved.
2. *Closing a tab lifts the quarantine of another* (`run-controller.ts:356`): the rules are one set per
   browser, and `onTabClosed` removes them whoever they are for.
3. *A newer subscription state can be overwritten by an older one* (`billing_webhooks.py:125`). The module says
   that events "converge on the provider's state". The snapshot is fetched before the transaction reads
   anything (a savepoint alone takes no lock), so of two processors of one subscription the older snapshot
   may be written last, both events count as processed, and it stays until the provider sends another event.
   `ProcessedIsApplied` exempts overlapped subscriptions; TLC finds the loss when it does not. With one processor it
   cannot happen (`OneProcessorConverges`).
4. *A wake may be lost* (`persistence/autonomy_prepare.py:448`). The end of a step writes `next_eligible_at`
   from what the driver read before it ran. New inputs that arrive meanwhile wake the item, and the end of
   the step puts it to sleep again, against "a dormant item is re-derived whenever `next_prepare_step()` or
   screening could now produce work" (prepare design, 6.2).
5. *A refused dispatch shown to the person may have been recorded* (`submit-controller.ts:234`). The design says
   "the server already recorded it" of the refusal; when only the reply was lost, what it recorded is
   CLICK_DISPATCHED. Nothing is submitted and the job stays taken until the person resolves it.
6. *The last attempt of a job is not the last when its worker dies* (`runner.py:101`, docstring :8-9).
7. *SENT is not final* (`outbox.py:138`, against :40): a dispatcher that outlived its lease writes by id alone.
8. *The retry of a failed message raises* (`admin_actions.py:199`): it sets a column that the table does not have.
9. *`retry_job`* (`admin_actions.py:181-191`) reads DEAD and updates by id, so the
   second of two overlapping retries can requeue a job that has succeeded meanwhile. `EndedStaysEnded` of `JobWorker` allows
   this step explicitly (`Requeued`), and nothing else.
10. *An attempt may have two terminal rows* (prepare design, 81): recovery and a slow driver both write one; a lease's
    expiry is counted from the tick's `now`, which may be old (:151).
11. *"Executes at most once at a time"* (`usage.py:219-220`) does not hold of a worker that is alive after its lease: it and its
    successor both run; `SuccessesAreSequential` is about what counts as succeeded.
12. *"A rotating refresh token is never presented twice by this device"* (`token-client.ts:6-7`) fails after a lost answer or a
    death of the service worker; and a pairing may be overwritten by the answer to a refresh of the previous device, or wiped by its late 401
    (`token-client.ts:87`, :122).
13. *Rules may linger* after the tab of a dead worker closed, or when a controller installs them after the
    removal; later runs of that browser then stop as `another_quarantined_tab` until it is restarted (fill design, 415).
    Whether another tab is quarantined is looked up long before the installation (`run-controller.ts:238`), so a slow controller may also replace the rules of another tab.
14. *Fill, smaller*: a write with unknown outcome may end as EXECUTOR_LOST without one (fill design, 548); one lost
    heartbeat stops the heart for good; the executor does not check the expiry of an envelope, so the controller
    of a stopped run may still write with one it was given; a lost answer to the start, or a tab closed during it, leaves the run to its lease.
15. *"Two workers never run the same claim"* (`runner.py:3-4`). Two live workers may run one job after a lapsed lease, and
    under one attempt number: the UPDATE that counts it is committed (:131) before the row is read (:139), so a worker that
    stalls in between reads the number of its successor. The row is safe, as the finishing write names the holder
    (`OnlyHolderFinishes`); `OneWorkerPerClaim` names this case. No handler looks at the number.
16. *Failed work may stand.* Of a step whose lease was lost the scheduler says "nothing committed"
    (`autonomy_scheduler.py:445`), and `metered` that a failed stage's writes "are not kept" (`usage.py:250`). A step commits through its
    fence before it may be declared late or lost, and an artifact commits as it is saved (`persistence/artifacts.py:57`): the
    output stays and its unit is released. `KeptWorkIsPaid` names this among the ways in which work is free.
17. *Billing, smaller*: when sessions of two plans are both paid, the event of the second waits as a conflict; its job is
    dead after its attempts, and only the next webhook tries it again (before the newer events, as events are
    processed in order of arrival). Both sessions may have got the trial. An abandoned first payment that was superseded stays
    INCOMPLETE_EXPIRED here if it is paid after all.
18. *"An active run restores TOTAL before its state goes"* (`token-client.ts:153`, `index.ts:62`: "abort any recorded run
    before the state is wiped"). The listeners of a sign-out stop no submit controller. One whose record was removed
    by their recovery, or by the wipe because it was written after the listing, goes on to open the egress; if the worker
    then dies, the rules stay open and no restart finds them. `EgressAttended` exempts exactly these controllers; until
    somebody signs out it has no such exemption.

## 7. Abstractions, and what is not modelled

- *Submission.* The proofs that a pre-click re-checks (review hash, binding, entitlement, certification, identity) are one
  choice: a proof fails or none does. Their content is comparison of documents.
  The observation of the page, certified signals and challenges are folded into the outcome of the watch;
  the signals are taken to be truthful. How long a watch lasts (each new challenge extends it) is not modelled.
  A submit event is recorded or lost as a whole; later storage writes of the controller succeed. The browser
  is not closed; that its session storage and session rules vanish together is left out. After a wipe the
  extension is not paired again.
  A person who resolves an ambiguous attempt knows the truth and answers when the click has had its effect.
  In `submission_two`, `Prompt` says that the deadline of a dispatched click does not pass while the click may
  still come (the scheduler waits ten minutes by default, the extension about six). `submission_controls` drops it.
  One pause scope stands for all. Intent overrides exist in the ledger but no production code calls
  them. The autonomous entry points (`request_grant` for SUBMIT, `pre_click_commit`) always raise, so only
  submission by a person exists.
- *Job worker and outbox.* Handlers of jobs are opaque; a handler that timed out keeps running in its thread, and what it does then
  is a question about the handler. Which of several due jobs a worker takes first is left open. A `_finish`
  that raises is a crash. Suppression of an address, with its exemptions and the 30 days of a soft bounce, is one set of messages.
  The content of e-mails is whether it still has its links.
- *Prepare queue.* Left out: what steps compute, the free steps on the driver's own connection, screening and
  promotion of candidates, the content of permissions. Judging an orphan and recovering it are one step.
- *Usage.* Left out: the end of a window, changes of plan, gauges, the ceiling of AI cost, notifications.
- *Extension credentials.* Left out: handoff tickets, rate limits, the expiry of codes. Tokens may be refused at any time, which stands for their expiry.
- *Fill.* Left out: the content of plans and observations (a check passes or stops the run), actions that write
  nothing, a lost quarantine that is reported after the run was filled, and the recovery that a sign-out starts
  beside a live fill controller. A tab used again after a run needed review is a new tab. The branch for a repeated intent cannot be reached.
- *Billing.* TRIALING is folded into ACTIVE; UNKNOWN, a fail-closed state for statuses nobody knows, is left out. A plan
  stands for a plan and its interval. What a snapshot says beyond its status is its version. Left out: signatures, notifications, the log of states, entitlements that follow, the clock of the grace. Events that
  one request processes in one transaction are separate steps here. A session may be paid before its row is
  committed, since it exists at the provider first.
- Logging, alerts and audit rows are left out; so are purges that delete whole tenants.
- Not modelled at all: the components with that status in `PROJECT.json`, each with its reason. They are pure
  functions of documents, single-row transactions, rendering or I/O; together they are most of the lines of the
  repository. What is modelled is the part in which something can go wrong between two actors.

------------------------------- MODULE Outbox -------------------------------
(***************************************************************************)
(* The transactional outbox (webapp/comms/outbox.py): messages enqueued    *)
(* with the work that causes them, and the outbox.dispatch jobs that claim *)
(* a batch of due ones under a five-minute lease and send them one by one. *)
(*                                                                         *)
(* Several dispatch jobs run at once: enqueueing kicks one per ten-second  *)
(* slot and the schedule adds one a minute, each with a dedupe key of its  *)
(* own.  Reads are not in a transaction with the write that follows them   *)
(* (webapp/persistence/dbapi.py: SELECTs autocommit on both databases).    *)
(* The retry of a FAILED message by an administrator has no action here:   *)
(* its UPDATE names a column the table lacks, so it always raises.         *)
(***************************************************************************)
EXTENDS Naturals, FiniteSets

CONSTANTS
  Message, Dispatcher, None,
  Fate,         \* SEND, or CANCELED for category MARKETING, or FAILED for a template
                \* that cannot be rendered
  Batch,        \* how many messages one dispatch claims
  MaxAttempts,  \* sends before a transient failure is final
  MaxFaults     \* bound on overrun leases, crashes, answers lost and errors

(* A message in work, as the dispatcher read it.                           *)
Item == [msg : Message, attempts : Nat, blank : BOOLEAN, step : {"SEND", "SUPPRESSED", "CANCELED", "FAILED"}]

ASSUME OutboxAssumption ==
  /\ IsFiniteSet(Dispatcher) /\ None \notin Item
  /\ Fate \in [Message -> {"SEND", "CANCELED", "FAILED"}]
  /\ Batch \in Nat \ {0} /\ MaxAttempts \in Nat \ {0} /\ MaxFaults \in Nat

VARIABLES
  status,     \* outbound_messages.status, NONE without a row
  attempts,   \* outbound_messages.attempts
  due,        \* next_attempt_at has passed: the backoff, or the lease when SENDING
  redacted,   \* the payload's credentials are redacted
  suppressed, \* the messages whose address must not be written to
  batch,      \* the messages a dispatcher has claimed and not looked at yet
  work,       \* the message it is working on, with the attempts it read
  mails,      \* emails of the message that the provider accepted
  blank,      \* the messages of which an email went out without its links
  faults

rows == <<status, attempts, due, redacted>>
vars == <<rows, suppressed, batch, work, mails, blank, faults>>

Terminal == {"SENT", "FAILED", "SUPPRESSED", "CANCELED"}

OutboxTypeOK ==
  /\ status \in [Message -> {"NONE", "QUEUED", "SENDING"} \cup Terminal]
  /\ attempts \in [Message -> 0 .. MaxAttempts]
  /\ due \in [Message -> BOOLEAN]
  /\ redacted \in [Message -> BOOLEAN]
  /\ suppressed \subseteq Message
  /\ batch \in [Dispatcher -> SUBSET Message]
  /\ work \in [Dispatcher -> Item \cup {None}]
  /\ mails \in [Message -> Nat]
  /\ blank \subseteq Message
  /\ faults \in 0 .. MaxFaults

Init ==
  /\ status = [m \in Message |-> "NONE"]
  /\ attempts = [m \in Message |-> 0]
  /\ due = [m \in Message |-> FALSE]
  /\ redacted = [m \in Message |-> FALSE]
  /\ suppressed = {}
  /\ batch = [d \in Dispatcher |-> {}]
  /\ work = [d \in Dispatcher |-> None]
  /\ mails = [m \in Message |-> 0]
  /\ blank = {}
  /\ faults = 0

Fault == faults < MaxFaults /\ faults' = faults + 1

-----------------------------------------------------------------------------
(* The table.                                                              *)

Enqueue(m) ==
  /\ status[m] = "NONE"
  /\ status' = [status EXCEPT ![m] = "QUEUED"]
  /\ due' = [due EXCEPT ![m] = TRUE]
  /\ UNCHANGED <<attempts, redacted, suppressed, batch, work, mails, blank, faults>>

(* record_email_event: a hard bounce or a complaint about the address.     *)
Suppress(m) ==
  /\ suppressed' = suppressed \cup {m}
  /\ UNCHANGED <<rows, batch, work, mails, blank, faults>>

Working(d, m) == m \in batch[d] \/ (work[d] # None /\ work[d].msg = m)

(* A backoff or the lease of a dead dispatcher runs out; the lease of a    *)
(* live one, whose batch takes longer than five minutes.                   *)
ComesDue(m) ==
  /\ status[m] \in {"QUEUED", "SENDING"} /\ ~due[m]
  /\ due' = [due EXCEPT ![m] = TRUE]
  /\ IF status[m] = "SENDING" /\ \E d \in Dispatcher : Working(d, m)
       THEN Fault ELSE UNCHANGED faults
  /\ UNCHANGED <<status, attempts, redacted, suppressed, batch, work, mails, blank>>

-----------------------------------------------------------------------------
(* Dispatching.                                                            *)

(* Seeded fault: what a dead dispatcher left behind is not due again.      *)
DueIfQueued(m) == status[m] = "QUEUED" /\ due[m]

Due(m) == status[m] \in {"QUEUED", "SENDING"} /\ due[m]

(* The batches that may be claimed: LIMIT cuts off the rest.               *)
Batches ==
  LET all == {m \in Message : Due(m)} IN
  {S \in SUBSET all : Cardinality(S) = Batch \/ (S = all /\ Cardinality(S) < Batch)}

Claim(d, S) ==
  /\ batch[d] = {} /\ work[d] = None
  /\ S # {}
  /\ batch' = [batch EXCEPT ![d] = S]
  /\ status' = [m \in Message |-> IF m \in S THEN "SENDING" ELSE status[m]]
  /\ UNCHANGED <<attempts, redacted, suppressed, work, mails, blank, faults>>

(* Seeded fault: a claimed message is not leased.                          *)
ClaimDueWithoutLease(d) == \E S \in Batches : Claim(d, S) /\ UNCHANGED due

(* claim_due.                                                              *)
ClaimDue(d) ==
  \E S \in Batches :
    /\ Claim(d, S)
    /\ due' = [m \in Message |-> due[m] /\ m \notin S]

(* dispatch_one reads the row and leaves a terminal one alone.             *)
Read(d, m) ==
  /\ m \in batch[d] /\ work[d] = None
  /\ batch' = [batch EXCEPT ![d] = @ \ {m}]
  /\ work' = IF status[m] \in Terminal THEN work
             ELSE [work EXCEPT ![d] = [msg |-> m, attempts |-> attempts[m], blank |-> redacted[m],
                                       step |-> IF m \in suppressed THEN "SUPPRESSED" ELSE Fate[m]]]
  /\ UNCHANGED <<rows, suppressed, mails, blank, faults>>

(* Seeded fault: nothing is redacted.                                      *)
SetUnredacted(d, state, count) ==
  LET m == work[d].msg IN
  /\ status' = [status EXCEPT ![m] = state]
  /\ attempts' = [attempts EXCEPT ![m] = count]
  /\ due' = [due EXCEPT ![m] = @ /\ state # "QUEUED"]
  /\ work' = [work EXCEPT ![d] = None]
  /\ UNCHANGED <<redacted, suppressed, batch>>

(* _set writes by id alone, whatever became of the row since it was read.  *)
Set(d, state, count) ==
  LET m == work[d].msg IN
  /\ status' = [status EXCEPT ![m] = state]
  /\ attempts' = [attempts EXCEPT ![m] = count]
  /\ due' = [due EXCEPT ![m] = @ /\ state # "QUEUED"]
  /\ redacted' = [redacted EXCEPT ![m] = @ \/ state \in Terminal \ {"FAILED"}]
  /\ work' = [work EXCEPT ![d] = None]
  /\ UNCHANGED <<suppressed, batch>>

Doing(d, step) == work[d] # None /\ work[d].step = step

Refuse(d) ==
  \E state \in {"SUPPRESSED", "CANCELED", "FAILED"} :
    /\ Doing(d, state)
    /\ Set(d, state, attempts[work[d].msg])
    /\ UNCHANGED <<mails, blank, faults>>

Deliver(d) ==
  /\ mails' = [mails EXCEPT ![work[d].msg] = @ + 1]
  /\ blank' = IF work[d].blank THEN blank \cup {work[d].msg} ELSE blank

SendSucceeds(d) ==
  /\ Doing(d, "SEND")
  /\ Deliver(d)
  /\ Set(d, "SENT", work[d].attempts + 1)
  /\ UNCHANGED faults

SendRefused(d) ==
  /\ Doing(d, "SEND")
  /\ Set(d, "FAILED", work[d].attempts + 1)
  /\ UNCHANGED <<mails, blank, faults>>

AfterTransient(count) == IF count >= MaxAttempts THEN "FAILED" ELSE "QUEUED"

(* A transient failure; the provider may have taken the email nonetheless. *)
SendFails(d) ==
  /\ Doing(d, "SEND")
  /\ \/ UNCHANGED <<mails, blank, faults>>
     \/ Deliver(d) /\ Fault
  /\ LET count == work[d].attempts + 1 IN Set(d, AfterTransient(count), count)

(* An unexpected exception rolls back and leaves the message to its lease; *)
(* a crash leaves the whole batch.                                         *)
DispatchErrs(d) ==
  /\ work[d] # None
  /\ Fault
  /\ \/ Doing(d, "SEND") /\ Deliver(d)
     \/ UNCHANGED <<mails, blank>>
  /\ work' = [work EXCEPT ![d] = None]
  /\ \/ UNCHANGED batch
     \/ batch' = [batch EXCEPT ![d] = {}]
  /\ UNCHANGED <<rows, suppressed>>

-----------------------------------------------------------------------------

Dispatching(d) ==
  \/ ClaimDue(d)
  \/ \E m \in batch[d] : Read(d, m)
  \/ Refuse(d)
  \/ SendSucceeds(d)
  \/ SendRefused(d)
  \/ SendFails(d)
  \/ DispatchErrs(d)

Next ==
  \/ \E m \in Message : Enqueue(m) \/ Suppress(m) \/ ComesDue(m)
  \/ \E d \in Dispatcher : Dispatching(d)

Progress(d) ==
  \/ \E m \in batch[d] : Read(d, m)
  \/ Refuse(d) \/ SendSucceeds(d) \/ SendRefused(d) \/ SendFails(d)

(* Time passes, dispatch jobs are scheduled every minute, and a running    *)
(* one gets an answer or a timeout from the provider.                      *)
Fairness ==
  /\ \A m \in Message : WF_vars(ComesDue(m))
  /\ \A d \in Dispatcher : WF_vars(ClaimDue(d)) /\ WF_vars(Progress(d))

Spec == Init /\ [][Next]_vars /\ Fairness

-----------------------------------------------------------------------------
(* Properties.                                                             *)

(* No message that was sent, suppressed or canceled keeps a credential,    *)
(* whichever dispatcher wrote last.                                        *)
DoneIsRedacted ==
  \A m \in Message : status[m] \in {"SENT", "SUPPRESSED", "CANCELED"} => redacted[m]

(* A person gets a message twice only because something went wrong: every  *)
(* email beyond the first is owed to an overrun lease, a crash or an       *)
(* answer that was lost, and one without its links follows a real one.     *)
EveryDuplicateHasACause ==
  \A m \in Message : mails[m] <= 1 + faults /\ (m \in blank => mails[m] > 1)

(* Without an overrun lease, two dispatchers never hold one message.       *)
OneDispatcherPerMessage ==
  faults = 0 => \A m \in Message : \A d, e \in Dispatcher : Working(d, m) /\ Working(e, m) => d = e

(* Every message reaches a final status: batches that crashed, failed      *)
(* sends and lapsed leases are all taken up again.                         *)
MessagesEnd == \A m \in Message : status[m] \in {"QUEUED", "SENDING"} ~> status[m] \in Terminal
=============================================================================

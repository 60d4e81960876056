----------------------------- MODULE BillingSync -----------------------------
(* The subscriptions of one account, at the payment provider and in the      *)
(* tables derived from it.  Checkouts open sessions at the provider; what    *)
(* then happens there is announced by webhooks, stored once each and applied *)
(* by whoever comes first, the webhook route or a background job.  An event  *)
(* carries no state: applying it fetches the provider's current snapshot.    *)
EXTENDS Integers, FiniteSets

CONSTANTS
  Sub,          \* checkout sessions, each leading to one subscription at most
  Plan,
  Processor,    \* requests and jobs that process webhooks
  MaxVersion,   \* changes of one subscription at the provider
  MaxChanges    \* and of all of them

ASSUME BillingAssumption == MaxVersion \in Nat /\ MaxChanges \in Nat

VARIABLES
  customer,     \* the row of billing_customers is committed
  plan,         \* the plan of each session, fixed
  checkout,     \* "none", "asked" (at the provider only), then the row's status, or "unused"
  real,         \* the provider's subscription: its status and how often it changed
  event,        \* the webhook of each change
  row,          \* the row of subscriptions: its state, the snapshot it shows, past_due_since
  work,         \* what each processor is doing
  overlapped    \* history: subscriptions two processors worked on at once

provider == <<real, plan>>
vars == <<customer, plan, checkout, real, event, row, work, overlapped>>

TERMINAL == {"ENDED", "INCOMPLETE_EXPIRED"}
LIVE == {"INCOMPLETE", "ACTIVE", "PAST_DUE", "CANCEL_SCHEDULED"}
Version == 1 .. MaxVersion
Idle == [at |-> "idle"]
Snapshot == [status : LIVE \cup TERMINAL, version : Version]
Unborn == [status |-> "none", version |-> 0]
NoRow == [state |-> "none", version |-> 0, since |-> 0]

Live(s) == row[s].state \in LIVE

(* Types, and that a row is past due since some change exactly while it is  *)
(* PAST_DUE: what the payment grace is counted from.                        *)
BillingTypeOK ==
  /\ customer \in BOOLEAN
  /\ plan \in [Sub -> Plan]
  /\ checkout \in [Sub -> {"none", "asked", "unused", "OPEN", "COMPLETED", "EXPIRED"}]
  /\ real \in [Sub -> Snapshot \cup {Unborn}]
  /\ event \in [Sub \X Version -> {"none", "sent", "pending", "processed"}]
  /\ row \in [Sub -> [state : LIVE \cup TERMINAL, version : Version, since : 0 .. MaxVersion] \cup {NoRow}]
  /\ work \in [Processor -> [at : {"fetched", "applied"}, event : Sub \X Version, snapshot : Snapshot] \cup {Idle}]
  /\ overlapped \in SUBSET Sub
  /\ \A s \in Sub : row[s].since > 0 <=> row[s].state = "PAST_DUE"

Init ==
  /\ customer = FALSE
  /\ plan \in [Sub -> Plan]
  /\ checkout = [s \in Sub |-> "none"]
  /\ real = [s \in Sub |-> Unborn]
  /\ event = [e \in Sub \X Version |-> "none"]
  /\ row = [s \in Sub |-> NoRow]
  /\ work = [p \in Processor |-> Idle]
  /\ overlapped = {}

-----------------------------------------------------------------------------
(* Checkout.  The session exists at the provider before the customer and    *)
(* the checkout row are committed.                                          *)

StartCheckout(s) ==
  /\ checkout[s] = "none"
  /\ \A t \in Sub : Live(t) => row[t].state = "INCOMPLETE"
  /\ checkout' = [checkout EXCEPT ![s] = "asked"]
  /\ UNCHANGED <<customer, provider, event, row, work, overlapped>>

OpenOf(s) == {t \in Sub : checkout[t] = "OPEN" /\ plan[t] = plan[s]}

(* The commit: an OPEN checkout of the plan that is too old is expired, a   *)
(* younger one was opened by a concurrent click and is used instead.        *)
RecordCheckout(s) ==
  /\ checkout[s] = "asked"
  /\ customer' = TRUE
  /\ \/ checkout' = [t \in Sub |-> IF t = s THEN "OPEN" ELSE IF t \in OpenOf(s) THEN "EXPIRED" ELSE checkout[t]]
     \/ OpenOf(s) # {} /\ checkout' = [checkout EXCEPT ![s] = "unused"]
  /\ UNCHANGED <<provider, event, row, work, overlapped>>

-----------------------------------------------------------------------------
(* The provider.                                                            *)

Follows(status) ==
  CASE status = "none" -> {"ACTIVE", "INCOMPLETE"}
    [] status = "INCOMPLETE" -> LIVE \cup TERMINAL
    [] status \in LIVE \ {"INCOMPLETE"} -> (LIVE \ {"INCOMPLETE"}) \cup {"ENDED"}
    [] OTHER -> {}

(* A payment, a failed one, a renewal, a change of plan, a cancellation or  *)
(* its end; each is announced.                                              *)
Changes(s) ==
  /\ checkout[s] \notin {"none", "unused"}
  /\ real[s].version < MaxVersion
  /\ Cardinality({e \in Sub \X Version : event[e] # "none"}) < MaxChanges
  /\ \E status \in Follows(real[s].status) :
       real' = [real EXCEPT ![s] = [status |-> status, version |-> @.version + 1]]
  /\ event' = [event EXCEPT ![<<s, real[s].version + 1>>] = "sent"]
  /\ UNCHANGED <<customer, plan, checkout, row, work, overlapped>>

-----------------------------------------------------------------------------
(* Webhooks.                                                                *)

(* Stored once with its job, in any order; the provider repeats what was    *)
(* not acknowledged, and a repetition changes nothing.                      *)
Ingest(e) ==
  /\ event[e] = "sent"
  /\ event' = [event EXCEPT ![e] = "pending"]
  /\ UNCHANGED <<customer, provider, checkout, row, work, overlapped>>

(* The snapshot is fetched before the transaction reads anything.           *)
Fetch(p, e) ==
  /\ work[p] = Idle
  /\ event[e] = "pending"
  /\ work' = [work EXCEPT ![p] = [at |-> "fetched", event |-> e, snapshot |-> real[e[1]]]]
  /\ overlapped' = IF \E q \in Processor : work[q].at = "fetched" /\ work[q].event[1] = e[1]
                   THEN overlapped \cup {e[1]} ELSE overlapped
  /\ UNCHANGED <<customer, provider, checkout, event, row>>

(* Seeded fault: a terminal state is left again.                            *)
RevivingTransition(current, snapshot) == snapshot.status

(* The state machine: the provider's status, but a terminal state is final. *)
transition(current, snapshot) == IF current \in TERMINAL THEN current ELSE snapshot.status

(* Seeded fault: it is set once and never cleared.                          *)
PastDueForGood(s, state, version) ==
  IF state = "PAST_DUE" /\ row[s].since = 0 THEN version ELSE row[s].since

(* Set when a row becomes PAST_DUE, kept while it is, cleared when it is    *)
(* not.  The moment is told by the change that was seen first.              *)
PastDueSince(s, state, version) ==
  IF state # "PAST_DUE" THEN 0 ELSE IF row[s].state = "PAST_DUE" THEN row[s].since ELSE version

Applied(s, snapshot) ==
  LET state == transition(row[s].state, snapshot) IN
  [state |-> state, version |-> snapshot.version, since |-> PastDueSince(s, state, snapshot.version)]

New(s) == row[s] = NoRow

(* A new live subscription replaces the account's abandoned one.            *)
Replaces(s, snapshot) == New(s) /\ snapshot.status \notin TERMINAL

(* Any other live subscription is a conflict, left to operations.           *)
Conflicts(t) == row[t].state # "INCOMPLETE"

(* RetryLater: nobody is known to own the subscription, or it conflicts.    *)
MustWait(s, snapshot) ==
  \/ New(s) /\ ~customer
  \/ Replaces(s, snapshot) /\ \E t \in Sub : Live(t) /\ Conflicts(t)

(* Seeded fault: an abandoned attempt is left as it is.                     *)
SupersedesNone(s, snapshot, t) == FALSE

Supersedes(s, snapshot, t) == Replaces(s, snapshot) /\ Live(t)

RowAfter(s, snapshot, t) ==
  IF t = s THEN Applied(s, snapshot)
  ELSE IF Supersedes(s, snapshot, t) THEN [row[t] EXCEPT !.state = "INCOMPLETE_EXPIRED"] ELSE row[t]

(* The first subscription of a checkout closes what is open for its plan.   *)
CheckoutAfter(s, snapshot, t) ==
  IF ~New(s) \/ t \notin OpenOf(s) THEN checkout[t]
  ELSE IF snapshot.status \in {"INCOMPLETE", "INCOMPLETE_EXPIRED"} THEN "EXPIRED" ELSE "COMPLETED"

(* The transaction that ends with the release of the savepoint: what it     *)
(* reads and what it writes is one step, as of two that read the same the   *)
(* later to write fails and is retried.                                     *)
Apply(p) ==
  LET s == work[p].event[1]
      snapshot == work[p].snapshot IN
  /\ work[p].at = "fetched"
  /\ ~MustWait(s, snapshot)
  /\ row' = [t \in Sub |-> RowAfter(s, snapshot, t)]
  /\ checkout' = [t \in Sub |-> CheckoutAfter(s, snapshot, t)]
  /\ work' = [work EXCEPT ![p].at = "applied"]
  /\ UNCHANGED <<customer, provider, event, overlapped>>

(* The next transaction: processed_at.                                      *)
Mark(p) ==
  /\ work[p].at = "applied"
  /\ event' = [event EXCEPT ![work[p].event] = "processed"]
  /\ work' = [work EXCEPT ![p] = Idle]
  /\ UNCHANGED <<customer, provider, checkout, row, overlapped>>

(* Seeded fault: what could not be applied counts as processed.             *)
RetriedIsDone(e) == "processed"

(* What cannot be applied yet stays pending, its attempt counted.           *)
Retried(e) == event[e]

Wait(p) ==
  /\ work[p].at = "fetched"
  /\ MustWait(work[p].event[1], work[p].snapshot)
  /\ event' = [event EXCEPT ![work[p].event] = Retried(work[p].event)]
  /\ work' = [work EXCEPT ![p] = Idle]
  /\ UNCHANGED <<customer, provider, checkout, row, overlapped>>

(* A transaction fails or the process dies, before either commit.           *)
Fail(p) ==
  /\ work[p] # Idle
  /\ work' = [work EXCEPT ![p] = Idle]
  /\ UNCHANGED <<customer, provider, checkout, event, row, overlapped>>

-----------------------------------------------------------------------------
Next ==
  \/ \E s \in Sub : StartCheckout(s) \/ RecordCheckout(s) \/ Changes(s)
  \/ \E e \in Sub \X Version : Ingest(e)
  \/ \E p \in Processor : (\E e \in Sub \X Version : Fetch(p, e)) \/ Apply(p) \/ Mark(p) \/ Wait(p) \/ Fail(p)

Spec == Init /\ [][Next]_vars

-----------------------------------------------------------------------------
(* The account has one live subscription at most, although several may be   *)
(* bought: what it is entitled to and charged by is that of one row.        *)
OneLive == \A s, t \in Sub : Live(s) /\ Live(t) => s = t

(* What was processed shows: the row is at least as new as any event that   *)
(* counts as processed - unless two processors had fetched snapshots of the *)
(* subscription at once, when the older may be written last and stay.       *)
ProcessedIsApplied ==
  \A e \in Sub \X Version : event[e] = "processed" => row[e[1]].version >= e[2] \/ e[1] \in overlapped

(* "So duplicate and out-of-order events converge on the provider's state": *)
(* once every webhook of a subscription is processed its row is what the    *)
(* provider says now, or it was ended here as an abandoned attempt.         *)
ConvergesOnProvider ==
  \A s \in Sub \ overlapped :
    real[s] # Unborn /\ (\A n \in 1 .. real[s].version : event[<<s, n>>] = "processed") =>
      row[s].version = real[s].version /\ row[s].state \in {real[s].status, "INCOMPLETE_EXPIRED"}

(* What has ended stays so, whatever a snapshot fetched before the end, or  *)
(* a provider that still collects for an abandoned attempt, says later:     *)
(* the account may have a new live subscription by then.                    *)
TerminalStays == [][\A s \in Sub : row[s].state \in TERMINAL => row'[s].state = row[s].state]_vars

(* A subscription that was paid for is never ended here before it has ended *)
(* at the provider: neither by another one nor by an old event.             *)
PaidEndsWithProvider ==
  [][\A s \in Sub : Live(s) /\ row[s].state # "INCOMPLETE" /\ row'[s].state \in TERMINAL
       => real[s].status \in TERMINAL]_vars

(* How far a subscription has come, of its status here or there, and what   *)
(* the module Entitlement promises of it.                                   *)
Grade(status) ==
  CASE status = "none" -> 0
    [] status = "INCOMPLETE" -> 1
    [] status \in TERMINAL -> 3
    [] OTHER -> 2

Promise == INSTANCE Entitlement WITH
  provider <- [s \in Sub |-> Grade(real[s].status)],
  account <- [s \in Sub |-> Grade(row[s].state)]

(* Whatever order webhooks and processors come in, the account shows only   *)
(* what a subscription is or was, lets one in only when no other one runs,  *)
(* and never revives one that ended.                                        *)
KeepsEntitlement == Promise!Spec

=============================================================================

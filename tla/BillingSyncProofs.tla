-------------------------- MODULE BillingSyncProofs --------------------------
(***************************************************************************)
(* Proofs about BillingSync, for any set of sessions, plans and processors *)
(* and any number of changes.                                              *)
(***************************************************************************)
EXTENDS BillingSync, TLAPS

USE BillingAssumption DEF BillingAssumption

-----------------------------------------------------------------------------
(* Types.                                                                  *)

WorkType ==
  work \in [Processor -> [at : {"fetched", "applied"}, event : Sub \X Version, snapshot : Snapshot] \cup {Idle}]
RowType ==
  /\ row \in [Sub -> [state : LIVE \cup TERMINAL, version : Version, since : 0 .. MaxVersion] \cup {NoRow}]
  /\ \A s \in Sub : row[s].since > 0 <=> row[s].state = "PAST_DUE"

(* What a processor at work has in hand.                                   *)
LEMMA WorkInHand ==
  ASSUME WorkType, NEW p \in Processor, work[p] # Idle
  PROVE  /\ work[p].at \in {"fetched", "applied"}
         /\ work[p].event \in Sub \X Version
         /\ work[p].event[1] \in Sub
         /\ work[p].event[2] \in Version
         /\ work[p].snapshot \in Snapshot
         /\ work[p].snapshot.version \in Version
         /\ work[p].snapshot.status \in LIVE \cup TERMINAL
         /\ work[p] \in [at : {"fetched", "applied"}, event : Sub \X Version, snapshot : Snapshot]
<1>1. work[p] \in [at : {"fetched", "applied"}, event : Sub \X Version, snapshot : Snapshot]
  BY DEF WorkType
<1>2. QED BY <1>1 DEF Snapshot

(* A processor that is not idle is one that has fetched or applied.        *)
LEMMA NotIdle ==
  ASSUME WorkType, NEW p \in Processor, work[p].at \in {"fetched", "applied"}
  PROVE  work[p] # Idle
BY DEF Idle

(* A row after a snapshot was applied has its type.                        *)
LEMMA AppliedType ==
  ASSUME RowType, NEW s \in Sub, NEW snapshot \in Snapshot
  PROVE  /\ Applied(s, snapshot) \in [state : LIVE \cup TERMINAL, version : Version, since : 0 .. MaxVersion]
         /\ Applied(s, snapshot).since > 0 <=> Applied(s, snapshot).state = "PAST_DUE"
         /\ Applied(s, snapshot).version = snapshot.version
         /\ Applied(s, snapshot).state = transition(row[s].state, snapshot)
<1> DEFINE state == transition(row[s].state, snapshot)
           since == PastDueSince(s, state, snapshot.version)
<1>1. snapshot.status \in LIVE \cup TERMINAL /\ snapshot.version \in Version
  BY DEF Snapshot
<1>2. state \in LIVE \cup TERMINAL
  BY <1>1 DEF transition
<1>3. row[s].since \in 0 .. MaxVersion /\ (row[s].since > 0 <=> row[s].state = "PAST_DUE")
  BY DEF RowType, NoRow
<1>4. since \in 0 .. MaxVersion /\ (since > 0 <=> state = "PAST_DUE")
  <2> HIDE DEF state
  <2>1. CASE state # "PAST_DUE"
    <3>1. since = 0
      BY <2>1 DEF PastDueSince
    <3>2. QED BY <2>1, <3>1
  <2>2. CASE state = "PAST_DUE" /\ row[s].state = "PAST_DUE"
    <3>1. since = row[s].since
      BY <2>2 DEF PastDueSince
    <3>2. QED BY <1>3, <2>2, <3>1
  <2>3. CASE state = "PAST_DUE" /\ row[s].state # "PAST_DUE"
    <3>1. since = snapshot.version
      BY <2>3 DEF PastDueSince
    <3>2. QED BY <1>1, <2>3, <3>1 DEF Version
  <2>4. QED BY <2>1, <2>2, <2>3
<1>5. Applied(s, snapshot) = [state |-> state, version |-> snapshot.version, since |-> since]
  BY DEF Applied
<1> HIDE DEF state, since
<1>6. /\ Applied(s, snapshot) \in [state : LIVE \cup TERMINAL, version : Version, since : 0 .. MaxVersion]
      /\ Applied(s, snapshot).since > 0 <=> Applied(s, snapshot).state = "PAST_DUE"
      /\ Applied(s, snapshot).version = snapshot.version
      /\ Applied(s, snapshot).state = state
  BY <1>1, <1>2, <1>4, <1>5
<1>7. QED BY <1>6 DEF state

(* A superseded row was INCOMPLETE, as nothing else is when it need not    *)
(* wait, and loses its state only.                                         *)
LEMMA SupersededRow ==
  ASSUME RowType, NEW s \in Sub, NEW t \in Sub, NEW snapshot \in Snapshot,
         ~MustWait(s, snapshot), t # s, Supersedes(s, snapshot, t)
  PROVE  /\ row[t].state = "INCOMPLETE"
         /\ RowAfter(s, snapshot, t) = [state |-> "INCOMPLETE_EXPIRED", version |-> row[t].version, since |-> row[t].since]
         /\ row[t].version \in Version
         /\ row[t].since = 0
<1>1. row[t].state = "INCOMPLETE"
  BY DEF MustWait, Supersedes, Conflicts, Live
<1>2. row[t] # NoRow
  BY <1>1 DEF NoRow
<1>3. row[t] \in [state : LIVE \cup TERMINAL, version : Version, since : 0 .. MaxVersion]
  BY <1>2 DEF RowType
<1>4. row[t].since = 0
  BY <1>1, <1>3 DEF RowType
<1>5. RowAfter(s, snapshot, t) = [row[t] EXCEPT !.state = "INCOMPLETE_EXPIRED"]
  BY DEF RowAfter
<1>6. QED BY <1>1, <1>3, <1>4, <1>5

(* Each row after a snapshot was applied to one of them.                   *)
LEMMA RowAfterType ==
  ASSUME RowType, NEW s \in Sub, NEW t \in Sub, NEW snapshot \in Snapshot, ~MustWait(s, snapshot)
  PROVE  /\ RowAfter(s, snapshot, t) \in
              [state : LIVE \cup TERMINAL, version : Version, since : 0 .. MaxVersion] \cup {NoRow}
         /\ RowAfter(s, snapshot, t).since > 0 <=> RowAfter(s, snapshot, t).state = "PAST_DUE"
         /\ t # s => RowAfter(s, snapshot, t).version = row[t].version
<1>1. CASE t = s
  BY <1>1, AppliedType DEF RowAfter
<1>2. CASE t # s /\ Supersedes(s, snapshot, t)
  BY <1>2, SupersededRow DEF TERMINAL
<1>3. CASE t # s /\ ~Supersedes(s, snapshot, t)
  BY <1>3 DEF RowAfter, RowType
<1>4. QED BY <1>1, <1>2, <1>3

(* What is announced has happened, and what is worked on was announced.    *)
EventsAreReal == \A e \in Sub \X Version : event[e] # "none" => e[2] =< real[e[1]].version
WorkIsAnnounced == \A p \in Processor : work[p] # Idle => event[work[p].event] # "none"

TypeInv == BillingTypeOK /\ EventsAreReal /\ WorkIsAnnounced

LEMMA RealType ==
  ASSUME BillingTypeOK, NEW s \in Sub
  PROVE  /\ real[s].version \in 0 .. MaxVersion
         /\ real[s].version > 0 => real[s] \in Snapshot
BY DEF BillingTypeOK, Snapshot, Unborn, Version

(* Each step keeps the types.                                              *)
LEMMA TypeStep == TypeInv /\ [Next]_vars => BillingTypeOK'
<1> SUFFICES ASSUME TypeInv, [Next]_vars PROVE BillingTypeOK'
  OBVIOUS
<1>t. BillingTypeOK /\ WorkType /\ RowType
  BY DEF TypeInv, BillingTypeOK, WorkType, RowType
<1>1. ASSUME NEW s \in Sub, StartCheckout(s) PROVE BillingTypeOK'
  BY <1>t, <1>1 DEF StartCheckout, BillingTypeOK, provider
<1>2. ASSUME NEW s \in Sub, RecordCheckout(s) PROVE BillingTypeOK'
  BY <1>t, <1>2 DEF RecordCheckout, BillingTypeOK, provider
<1>3. ASSUME NEW s \in Sub, Changes(s) PROVE BillingTypeOK'
  <2>1. PICK status \in Follows(real[s].status) :
          real' = [real EXCEPT ![s] = [status |-> status, version |-> real[s].version + 1]]
    BY <1>t, <1>3 DEF Changes
  <2>2. real[s].version \in 0 .. MaxVersion /\ real[s].version < MaxVersion
    BY <1>t, <1>3 DEF Changes, BillingTypeOK, Snapshot, Unborn, Version
  <2>3. real[s].version + 1 \in Version
    BY <2>2 DEF Version
  <2>4. status \in LIVE \cup TERMINAL
    BY <2>1 DEF Follows, LIVE, TERMINAL
  <2>5. [status |-> status, version |-> real[s].version + 1] \in Snapshot
    BY <2>3, <2>4 DEF Snapshot
  <2>6. real' \in [Sub -> Snapshot \cup {Unborn}]
    BY <1>t, <2>1, <2>5 DEF BillingTypeOK
  <2>7. event' \in [Sub \X Version -> {"none", "sent", "pending", "processed"}]
    BY <1>t, <1>3, <2>3 DEF Changes, BillingTypeOK
  <2>8. QED BY <1>t, <1>3, <2>6, <2>7 DEF Changes, BillingTypeOK
<1>4. ASSUME NEW e \in Sub \X Version, Ingest(e) PROVE BillingTypeOK'
  BY <1>t, <1>4 DEF Ingest, BillingTypeOK, provider
<1>5. ASSUME NEW p \in Processor, NEW e \in Sub \X Version, Fetch(p, e) PROVE BillingTypeOK'
  <2>1. e[1] \in Sub /\ e[2] \in Version
    OBVIOUS
  <2>2. event[e] # "none"
    BY <1>5 DEF Fetch
  <2>3. real[e[1]].version > 0
    BY <1>t, <2>1, <2>2, RealType DEF TypeInv, EventsAreReal, Version
  <2>4. real[e[1]] \in Snapshot
    BY <1>t, <2>1, <2>3, RealType
  <2>5. work' \in [Processor -> [at : {"fetched", "applied"}, event : Sub \X Version, snapshot : Snapshot] \cup {Idle}]
    BY <1>t, <1>5, <2>4 DEF Fetch, WorkType
  <2>6. overlapped' \in SUBSET Sub
    BY <1>t, <1>5, <2>1 DEF Fetch, BillingTypeOK
  <2>7. QED BY <1>t, <1>5, <2>5, <2>6 DEF Fetch, BillingTypeOK, provider
<1>6. ASSUME NEW p \in Processor, Apply(p) PROVE BillingTypeOK'
  <2> DEFINE s == work[p].event[1]
             snapshot == work[p].snapshot
  <2>1. work[p] # Idle /\ s \in Sub /\ snapshot \in Snapshot
    BY <1>6, <1>t, WorkInHand, NotIdle DEF Apply
  <2>2. ~MustWait(s, snapshot) /\ row' = [t \in Sub |-> RowAfter(s, snapshot, t)]
    BY <1>6 DEF Apply
  <2>3. checkout' = [t \in Sub |-> CheckoutAfter(s, snapshot, t)] /\ work' = [work EXCEPT ![p].at = "applied"]
    BY <1>6 DEF Apply
  <2>4. checkout' \in [Sub -> {"none", "asked", "unused", "OPEN", "COMPLETED", "EXPIRED"}]
    BY <1>t, <2>3 DEF CheckoutAfter, BillingTypeOK
  <2>5. work' = [work EXCEPT ![p] = [at |-> "applied", event |-> work[p].event, snapshot |-> work[p].snapshot]]
    <3>1. [work[p] EXCEPT !.at = "applied"] = [at |-> "applied", event |-> work[p].event, snapshot |-> work[p].snapshot]
      BY <2>1, <1>t, WorkInHand
    <3>2. work' = [work EXCEPT ![p] = [work[p] EXCEPT !.at = "applied"]]
      BY <2>3
    <3>3. QED BY <3>1, <3>2
  <2>6. work' \in [Processor -> [at : {"fetched", "applied"}, event : Sub \X Version, snapshot : Snapshot] \cup {Idle}]
    BY <2>1, <2>5, <1>t, WorkInHand DEF WorkType
  <2>7. /\ row' \in [Sub -> [state : LIVE \cup TERMINAL, version : Version, since : 0 .. MaxVersion] \cup {NoRow}]
        /\ \A t \in Sub : row'[t].since > 0 <=> row'[t].state = "PAST_DUE"
    <3> HIDE DEF s, snapshot
    <3>1. QED BY <1>t, <2>1, <2>2, RowAfterType
  <2>8. QED BY <1>t, <1>6, <2>4, <2>6, <2>7 DEF Apply, BillingTypeOK, provider
<1>7. ASSUME NEW p \in Processor, Mark(p) PROVE BillingTypeOK'
  BY <1>7, <1>t, WorkInHand, NotIdle DEF Mark, BillingTypeOK, provider
<1>8. ASSUME NEW p \in Processor, Wait(p) PROVE BillingTypeOK'
  BY <1>8, <1>t, WorkInHand, NotIdle DEF Wait, Retried, BillingTypeOK, provider
<1>9. ASSUME NEW p \in Processor, Fail(p) PROVE BillingTypeOK'
  BY <1>t, <1>9 DEF Fail, BillingTypeOK, provider
<1>10. CASE UNCHANGED vars
  BY <1>t, <1>10 DEF vars, BillingTypeOK
<1>11. QED BY <1>1, <1>2, <1>3, <1>4, <1>5, <1>6, <1>7, <1>8, <1>9, <1>10 DEF Next

LEMMA TypeInitially == Init => TypeInv
<1> SUFFICES ASSUME Init PROVE TypeInv
  OBVIOUS
<1>1. \A s \in Sub : row[s].since = 0 /\ row[s].state = "none"
  BY DEF Init, NoRow
<1>2. BillingTypeOK
  <2>1. row \in [Sub -> [state : LIVE \cup TERMINAL, version : Version, since : 0 .. MaxVersion] \cup {NoRow}]
    BY DEF Init
  <2>2. work \in [Processor -> [at : {"fetched", "applied"}, event : Sub \X Version, snapshot : Snapshot] \cup {Idle}]
    BY DEF Init
  <2>3. real \in [Sub -> Snapshot \cup {Unborn}] /\ event \in [Sub \X Version -> {"none", "sent", "pending", "processed"}]
    BY DEF Init
  <2>4. \A s \in Sub : row[s].since > 0 <=> row[s].state = "PAST_DUE"
    BY <1>1
  <2>5. QED BY <2>1, <2>2, <2>3, <2>4 DEF Init, BillingTypeOK
<1>3. EventsAreReal /\ WorkIsAnnounced
  BY DEF Init, EventsAreReal, WorkIsAnnounced
<1>4. QED BY <1>2, <1>3 DEF TypeInv

(* Each step announces only what it does.                                  *)
LEMMA AnnouncedStep == TypeInv /\ [Next]_vars => (EventsAreReal /\ WorkIsAnnounced)'
<1> SUFFICES ASSUME TypeInv, [Next]_vars PROVE EventsAreReal' /\ WorkIsAnnounced'
  OBVIOUS
<1>t. BillingTypeOK /\ WorkType /\ EventsAreReal /\ WorkIsAnnounced
  BY DEF TypeInv, BillingTypeOK, WorkType
<1>1. ASSUME NEW s \in Sub, StartCheckout(s) \/ RecordCheckout(s) PROVE EventsAreReal' /\ WorkIsAnnounced'
  BY <1>t, <1>1 DEF StartCheckout, RecordCheckout, EventsAreReal, WorkIsAnnounced, provider
<1>2. ASSUME NEW s \in Sub, Changes(s) PROVE EventsAreReal' /\ WorkIsAnnounced'
  <2>1. \A t \in Sub : real[t].version \in 0 .. MaxVersion
    BY <1>t, RealType
  <2>2. /\ real'[s].version = real[s].version + 1
        /\ \A t \in Sub : t # s => real'[t] = real[t]
    BY <1>t, <1>2 DEF Changes, BillingTypeOK
  <2>3. event' = [event EXCEPT ![<<s, real[s].version + 1>>] = "sent"] /\ work' = work
    BY <1>2 DEF Changes
  <2>4. \A e \in Sub \X Version : event'[e] # "none" => event[e] # "none" \/ e = <<s, real[s].version + 1>>
    BY <1>t, <2>3 DEF BillingTypeOK
  <2>5. EventsAreReal'
    <3> SUFFICES ASSUME NEW e \in Sub \X Version, event'[e] # "none" PROVE e[2] =< real'[e[1]].version
      BY DEF EventsAreReal
    <3>1. CASE e = <<s, real[s].version + 1>>
      BY <2>1, <2>2, <3>1
    <3>2. CASE event[e] # "none"
      <4>1. e[1] \in Sub /\ e[2] \in Int /\ e[2] =< real[e[1]].version
        BY <1>t, <3>2 DEF EventsAreReal, Version
      <4>2. QED BY <4>1, <2>1, <2>2
    <3>3. QED BY <2>4, <3>1, <3>2
  <2>6. \A e \in Sub \X Version : event[e] # "none" => event'[e] # "none"
    BY <1>t, <2>3 DEF BillingTypeOK
  <2>7. WorkIsAnnounced'
    BY <1>t, <2>3, <2>6, WorkInHand DEF WorkIsAnnounced
  <2>8. QED BY <2>5, <2>7
<1>3. ASSUME NEW e \in Sub \X Version, Ingest(e) PROVE EventsAreReal' /\ WorkIsAnnounced'
  BY <1>t, <1>3 DEF Ingest, EventsAreReal, WorkIsAnnounced, provider, BillingTypeOK
<1>4. ASSUME NEW p \in Processor, NEW e \in Sub \X Version, Fetch(p, e) PROVE EventsAreReal' /\ WorkIsAnnounced'
  BY <1>t, <1>4 DEF Fetch, EventsAreReal, WorkIsAnnounced, provider, BillingTypeOK
<1>5. ASSUME NEW p \in Processor, Apply(p) PROVE EventsAreReal' /\ WorkIsAnnounced'
  <2>1. work[p] # Idle
    BY <1>5, <1>t, NotIdle DEF Apply
  <2>2. \A q \in Processor : work'[q] # Idle => work[q] # Idle /\ work'[q].event = work[q].event
    BY <1>5, <2>1, <1>t, WorkInHand DEF Apply, WorkType
  <2>3. event' = event /\ real' = real
    BY <1>5 DEF Apply, provider
  <2>4. QED BY <1>t, <2>2, <2>3 DEF EventsAreReal, WorkIsAnnounced
<1>6. ASSUME NEW p \in Processor, Mark(p) \/ Wait(p) \/ Fail(p) PROVE EventsAreReal' /\ WorkIsAnnounced'
  <2>1. work[p] # Idle
    BY <1>6, <1>t, NotIdle DEF Mark, Wait, Fail
  <2>2. work[p].event \in Sub \X Version /\ event[work[p].event] # "none"
    BY <2>1, <1>t, WorkInHand DEF WorkIsAnnounced
  <2>3. \A e \in Sub \X Version : event'[e] # "none" <=> event[e] # "none"
    BY <1>6, <2>2, <1>t DEF Mark, Wait, Fail, Retried, BillingTypeOK
  <2>4. real' = real /\ work' = [work EXCEPT ![p] = Idle]
    BY <1>6 DEF Mark, Wait, Fail, provider
  <2>5. \A q \in Processor : work'[q] # Idle => work[q] # Idle /\ work'[q] = work[q]
    BY <2>4, <1>t DEF WorkType
  <2>6. WorkIsAnnounced'
    BY <1>t, <2>3, <2>5, WorkInHand DEF WorkIsAnnounced
  <2>7. QED BY <1>t, <2>3, <2>4, <2>6 DEF EventsAreReal
<1>7. CASE UNCHANGED vars
  BY <1>t, <1>7 DEF vars, EventsAreReal, WorkIsAnnounced
<1>8. QED BY <1>1, <1>2, <1>3, <1>4, <1>5, <1>6, <1>7 DEF Next

LEMMA TypeInvStep == TypeInv /\ [Next]_vars => TypeInv'
BY TypeStep, AnnouncedStep DEF TypeInv

(* The tables and the provider have the types that the rest relies on, and *)
(* a row knows since when it is past due exactly while it is.              *)
THEOREM BillingTypeCorrect == Spec => []BillingTypeOK
<1>1. TypeInv => BillingTypeOK
  BY DEF TypeInv
<1>2. QED BY TypeInitially, TypeInvStep, <1>1, PTL DEF Spec

-----------------------------------------------------------------------------
(* Convergence.  What is in hand is no newer than the provider and no older*)
(* than the event; what is fetched by one processor only is no older than  *)
(* the row; what was applied shows in it.                                  *)

InHand(p, s) == work[p].at = "fetched" /\ work[p].event[1] = s
Shown(p, s) == work[p].at = "applied" /\ work[p].event[1] = s

SnapshotsAreReal ==
  \A p \in Processor : work[p] # Idle =>
    /\ work[p].event[2] =< work[p].snapshot.version
    /\ work[p].snapshot.version =< real[work[p].event[1]].version
    /\ work[p].snapshot.status \in TERMINAL => real[work[p].event[1]].status \in TERMINAL

RowsAreReal == \A s \in Sub : row[s].version =< real[s].version

RacesAreKnown ==
  \A s \in Sub, p, q \in Processor : InHand(p, s) /\ InHand(q, s) /\ p # q => s \in overlapped

FetchedIsNoOlder ==
  \A s \in Sub, p \in Processor : InHand(p, s) => row[s].version =< work[p].snapshot.version \/ s \in overlapped

AppliedIsShown ==
  \A s \in Sub, p \in Processor : Shown(p, s) => work[p].snapshot.version =< row[s].version \/ s \in overlapped

Real == SnapshotsAreReal /\ RowsAreReal
Fresh == RacesAreKnown /\ FetchedIsNoOlder /\ AppliedIsShown /\ ProcessedIsApplied

BillingInv == TypeInv /\ OneLive /\ Real /\ Fresh

LEMMA RowVersion ==
  ASSUME BillingTypeOK, NEW s \in Sub PROVE row[s].version \in 0 .. MaxVersion
BY DEF BillingTypeOK, NoRow, Version

(* What Apply does, told by sub and snapshot.                              *)
LEMMA ApplyStep ==
  ASSUME TypeInv, NEW p \in Processor, Apply(p)
  PROVE  LET s == work[p].event[1]
             snapshot == work[p].snapshot IN
         /\ work[p] # Idle /\ s \in Sub /\ snapshot \in Snapshot
         /\ snapshot.version \in Version /\ snapshot.status \in LIVE \cup TERMINAL
         /\ work[p].at = "fetched" /\ ~MustWait(s, snapshot)
         /\ row'[s] = Applied(s, snapshot)
         /\ row'[s].version = snapshot.version
         /\ row'[s].state = transition(row[s].state, snapshot)
         /\ \A t \in Sub : t # s => row'[t] = RowAfter(s, snapshot, t) /\ row'[t].version = row[t].version
         /\ work'[p].at = "applied" /\ work'[p].event = work[p].event /\ work'[p].snapshot = work[p].snapshot
         /\ \A q \in Processor : q # p => work'[q] = work[q]
         /\ event' = event /\ real' = real /\ overlapped' = overlapped
<1> DEFINE s == work[p].event[1]
           snapshot == work[p].snapshot
<1>t. BillingTypeOK /\ WorkType /\ RowType
  BY DEF TypeInv, BillingTypeOK, WorkType, RowType
<1>1. work[p] # Idle
  BY <1>t, NotIdle DEF Apply
<1>2. s \in Sub /\ snapshot \in Snapshot /\ snapshot.version \in Version /\ snapshot.status \in LIVE \cup TERMINAL
  BY <1>1, <1>t, WorkInHand
<1>3. work[p].at = "fetched" /\ ~MustWait(s, snapshot) /\ row' = [t \in Sub |-> RowAfter(s, snapshot, t)]
  BY DEF Apply
<1>4. work'[p].at = "applied" /\ work'[p].event = work[p].event /\ work'[p].snapshot = work[p].snapshot
  BY <1>1, <1>t, WorkInHand DEF Apply, WorkType
<1>5. \A q \in Processor : q # p => work'[q] = work[q]
  BY <1>t DEF Apply, WorkType
<1>6. event' = event /\ real' = real /\ overlapped' = overlapped
  BY DEF Apply, provider
<1> HIDE DEF s, snapshot
<1>7. row'[s] = Applied(s, snapshot)
  BY <1>2, <1>3 DEF RowAfter
<1>8. row'[s].version = snapshot.version /\ row'[s].state = transition(row[s].state, snapshot)
  BY <1>2, <1>7, <1>t, AppliedType
<1>9. \A t \in Sub : t # s => row'[t] = RowAfter(s, snapshot, t) /\ row'[t].version = row[t].version
  BY <1>2, <1>3, <1>t, RowAfterType
<1>10. QED BY <1>1, <1>2, <1>3, <1>4, <1>5, <1>6, <1>7, <1>8, <1>9 DEF s, snapshot

(* A row that is not replaced keeps its state.                             *)
LEMMA OthersAfter ==
  ASSUME NEW s \in Sub, NEW t \in Sub, NEW snapshot, RowType, snapshot \in Snapshot, t # s, ~MustWait(s, snapshot)
  PROVE  /\ Supersedes(s, snapshot, t) => RowAfter(s, snapshot, t).state = "INCOMPLETE_EXPIRED" /\ row[t].state = "INCOMPLETE"
         /\ ~Supersedes(s, snapshot, t) => RowAfter(s, snapshot, t).state = row[t].state
BY SupersededRow DEF RowAfter

(* A snapshot that is applied leaves one live row at most: a new live one  *)
(* supersedes the rest, and an ended one does not come back.               *)
LEMMA OneLiveStep == TypeInv /\ OneLive /\ [Next]_vars => OneLive'
<1> SUFFICES ASSUME TypeInv, OneLive, [Next]_vars PROVE OneLive'
  OBVIOUS
<1>t. RowType
  BY DEF TypeInv, BillingTypeOK, RowType
<1>1. ASSUME NEW p \in Processor, Apply(p) PROVE OneLive'
  <2>1. PICK s \in Sub, snapshot \in Snapshot :
          /\ ~MustWait(s, snapshot)
          /\ row'[s].state = transition(row[s].state, snapshot)
          /\ \A t \in Sub : t # s => row'[t] = RowAfter(s, snapshot, t)
    BY <1>1, ApplyStep
  <2>2. \A t \in Sub : t # s => /\ Supersedes(s, snapshot, t) => ~Live(t)'
                                /\ ~Supersedes(s, snapshot, t) => (Live(t)' <=> Live(t))
    BY <2>1, <1>t, OthersAfter DEF Live, LIVE
  <2>3. CASE Replaces(s, snapshot)
    <3>1. \A t \in Sub : t # s => ~Live(t)'
      BY <2>2, <2>3 DEF Supersedes
    <3>2. QED BY <3>1 DEF OneLive
  <2>4. CASE ~Replaces(s, snapshot)
    <3>1. \A t \in Sub : t # s => (Live(t)' <=> Live(t))
      BY <2>2, <2>4 DEF Supersedes
    <3>2. Live(s)' => Live(s)
      <4>1. CASE New(s)
        BY <2>1, <2>4, <4>1 DEF Replaces, New, NoRow, transition, Live, LIVE, TERMINAL
      <4>2. CASE ~New(s)
        <5>1. row[s].state \in LIVE \cup TERMINAL
          BY <2>1, <4>2, <1>t DEF New, RowType
        <5>2. QED BY <2>1, <5>1 DEF transition, Live, LIVE, TERMINAL
      <4>3. QED BY <4>1, <4>2
    <3>3. QED BY <3>1, <3>2, <2>1 DEF OneLive
  <2>5. QED BY <2>3, <2>4
<1>2. CASE row' = row
  BY <1>2 DEF OneLive, Live
<1>3. QED
  BY <1>1, <1>2 DEF Next, vars, StartCheckout, RecordCheckout, Changes, Ingest, Fetch, Mark, Wait, Fail

(* The provider only moves forward, and what has ended there stays so.     *)
LEMMA RealStep == TypeInv /\ Real /\ [Next]_vars => Real'
<1> SUFFICES ASSUME TypeInv, Real, [Next]_vars PROVE Real'
  OBVIOUS
<1>t. BillingTypeOK /\ WorkType /\ EventsAreReal
  BY DEF TypeInv, BillingTypeOK, WorkType
<1>v. \A s \in Sub : real[s].version \in 0 .. MaxVersion /\ row[s].version \in 0 .. MaxVersion
  BY <1>t, RealType, RowVersion
<1>r. SnapshotsAreReal /\ RowsAreReal
  BY DEF Real
<1>1. ASSUME NEW s \in Sub, Changes(s) PROVE Real'
  <2>1. /\ real'[s].version = real[s].version + 1
        /\ real'[s].status \in Follows(real[s].status)
        /\ \A t \in Sub : t # s => real'[t] = real[t]
    BY <1>t, <1>1 DEF Changes, BillingTypeOK
  <2>2. real[s].status \notin TERMINAL
    BY <2>1 DEF Follows, LIVE, TERMINAL
  <2>3. \A t \in Sub : real[t].version =< real'[t].version /\ real'[t].version \in Nat
    BY <1>v, <2>1
  <2>4. \A t \in Sub : real[t].status \in TERMINAL => real'[t].status \in TERMINAL
    BY <2>1, <2>2
  <2>5. work' = work /\ row' = row
    BY <1>1 DEF Changes
  <2>6. RowsAreReal'
    BY <1>r, <1>v, <2>3, <2>5 DEF RowsAreReal
  <2>7. SnapshotsAreReal'
    <3> SUFFICES ASSUME NEW p \in Processor, work[p] # Idle
                 PROVE  /\ work[p].event[2] =< work[p].snapshot.version
                        /\ work[p].snapshot.version =< real'[work[p].event[1]].version
                        /\ work[p].snapshot.status \in TERMINAL => real'[work[p].event[1]].status \in TERMINAL
      BY <2>5 DEF SnapshotsAreReal
    <3>1. work[p].event[1] \in Sub /\ work[p].snapshot.version \in Version
      BY <1>t, WorkInHand
    <3>2. QED BY <1>r, <1>v, <2>3, <2>4, <3>1 DEF SnapshotsAreReal, Version
  <2>8. QED BY <2>6, <2>7 DEF Real
<1>2. ASSUME NEW p \in Processor, NEW e \in Sub \X Version, Fetch(p, e) PROVE Real'
  <2>1. real' = real /\ row' = row
    BY <1>2 DEF Fetch, provider
  <2>2. work'[p] = [at |-> "fetched", event |-> e, snapshot |-> real[e[1]]] /\ \A q \in Processor : q # p => work'[q] = work[q]
    BY <1>t, <1>2 DEF Fetch, WorkType
  <2>3. e[2] =< real[e[1]].version /\ e[1] \in Sub
    BY <1>t, <1>2 DEF Fetch, EventsAreReal
  <2>4. /\ work'[p].event[2] =< work'[p].snapshot.version
        /\ work'[p].snapshot.version =< real[work'[p].event[1]].version
        /\ work'[p].snapshot.status \in TERMINAL => real[work'[p].event[1]].status \in TERMINAL
    BY <2>2, <2>3, <1>v
  <2>5. SnapshotsAreReal'
    BY <1>r, <2>1, <2>2, <2>4 DEF SnapshotsAreReal
  <2>6. QED BY <1>r, <2>1, <2>5 DEF Real, RowsAreReal
<1>3. ASSUME NEW p \in Processor, Apply(p) PROVE Real'
  <2>1. PICK s \in Sub, snapshot \in Snapshot :
          /\ s = work[p].event[1] /\ snapshot = work[p].snapshot /\ work[p] # Idle
          /\ row'[s].version = snapshot.version
          /\ \A t \in Sub : t # s => row'[t].version = row[t].version
          /\ work'[p].event = work[p].event /\ work'[p].snapshot = work[p].snapshot
          /\ \A q \in Processor : q # p => work'[q] = work[q]
          /\ real' = real
    BY <1>3, ApplyStep
  <2>2. RowsAreReal'
    BY <1>r, <2>1 DEF RowsAreReal, SnapshotsAreReal
  <2>3. SnapshotsAreReal'
    BY <1>r, <2>1 DEF SnapshotsAreReal
  <2>4. QED BY <2>2, <2>3 DEF Real
<1>4. ASSUME NEW p \in Processor, Mark(p) \/ Wait(p) \/ Fail(p) PROVE Real'
  <2>1. real' = real /\ row' = row /\ work' = [work EXCEPT ![p] = Idle]
    BY <1>4 DEF Mark, Wait, Fail, provider
  <2>2. \A q \in Processor : work'[q] # Idle => work'[q] = work[q] /\ work[q] # Idle
    BY <1>t, <2>1 DEF WorkType
  <2>3. QED BY <1>r, <2>1, <2>2 DEF Real, RowsAreReal, SnapshotsAreReal
<1>5. CASE real' = real /\ row' = row /\ work' = work
  BY <1>r, <1>5 DEF Real, RowsAreReal, SnapshotsAreReal
<1>6. QED
  BY <1>1, <1>2, <1>3, <1>4, <1>5 DEF Next, vars, StartCheckout, RecordCheckout, Ingest, provider

(* Rows, and what is known of them, go forward unless two raced.           *)
LEMMA FreshStep == TypeInv /\ Real /\ Fresh /\ [Next]_vars => Fresh'
<1> SUFFICES ASSUME TypeInv, Real, Fresh, [Next]_vars PROVE Fresh'
  OBVIOUS
<1>t. BillingTypeOK /\ WorkType /\ EventsAreReal
  BY DEF TypeInv, BillingTypeOK, WorkType
<1>v. \A s \in Sub : real[s].version \in 0 .. MaxVersion /\ row[s].version \in 0 .. MaxVersion
  BY <1>t, RealType, RowVersion
<1>f. /\ RacesAreKnown /\ FetchedIsNoOlder /\ AppliedIsShown /\ ProcessedIsApplied
      /\ SnapshotsAreReal /\ RowsAreReal
  BY DEF Real, Fresh
<1>1. ASSUME row' = row, work' = work, overlapped' = overlapped,
             \A e \in Sub \X Version : event'[e] = "processed" => event[e] = "processed"
      PROVE  Fresh'
  BY <1>f, <1>1 DEF Fresh, RacesAreKnown, FetchedIsNoOlder, AppliedIsShown, ProcessedIsApplied, InHand, Shown
<1>2. ASSUME NEW s \in Sub, StartCheckout(s) \/ RecordCheckout(s) \/ Changes(s) PROVE Fresh'
  <2>1. \A e \in Sub \X Version : event'[e] = "processed" => event[e] = "processed"
    BY <1>2, <1>t DEF StartCheckout, RecordCheckout, Changes, BillingTypeOK
  <2>2. QED BY <1>1, <1>2, <2>1 DEF StartCheckout, RecordCheckout, Changes
<1>3. ASSUME NEW e \in Sub \X Version, Ingest(e) PROVE Fresh'
  <2>1. \A x \in Sub \X Version : event'[x] = "processed" => event[x] = "processed"
    BY <1>3, <1>t DEF Ingest, BillingTypeOK
  <2>2. QED BY <1>1, <1>3, <2>1 DEF Ingest
<1>4. ASSUME NEW p \in Processor, NEW e \in Sub \X Version, Fetch(p, e) PROVE Fresh'
  <2>1. row' = row /\ event' = event /\ overlapped \subseteq overlapped'
    BY <1>4 DEF Fetch
  <2>2. work'[p] = [at |-> "fetched", event |-> e, snapshot |-> real[e[1]]] /\ \A q \in Processor : q # p => work'[q] = work[q]
    BY <1>t, <1>4 DEF Fetch, WorkType
  <2>3. \A q \in Processor : q # p /\ InHand(q, e[1]) => e[1] \in overlapped'
    BY <1>4 DEF Fetch, InHand
  <2>4. RacesAreKnown'
    BY <1>f, <2>1, <2>2, <2>3 DEF RacesAreKnown, InHand
  <2>5. FetchedIsNoOlder'
    BY <1>f, <2>1, <2>2 DEF FetchedIsNoOlder, InHand, RowsAreReal
  <2>6. AppliedIsShown'
    BY <1>f, <2>1, <2>2 DEF AppliedIsShown, Shown
  <2>7. ProcessedIsApplied'
    BY <1>f, <2>1 DEF ProcessedIsApplied
  <2>8. QED BY <2>4, <2>5, <2>6, <2>7 DEF Fresh
<1>5. ASSUME NEW p \in Processor, Apply(p) PROVE Fresh'
  <2>1. PICK s \in Sub, snapshot \in Snapshot :
          /\ s = work[p].event[1] /\ snapshot = work[p].snapshot /\ InHand(p, s)
          /\ snapshot.version \in Version
          /\ row'[s].version = snapshot.version
          /\ \A t \in Sub : t # s => row'[t].version = row[t].version
          /\ work'[p].at = "applied" /\ work'[p].event = work[p].event /\ work'[p].snapshot = work[p].snapshot
          /\ \A q \in Processor : q # p => work'[q] = work[q]
          /\ event' = event /\ overlapped' = overlapped
    BY <1>5, ApplyStep DEF InHand
  <2>2. \A q \in Processor, t \in Sub : InHand(q, t)' => q # p /\ InHand(q, t)
    BY <2>1 DEF InHand
  <2>3. RacesAreKnown'
    BY <1>f, <2>1, <2>2 DEF RacesAreKnown
  <2>4. row[s].version =< row'[s].version \/ s \in overlapped
    BY <1>f, <2>1 DEF FetchedIsNoOlder
  <2>5. FetchedIsNoOlder'
    <3> SUFFICES ASSUME NEW t \in Sub, NEW q \in Processor, InHand(q, t)'
                 PROVE  row'[t].version =< work'[q].snapshot.version \/ t \in overlapped'
      BY DEF FetchedIsNoOlder
    <3>1. q # p /\ InHand(q, t) /\ work'[q] = work[q]
      BY <2>1, <2>2
    <3>2. CASE t = s
      BY <1>f, <2>1, <3>1, <3>2 DEF RacesAreKnown
    <3>3. CASE t # s
      BY <1>f, <2>1, <3>1, <3>3 DEF FetchedIsNoOlder
    <3>4. QED BY <3>2, <3>3
  <2>6. AppliedIsShown'
    <3> SUFFICES ASSUME NEW t \in Sub, NEW q \in Processor, Shown(q, t)'
                 PROVE  work'[q].snapshot.version =< row'[t].version \/ t \in overlapped'
      BY DEF AppliedIsShown
    <3>1. CASE q = p
      BY <2>1, <3>1 DEF Shown, Version
    <3>2. CASE q # p
      <4>1. Shown(q, t) /\ work'[q] = work[q] /\ work[q] # Idle
        BY <2>1, <3>2 DEF Shown, Idle
      <4>2. work[q].snapshot.version \in Version
        BY <4>1, <1>t, WorkInHand
      <4>3. work[q].snapshot.version =< row[t].version \/ t \in overlapped
        BY <1>f, <4>1 DEF AppliedIsShown
      <4>4. QED BY <1>v, <2>1, <2>4, <4>1, <4>2, <4>3 DEF Version
    <3>3. QED BY <3>1, <3>2
  <2>7. ProcessedIsApplied'
    <3> SUFFICES ASSUME NEW e \in Sub \X Version, event'[e] = "processed"
                 PROVE  row'[e[1]].version >= e[2] \/ e[1] \in overlapped'
      BY DEF ProcessedIsApplied
    <3>1. row[e[1]].version >= e[2] \/ e[1] \in overlapped
      BY <1>f, <2>1 DEF ProcessedIsApplied
    <3>2. e[1] \in Sub /\ e[2] \in Version
      OBVIOUS
    <3>3. QED BY <1>v, <2>1, <2>4, <3>1, <3>2 DEF Version
  <2>8. QED BY <2>3, <2>5, <2>6, <2>7 DEF Fresh
<1>6. ASSUME NEW p \in Processor, Mark(p) PROVE Fresh'
  <2>1. work[p] # Idle /\ row' = row /\ overlapped' = overlapped
    BY <1>6, <1>t, NotIdle DEF Mark
  <2>2. PICK s \in Sub, n \in Version : work[p].event = <<s, n>> /\ work[p].event[1] = s /\ work[p].event[2] = n
    BY <2>1, <1>t, WorkInHand
  <2>3. work'[p] = Idle /\ \A q \in Processor : q # p => work'[q] = work[q]
    BY <1>6, <1>t DEF Mark, WorkType
  <2>4. \A q \in Processor, t \in Sub : /\ InHand(q, t)' => InHand(q, t) /\ work'[q] = work[q]
                                        /\ Shown(q, t)' => Shown(q, t) /\ work'[q] = work[q]
    BY <2>3 DEF InHand, Shown, Idle
  <2>5. RacesAreKnown' /\ FetchedIsNoOlder' /\ AppliedIsShown'
    BY <1>f, <2>1, <2>4 DEF RacesAreKnown, FetchedIsNoOlder, AppliedIsShown
  <2>6. n =< row[s].version \/ s \in overlapped
    <3>1. Shown(p, s)
      BY <1>6, <2>2 DEF Mark, Shown
    <3>2. work[p].snapshot.version =< row[s].version \/ s \in overlapped
      BY <1>f, <3>1 DEF AppliedIsShown
    <3>3. n =< work[p].snapshot.version /\ work[p].snapshot.version \in Version
      BY <1>f, <1>t, <2>1, <2>2, WorkInHand DEF SnapshotsAreReal
    <3>4. QED BY <1>v, <3>2, <3>3 DEF Version
  <2>7. \A e \in Sub \X Version : event'[e] = "processed" => event[e] = "processed" \/ e = <<s, n>>
    BY <1>6, <1>t, <2>2 DEF Mark, BillingTypeOK
  <2>8. ProcessedIsApplied'
    <3> SUFFICES ASSUME NEW e \in Sub \X Version, event'[e] = "processed"
                 PROVE  row[e[1]].version >= e[2] \/ e[1] \in overlapped
      BY <2>1 DEF ProcessedIsApplied
    <3>1. CASE event[e] = "processed"
      BY <1>f, <3>1 DEF ProcessedIsApplied
    <3>2. CASE e = <<s, n>>
      BY <1>v, <2>6, <3>2 DEF Version
    <3>3. QED BY <2>7, <3>1, <3>2
  <2>9. QED BY <2>5, <2>8 DEF Fresh
<1>7. ASSUME NEW p \in Processor, Wait(p) \/ Fail(p) PROVE Fresh'
  <2>1. row' = row /\ overlapped' = overlapped
    BY <1>7 DEF Wait, Fail
  <2>2. \A e \in Sub \X Version : event'[e] = event[e]
    BY <1>7, <1>t DEF Wait, Fail, Retried, BillingTypeOK
  <2>3. work'[p] = Idle /\ \A q \in Processor : q # p => work'[q] = work[q]
    BY <1>7, <1>t DEF Wait, Fail, WorkType
  <2>4. \A q \in Processor, t \in Sub : /\ InHand(q, t)' => InHand(q, t) /\ work'[q] = work[q]
                                        /\ Shown(q, t)' => Shown(q, t) /\ work'[q] = work[q]
    BY <2>3 DEF InHand, Shown, Idle
  <2>5. RacesAreKnown' /\ FetchedIsNoOlder' /\ AppliedIsShown'
    BY <1>f, <2>1, <2>4 DEF RacesAreKnown, FetchedIsNoOlder, AppliedIsShown
  <2>6. ProcessedIsApplied'
    BY <1>f, <2>1, <2>2 DEF ProcessedIsApplied
  <2>7. QED BY <2>5, <2>6 DEF Fresh
<1>8. CASE UNCHANGED vars
  BY <1>1, <1>8 DEF vars
<1>9. QED BY <1>2, <1>3, <1>4, <1>5, <1>6, <1>7, <1>8 DEF Next

-----------------------------------------------------------------------------
LEMMA BillingInvInitially == Init => BillingInv
<1> SUFFICES ASSUME Init PROVE BillingInv
  OBVIOUS
<1>1. \A s \in Sub : row[s] = NoRow /\ real[s] = Unborn
  BY DEF Init
<1>2. \A p \in Processor : work[p] = Idle
  BY DEF Init
<1>3. \A e \in Sub \X Version : event[e] = "none"
  BY DEF Init
<1>4. OneLive
  BY <1>1 DEF OneLive, Live, LIVE, NoRow
<1>5. Real
  BY <1>1, <1>2 DEF Real, SnapshotsAreReal, RowsAreReal, NoRow, Unborn
<1>6. \A p \in Processor, s \in Sub : ~InHand(p, s) /\ ~Shown(p, s)
  BY <1>2 DEF InHand, Shown, Idle
<1>7. Fresh
  BY <1>3, <1>6 DEF Fresh, RacesAreKnown, FetchedIsNoOlder, AppliedIsShown, ProcessedIsApplied
<1>8. QED BY <1>4, <1>5, <1>7, TypeInitially DEF BillingInv

LEMMA BillingInvStep == BillingInv /\ [Next]_vars => BillingInv'
BY TypeInvStep, OneLiveStep, RealStep, FreshStep DEF BillingInv

(* An account never has two live subscriptions, however many of its        *)
(* checkouts are paid and in whatever order the webhooks come.             *)
THEOREM OneLiveAlways == Spec => []OneLive
<1>1. BillingInv => OneLive
  BY DEF BillingInv
<1>2. QED BY BillingInvInitially, BillingInvStep, <1>1, PTL DEF Spec

(* A processed event shows in its row, unless two processors had fetched   *)
(* snapshots of the subscription at once.                                  *)
THEOREM ProcessedIsAppliedAlways == Spec => []ProcessedIsApplied
<1>1. BillingInv => ProcessedIsApplied
  BY DEF BillingInv, Fresh
<1>2. QED BY BillingInvInitially, BillingInvStep, <1>1, PTL DEF Spec

(* What a step can do to the state of a row.                               *)
LEMMA StateStep ==
  ASSUME BillingInv, [Next]_vars, NEW s \in Sub
  PROVE  /\ row[s].state \in TERMINAL => row'[s].state = row[s].state
         /\ Live(s) /\ row[s].state # "INCOMPLETE" /\ row'[s].state \in TERMINAL => real[s].status \in TERMINAL
<1>t. TypeInv /\ RowType /\ SnapshotsAreReal
  BY DEF BillingInv, TypeInv, BillingTypeOK, RowType, Real
<1>d. row[s].state \in TERMINAL => ~Live(s)
  BY DEF Live, LIVE, TERMINAL
<1>1. ASSUME NEW p \in Processor, Apply(p)
      PROVE  /\ row[s].state \in TERMINAL => row'[s].state = row[s].state
             /\ Live(s) /\ row[s].state # "INCOMPLETE" /\ row'[s].state \in TERMINAL => real[s].status \in TERMINAL
  <2>1. PICK x \in Sub, snapshot \in Snapshot :
          /\ x = work[p].event[1] /\ snapshot = work[p].snapshot /\ work[p] # Idle
          /\ ~MustWait(x, snapshot)
          /\ row'[x].state = transition(row[x].state, snapshot)
          /\ \A t \in Sub : t # x => row'[t] = RowAfter(x, snapshot, t)
    BY <1>1, <1>t, ApplyStep
  <2>2. CASE s = x
    BY <1>t, <1>d, <2>1, <2>2 DEF transition, SnapshotsAreReal
  <2>3. CASE s # x
    <3>1. /\ Supersedes(x, snapshot, s) => Live(s) /\ row[s].state = "INCOMPLETE"
          /\ ~Supersedes(x, snapshot, s) => row'[s].state = row[s].state
      BY <1>t, <2>1, <2>3, OthersAfter DEF Supersedes
    <3>2. QED BY <1>d, <3>1
  <2>4. QED BY <2>2, <2>3
<1>2. CASE row' = row
  BY <1>2, <1>d
<1>3. QED
  BY <1>1, <1>2 DEF Next, vars, StartCheckout, RecordCheckout, Changes, Ingest, Fetch, Mark, Wait, Fail

(* A row that ended never comes back.                                      *)
THEOREM TerminalStaysAlways == Spec => TerminalStays
<1>1. BillingInv /\ [Next]_vars => [\A s \in Sub : row[s].state \in TERMINAL => row'[s].state = row[s].state]_vars
  BY StateStep
<1>2. QED BY BillingInvInitially, BillingInvStep, <1>1, PTL DEF Spec, TerminalStays

(* A subscription that was paid for ends here only after the provider      *)
(* ended it.                                                               *)
THEOREM PaidEndsWithProviderAlways == Spec => PaidEndsWithProvider
<1>1. BillingInv /\ [Next]_vars
        => [\A s \in Sub : Live(s) /\ row[s].state # "INCOMPLETE" /\ row'[s].state \in TERMINAL
              => real[s].status \in TERMINAL]_vars
  BY StateStep
<1>2. QED BY BillingInvInitially, BillingInvStep, <1>1, PTL DEF Spec, PaidEndsWithProvider

-----------------------------------------------------------------------------
(* Convergence on the provider.  A version has one status: what shows the  *)
(* provider's version, in hand or in a row, shows its status, and what     *)
(* shows an end is at the end that nothing at the provider follows.        *)

HandsAgree ==
  \A p \in Processor : work[p] # Idle =>
    LET s == work[p].event[1] IN
    \/ work[p].snapshot.status = real[s].status
    \/ work[p].snapshot.version # real[s].version /\ work[p].snapshot.status \notin TERMINAL

RowsAgree ==
  \A s \in Sub :
    /\ row[s].version = real[s].version => row[s].state \in {real[s].status, "INCOMPLETE_EXPIRED"}
    /\ row[s].state = "ENDED" => real[s].status = "ENDED"

Agreement == BillingInv /\ HandsAgree /\ RowsAgree

LEMMA AgreementStep == Agreement /\ [Next]_vars => Agreement'
<1> SUFFICES ASSUME Agreement, [Next]_vars PROVE HandsAgree' /\ RowsAgree'
  BY BillingInvStep DEF Agreement
<1>t. TypeInv /\ BillingTypeOK /\ WorkType /\ RowType /\ SnapshotsAreReal /\ RowsAreReal /\ HandsAgree /\ RowsAgree
  BY DEF Agreement, BillingInv, TypeInv, BillingTypeOK, WorkType, RowType, Real
<1>v. \A s \in Sub : real[s].version \in 0 .. MaxVersion /\ row[s].version \in 0 .. MaxVersion
  BY <1>t, RealType, RowVersion
<1>1. ASSUME NEW s \in Sub, Changes(s) PROVE HandsAgree' /\ RowsAgree'
  <2>1. /\ real'[s].version = real[s].version + 1
        /\ real[s].status \notin TERMINAL
        /\ \A t \in Sub : t # s => real'[t] = real[t]
        /\ work' = work /\ row' = row
    BY <1>t, <1>1 DEF Changes, Follows, BillingTypeOK, LIVE, TERMINAL
  <2>2. RowsAgree'
    <3>1. row[s].version # real'[s].version /\ row[s].state # "ENDED"
      BY <1>t, <1>v, <2>1 DEF RowsAreReal, RowsAgree, TERMINAL
    <3>2. QED
      BY <1>t, <2>1, <3>1 DEF RowsAgree
  <2>3. HandsAgree'
    <3> SUFFICES ASSUME NEW p \in Processor, work[p] # Idle, NEW t \in Sub, t = work[p].event[1]
                 PROVE  \/ work[p].snapshot.status = real'[t].status
                        \/ work[p].snapshot.version # real'[t].version /\ work[p].snapshot.status \notin TERMINAL
      BY <1>t, <2>1, WorkInHand DEF HandsAgree
    <3>1. CASE t = s
      <4>1. work[p].snapshot.version =< real[s].version /\ work[p].snapshot.version \in Version
        BY <1>t, <3>1, WorkInHand DEF SnapshotsAreReal
      <4>2. work[p].snapshot.status \notin TERMINAL
        BY <1>t, <2>1, <3>1 DEF SnapshotsAreReal
      <4>3. QED
        BY <1>v, <2>1, <3>1, <4>1, <4>2 DEF Version
    <3>2. CASE t # s
      BY <1>t, <2>1, <3>2 DEF HandsAgree
    <3>3. QED
      BY <3>1, <3>2
  <2>4. QED
    BY <2>2, <2>3
<1>2. ASSUME NEW p \in Processor, NEW e \in Sub \X Version, Fetch(p, e) PROVE HandsAgree' /\ RowsAgree'
  <2>1. /\ real' = real /\ row' = row
        /\ work'[p].snapshot = real[e[1]] /\ work'[p].event = e
        /\ \A q \in Processor : q # p => work'[q] = work[q]
    BY <1>t, <1>2 DEF Fetch, WorkType, provider
  <2>2. QED
    BY <1>t, <2>1 DEF HandsAgree, RowsAgree
<1>3. ASSUME NEW p \in Processor, Apply(p) PROVE HandsAgree' /\ RowsAgree'
  <2>1. PICK s \in Sub, snapshot \in Snapshot :
          /\ s = work[p].event[1] /\ snapshot = work[p].snapshot /\ work[p] # Idle
          /\ ~MustWait(s, snapshot)
          /\ row'[s].version = snapshot.version
          /\ row'[s].state = transition(row[s].state, snapshot)
          /\ \A t \in Sub : t # s => row'[t] = RowAfter(s, snapshot, t) /\ row'[t].version = row[t].version
          /\ work'[p].event = work[p].event /\ work'[p].snapshot = work[p].snapshot
          /\ \A q \in Processor : q # p => work'[q] = work[q]
          /\ real' = real
    BY <1>t, <1>3, ApplyStep
  <2>2. HandsAgree'
    BY <1>t, <2>1 DEF HandsAgree
  <2>3. /\ row'[s].version = real[s].version => row'[s].state \in {real[s].status, "INCOMPLETE_EXPIRED"}
        /\ row'[s].state = "ENDED" => real[s].status = "ENDED"
    <3>1. CASE row[s].state \in TERMINAL
      BY <1>t, <2>1, <3>1 DEF RowsAgree, transition, TERMINAL
    <3>2. CASE row[s].state \notin TERMINAL
      BY <1>t, <2>1, <3>2 DEF HandsAgree, transition, TERMINAL
    <3>3. QED
      BY <3>1, <3>2
  <2>4. \A t \in Sub : t # s => row'[t].state \in {row[t].state, "INCOMPLETE_EXPIRED"}
    BY <1>t, <2>1, OthersAfter
  <2>5. RowsAgree'
    BY <1>t, <2>1, <2>3, <2>4 DEF RowsAgree
  <2>6. QED
    BY <2>2, <2>5
<1>4. ASSUME NEW p \in Processor, Mark(p) \/ Wait(p) \/ Fail(p) PROVE HandsAgree' /\ RowsAgree'
  <2>1. real' = real /\ row' = row /\ work' = [work EXCEPT ![p] = Idle]
    BY <1>4 DEF Mark, Wait, Fail, provider
  <2>2. \A q \in Processor : work'[q] # Idle => work'[q] = work[q] /\ work[q] # Idle
    BY <1>t, <2>1 DEF WorkType
  <2>3. QED
    BY <1>t, <2>1, <2>2 DEF HandsAgree, RowsAgree
<1>5. CASE real' = real /\ row' = row /\ work' = work
  BY <1>t, <1>5 DEF HandsAgree, RowsAgree
<1>6. QED
  BY <1>1, <1>2, <1>3, <1>4, <1>5 DEF Next, vars, StartCheckout, RecordCheckout, Ingest, provider

LEMMA AgreementInit == Init => Agreement
<1> SUFFICES ASSUME Init PROVE HandsAgree /\ RowsAgree
  BY BillingInvInitially DEF Agreement
<1>1. HandsAgree
  BY DEF Init, HandsAgree
<1>2. \A s \in Sub : real[s].status = "none" /\ row[s].state = "none"
  BY DEF Init, Unborn, NoRow
<1>3. QED
  BY <1>1, <1>2 DEF RowsAgree

(* Once all webhooks of a subscription are processed, in whatever order    *)
(* and however often they were tried, its row says what the provider says  *)
(* now, unless two processors had fetched it at once.                      *)
THEOREM ConvergesOnProviderAlways == Spec => []ConvergesOnProvider
<1>1. ASSUME Agreement PROVE ConvergesOnProvider
  <2> SUFFICES ASSUME NEW s \in Sub \ overlapped, real[s] # Unborn,
                      \A n \in 1 .. real[s].version : event[<<s, n>>] = "processed"
               PROVE  row[s].version = real[s].version /\ row[s].state \in {real[s].status, "INCOMPLETE_EXPIRED"}
    BY DEF ConvergesOnProvider
  <2>1. BillingTypeOK /\ RowsAreReal /\ ProcessedIsApplied /\ RowsAgree
    BY <1>1 DEF Agreement, BillingInv, TypeInv, Real, Fresh
  <2>2. PICK n \in Version : n = real[s].version
    BY <2>1 DEF BillingTypeOK, Snapshot
  <2>3. <<s, n>> \in Sub \X Version /\ event[<<s, n>>] = "processed"
    BY <2>2 DEF Version
  <2>4. row[s].version >= n
    BY <2>1, <2>3 DEF ProcessedIsApplied
  <2>5. row[s].version =< n /\ row[s].version \in 0 .. MaxVersion
    BY <2>1, <2>2, RowVersion DEF RowsAreReal
  <2>6. row[s].version = real[s].version
    BY <2>2, <2>4, <2>5 DEF Version
  <2>7. QED
    BY <2>1, <2>6 DEF RowsAgree
<1>2. QED BY <1>1, AgreementInit, AgreementStep, PTL DEF Spec

OneAtATime == \A p, q \in Processor : p = q

NoneOverlapped == overlapped = {}

(* With one processor at a time none are ever fetched at once: then every  *)
(* subscription whose webhooks are all processed is as the provider says.  *)
THEOREM OneProcessorConverges ==
  ASSUME OneAtATime
  PROVE  Spec => [](NoneOverlapped /\ ConvergesOnProvider)
<1>1. Init => NoneOverlapped
  BY DEF Init, NoneOverlapped
<1>2. NoneOverlapped /\ [Next]_vars => NoneOverlapped'
  <2> SUFFICES ASSUME overlapped = {}, [Next]_vars PROVE overlapped' = {}
    BY DEF NoneOverlapped
  <2>1. ASSUME NEW p \in Processor, NEW e \in Sub \X Version, Fetch(p, e) PROVE overlapped' = {}
    BY <2>1 DEF Fetch, Idle, OneAtATime
  <2>2. CASE UNCHANGED overlapped
    BY <2>2
  <2>3. QED
    BY <2>1, <2>2 DEF Next, vars, StartCheckout, RecordCheckout, Changes, Ingest, Apply, Mark, Wait, Fail
<1>3. QED
  BY <1>1, <1>2, ConvergesOnProviderAlways, PTL DEF Spec

-----------------------------------------------------------------------------
(* Entitlement.  What is in hand never shows a subscription further than   *)
(* the provider has brought it, and the provider only brings it further.   *)

Statuses == LIVE \cup TERMINAL \cup {"none"}

SnapshotsBehind ==
  \A p \in Processor : work[p] # Idle => Grade(work[p].snapshot.status) =< Grade(real[work[p].event[1]].status)

EntitlementInv == BillingInv /\ SnapshotsBehind

LEMMA Grades ==
  ASSUME NEW status \in Statuses
  PROVE  /\ Grade(status) \in 0 .. 3
         /\ Grade(status) = 0 <=> status = "none"
         /\ Grade(status) = 1 <=> status = "INCOMPLETE"
         /\ Grade(status) = 2 <=> status \in LIVE \ {"INCOMPLETE"}
         /\ Grade(status) = 3 <=> status \in TERMINAL
<1>1. CASE status = "none"
  BY <1>1 DEF Grade, LIVE, TERMINAL
<1>2. CASE status = "INCOMPLETE"
  BY <1>2 DEF Grade, LIVE, TERMINAL
<1>3. CASE status \in TERMINAL
  BY <1>3 DEF Grade, LIVE, TERMINAL
<1>4. CASE status \in LIVE \ {"INCOMPLETE"}
  BY <1>4 DEF Grade, LIVE, TERMINAL
<1>5. QED
  BY <1>1, <1>2, <1>3, <1>4 DEF Statuses

LEMMA StatusesAre ==
  ASSUME BillingTypeOK, NEW s \in Sub
  PROVE  /\ real[s].status \in Statuses /\ row[s].state \in Statuses
         /\ New(s) <=> row[s].state = "none"
<1>1. real[s].status \in Statuses
  BY DEF BillingTypeOK, Snapshot, Unborn, Statuses
<1>2. CASE row[s] = NoRow
  BY <1>1, <1>2 DEF NoRow, New, Statuses
<1>3. CASE row[s] \in [state : LIVE \cup TERMINAL, version : Version, since : 0 .. MaxVersion]
  <2>1. row[s].state \in LIVE \cup TERMINAL
    BY <1>3
  <2>2. row[s].state # "none" /\ row[s] # NoRow
    BY <2>1 DEF LIVE, TERMINAL, NoRow
  <2>3. QED
    BY <1>1, <2>1, <2>2 DEF New, Statuses
<1>4. QED
  BY <1>2, <1>3 DEF BillingTypeOK

LEMMA FollowsGrade ==
  ASSUME NEW old \in Statuses, NEW status \in Follows(old)
  PROVE  status \in LIVE \cup TERMINAL /\ Grade(old) =< Grade(status)
<1>1. CASE old = "none"
  BY <1>1 DEF Follows, Grade, LIVE, TERMINAL
<1>2. CASE old = "INCOMPLETE"
  BY <1>2 DEF Follows, Grade, LIVE, TERMINAL
<1>3. CASE old \in LIVE \ {"INCOMPLETE"}
  BY <1>3 DEF Follows, Grade, LIVE, TERMINAL
<1>4. CASE old \in TERMINAL
  BY <1>4 DEF Follows, Grade, LIVE, TERMINAL
<1>5. QED
  BY <1>1, <1>2, <1>3, <1>4 DEF Statuses

(* What Changes does to the provider's side.                               *)
LEMMA ChangesStep ==
  ASSUME BillingTypeOK, NEW s \in Sub, Changes(s)
  PROVE  /\ \A t \in Sub : t # s => real'[t].status = real[t].status
         /\ real'[s].status \in LIVE \cup TERMINAL /\ Grade(real[s].status) =< Grade(real'[s].status)
<1>1. /\ real'[s].status \in Follows(real[s].status)
      /\ \A t \in Sub : t # s => real'[t] = real[t]
  BY DEF Changes, BillingTypeOK
<1>2. QED
  BY <1>1, StatusesAre, FollowsGrade

LEMMA BehindStep == EntitlementInv /\ [Next]_vars => EntitlementInv'
<1> SUFFICES ASSUME EntitlementInv, [Next]_vars PROVE SnapshotsBehind'
  BY BillingInvStep DEF EntitlementInv
<1>t. BillingTypeOK /\ WorkType /\ TypeInv /\ SnapshotsBehind
  BY DEF EntitlementInv, BillingInv, TypeInv, BillingTypeOK, WorkType
<1>s. \A s \in Sub : Grade(real[s].status) \in 0 .. 3
  BY <1>t, StatusesAre, Grades
<1>1. ASSUME NEW s \in Sub, Changes(s) PROVE SnapshotsBehind'
  <2>1. work' = work
    BY <1>1 DEF Changes
  <2>2. \A t \in Sub : Grade(real[t].status) =< Grade(real'[t].status) /\ Grade(real'[t].status) \in 0 .. 3
    <3>1. /\ \A t \in Sub : t # s => real'[t].status = real[t].status
          /\ real'[s].status \in Statuses /\ Grade(real[s].status) =< Grade(real'[s].status)
      BY <1>t, <1>1, ChangesStep DEF Statuses
    <3>2. \A t \in Sub : real'[t].status = real[t].status \/ t = s
      BY <3>1
    <3>3. Grade(real'[s].status) \in 0 .. 3
      BY <3>1, Grades
    <3>4. QED
      BY <1>s, <3>1, <3>2, <3>3
  <2>3. ASSUME NEW p \in Processor, work[p] # Idle
        PROVE  Grade(work[p].snapshot.status) =< Grade(real'[work[p].event[1]].status)
    <3>1. PICK t \in Sub : t = work[p].event[1]
      BY <1>t, <2>3, WorkInHand
    <3>2. Grade(work[p].snapshot.status) \in 0 .. 3
      BY <1>t, <2>3, WorkInHand, Grades DEF Statuses
    <3>3. Grade(work[p].snapshot.status) =< Grade(real[t].status)
      BY <1>t, <2>3, <3>1 DEF SnapshotsBehind
    <3>4. QED
      BY <1>s, <2>1, <2>2, <3>1, <3>2, <3>3
  <2>4. QED
    BY <2>1, <2>3 DEF SnapshotsBehind
<1>2. ASSUME NEW p \in Processor, NEW e \in Sub \X Version, Fetch(p, e) PROVE SnapshotsBehind'
  <2>1. real' = real /\ work'[p].snapshot = real[e[1]] /\ work'[p].event = e
        /\ \A q \in Processor : q # p => work'[q] = work[q]
    BY <1>t, <1>2 DEF Fetch, WorkType, provider
  <2>2. Grade(work'[p].snapshot.status) =< Grade(real'[work'[p].event[1]].status)
    BY <1>s, <2>1
  <2>3. QED
    BY <1>t, <2>1, <2>2 DEF SnapshotsBehind
<1>3. ASSUME NEW p \in Processor, Apply(p) PROVE SnapshotsBehind'
  <2>1. /\ work[p] # Idle /\ real' = real /\ work'[p].event = work[p].event /\ work'[p].snapshot = work[p].snapshot
        /\ \A q \in Processor : q # p => work'[q] = work[q]
    BY <1>t, <1>3, ApplyStep
  <2>2. QED
    BY <1>t, <2>1 DEF SnapshotsBehind
<1>4. ASSUME NEW p \in Processor, Mark(p) \/ Wait(p) \/ Fail(p) PROVE SnapshotsBehind'
  <2>1. real' = real /\ work' = [work EXCEPT ![p] = Idle]
    BY <1>4 DEF Mark, Wait, Fail, provider
  <2>2. \A q \in Processor : work'[q] # Idle => work'[q] = work[q] /\ work[q] # Idle
    BY <1>t, <2>1 DEF WorkType
  <2>3. QED
    BY <1>t, <2>1, <2>2 DEF SnapshotsBehind
<1>5. CASE real' = real /\ work' = work
  BY <1>t, <1>5 DEF SnapshotsBehind
<1>6. QED
  BY <1>1, <1>2, <1>3, <1>4, <1>5 DEF Next, vars, StartCheckout, RecordCheckout, Ingest, provider

(* The mapped variables.                                                   *)
Provider == [s \in Sub |-> Grade(real[s].status)]
Account == [s \in Sub |-> Grade(row[s].state)]

LEMMA ChangesMaps ==
  ASSUME EntitlementInv, NEW s \in Sub, Changes(s)
  PROVE  [Promise!Next]_(Promise!vars)
<1>1. BillingTypeOK
  BY DEF EntitlementInv, BillingInv, TypeInv
<1>2. row' = row
  BY <1>1 DEF Changes
<1>3. PICK g : g = Grade(real'[s].status)
  OBVIOUS
<1>4. /\ g \in {1, 2, 3} /\ Grade(real[s].status) =< g /\ Grade(real[s].status) \in 0 .. 3
      /\ \A t \in Sub : t # s => Grade(real'[t].status) = Grade(real[t].status)
  <2>1. real'[s].status \in Statuses /\ real'[s].status # "none"
    BY <1>1, ChangesStep DEF Statuses, LIVE, TERMINAL
  <2>2. g \in 0 .. 3 /\ g # 0
    BY <1>3, <2>1, Grades
  <2>3. QED
    BY <1>1, <1>3, <2>2, ChangesStep, StatusesAre, Grades
<1>5. Account' = Account
  BY <1>2 DEF Account
<1>6. Provider' = [Provider EXCEPT ![s] = g]
  BY <1>3, <1>4 DEF Provider
<1>7. CASE g = Grade(real[s].status)
  <2>1. Provider' = Provider
    BY <1>4, <1>6, <1>7 DEF Provider
  <2>2. QED
    BY <1>5, <2>1 DEF Promise!vars, Provider, Account
<1>8. CASE g # Grade(real[s].status)
  <2>1. g > Provider[s]
    BY <1>4, <1>8 DEF Provider
  <2>2. Promise!Advance(s)
    BY <1>4, <1>5, <1>6, <2>1 DEF Promise!Advance, Promise!Attempted, Promise!Running, Promise!Ended, Provider, Account
  <2>3. QED
    BY <2>2 DEF Promise!Next
<1>9. QED
  BY <1>7, <1>8

LEMMA ApplyMaps ==
  ASSUME EntitlementInv, NEW p \in Processor, Apply(p)
  PROVE  [Promise!Next]_(Promise!vars)
<1>t. BillingTypeOK /\ TypeInv /\ RowType /\ SnapshotsBehind
  BY DEF EntitlementInv, BillingInv, TypeInv, BillingTypeOK, RowType
<1>1. PICK s \in Sub, snapshot \in Snapshot :
        /\ s = work[p].event[1] /\ snapshot = work[p].snapshot /\ work[p] # Idle
        /\ snapshot.status \in LIVE \cup TERMINAL
        /\ ~MustWait(s, snapshot)
        /\ row'[s].state = transition(row[s].state, snapshot)
        /\ \A t \in Sub : t # s => row'[t] = RowAfter(s, snapshot, t)
        /\ real' = real
  BY <1>t, ApplyStep
<1>2. PICK g \in {1, 2, 3} : g = Grade(snapshot.status) /\ (g = 3 <=> snapshot.status \in TERMINAL)
  <2>1. snapshot.status \in Statuses /\ snapshot.status # "none"
    BY <1>1 DEF Statuses, LIVE, TERMINAL
  <2>2. QED
    BY <2>1, Grades
<1>3. g =< Grade(real[s].status)
  BY <1>t, <1>1, <1>2 DEF SnapshotsBehind
<1>4. /\ \A t \in Sub : row[t].state \in Statuses /\ Account[t] = Grade(row[t].state)
      /\ \A t \in Sub : Account'[t] = Grade(row'[t].state)
      /\ New(s) <=> Account[s] = 0
  BY <1>t, StatusesAre, Grades DEF Account
<1>5. Provider' = Provider
  BY <1>1 DEF Provider
<1>6. Replaces(s, snapshot) <=> Account[s] = 0 /\ g # 3
  BY <1>2, <1>4 DEF Replaces
<1>7. \A t \in Sub : Live(t) <=> Account[t] \in {1, 2}
  BY <1>4, Grades DEF Live, LIVE, TERMINAL, Statuses
<1>8. \A t \in Sub : t # s => Account'[t] = IF Account[s] = 0 /\ g # 3 /\ Account[t] = 1 THEN 3 ELSE Account[t]
  <2> SUFFICES ASSUME NEW t \in Sub, t # s
               PROVE  Account'[t] = IF Account[s] = 0 /\ g # 3 /\ Account[t] = 1 THEN 3 ELSE Account[t]
    OBVIOUS
  <2>1. CASE Supersedes(s, snapshot, t)
    <3>1. row'[t].state = "INCOMPLETE_EXPIRED" /\ row[t].state = "INCOMPLETE"
      BY <1>t, <1>1, <2>1, OthersAfter
    <3>2. Account'[t] = 3 /\ Account[t] = 1
      BY <1>4, <3>1, Grades DEF Statuses, TERMINAL, LIVE
    <3>3. QED
      BY <1>6, <2>1, <3>2 DEF Supersedes
  <2>2. CASE ~Supersedes(s, snapshot, t)
    <3>1. row'[t].state = row[t].state
      BY <1>t, <1>1, <2>2, OthersAfter
    <3>2. Account'[t] = Account[t]
      BY <1>4, <3>1
    <3>3. QED
      BY <1>6, <1>7, <2>2, <3>2 DEF Supersedes
  <2>3. QED
    BY <2>1, <2>2
<1>9. CASE row[s].state \in TERMINAL
  <2>1. Account[s] = 3 /\ Account'[s] = 3
    BY <1>1, <1>4, <1>9, Grades DEF transition
  <2>2. \A t \in Sub : Account'[t] = Account[t]
    BY <1>8, <2>1
  <2>3. Account' = Account
    BY <2>2 DEF Account
  <2>4. QED
    BY <1>5, <2>3 DEF Promise!vars, Provider, Account
<1>10. CASE row[s].state \notin TERMINAL
  <2>1. Account[s] # 3 /\ Account'[s] = g
    BY <1>1, <1>2, <1>4, <1>10, Grades DEF transition
  <2>2. Account[s] = 0 /\ g # 3 => \A t \in Sub : Account[t] # 2
    <3>1. Replaces(s, snapshot) => \A t \in Sub : Live(t) => row[t].state = "INCOMPLETE"
      BY <1>1 DEF MustWait, Conflicts
    <3>2. QED
      BY <1>4, <1>6, <1>7, <3>1, Grades
  <2>3. Account' = [t \in Sub |-> IF t = s THEN g
                                  ELSE IF Account[s] = 0 /\ g # 3 /\ Account[t] = 1 THEN 3
                                  ELSE Account[t]]
    BY <1>8, <2>1 DEF Account
  <2>4. Promise!Show(s, g)
    <3>1. g =< Provider[s]
      BY <1>3 DEF Provider
    <3>2. QED
      BY <1>2, <1>5, <2>1, <2>2, <2>3, <3>1
         DEF Promise!Show, Promise!Enters, Promise!None, Promise!Attempted, Promise!Running, Promise!Ended,
             Provider, Account
  <2>5. QED
    BY <1>2, <2>4 DEF Promise!Next, Promise!Attempted, Promise!Running, Promise!Ended
<1>11. QED
  BY <1>9, <1>10

LEMMA EntitlementStep == EntitlementInv /\ [Next]_vars => [Promise!Next]_(Promise!vars)
<1> SUFFICES ASSUME EntitlementInv, [Next]_vars PROVE [Promise!Next]_(Promise!vars)
  OBVIOUS
<1>1. ASSUME real' = real, row' = row PROVE UNCHANGED Promise!vars
  BY <1>1 DEF Promise!vars
<1>2. QED
  BY <1>1, ChangesMaps, ApplyMaps
     DEF Next, vars, StartCheckout, RecordCheckout, Ingest, Fetch, Mark, Wait, Fail, provider

LEMMA EntitlementInit == Init => EntitlementInv /\ Promise!Init
<1> SUFFICES ASSUME Init PROVE EntitlementInv /\ Promise!Init
  OBVIOUS
<1>1. \A s \in Sub : real[s].status = "none" /\ row[s].state = "none"
  BY DEF Init, Unborn, NoRow
<1>2. Grade("none") = 0
  BY Grades DEF Statuses
<1>3. Promise!Init
  BY <1>1, <1>2 DEF Promise!Init, Promise!None
<1>4. SnapshotsBehind
  BY DEF Init, SnapshotsBehind
<1>5. QED
  BY <1>3, <1>4, BillingInvInitially DEF EntitlementInv

(* The tables keep what the abstract account promises, for any number of   *)
(* subscriptions, of changes and of processors that race: they show only   *)
(* what the provider has come to, let a subscription in only beside ended  *)
(* and abandoned ones, and revive none.                                    *)
THEOREM KeepsEntitlementAlways == Spec => KeepsEntitlement
<1>1. EntitlementInv /\ [Next]_vars => EntitlementInv'
  BY BehindStep
<1>2. QED
  BY <1>1, EntitlementInit, EntitlementStep, PTL DEF Spec, KeepsEntitlement, Promise!Spec

=============================================================================

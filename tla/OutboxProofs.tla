---------------------------- MODULE OutboxProofs ----------------------------
(***************************************************************************)
(* Proofs about Outbox for any messages, any finite set of dispatchers and *)
(* any bounds.                                                             *)
(***************************************************************************)
EXTENDS Outbox, FiniteSetTheorems, TLAPS

-----------------------------------------------------------------------------
(* Types.  An attempt may be counted because no message that is not done   *)
(* has used up its attempts, in the table or in a dispatcher's hands.      *)

OpenHasAttempts == \A m \in Message : status[m] \notin Terminal => attempts[m] < MaxAttempts

WorkHasAttempts == \A d \in Dispatcher : work[d] # None => work[d].attempts < MaxAttempts

TypeInv == OutboxTypeOK /\ OpenHasAttempts /\ WorkHasAttempts

Status == {"NONE", "QUEUED", "SENDING"} \cup Terminal

(* The bounds are numbers and no item in work is None.                     *)
LEMMA Bounds == MaxAttempts \in Nat \ {0} /\ MaxFaults \in Nat /\ IsFiniteSet(Dispatcher)
BY OutboxAssumption DEF OutboxAssumption

LEMMA ItemIsNotNone == \A x \in Item : x # None
BY OutboxAssumption DEF OutboxAssumption

LEMMA WorkIsItem ==
  ASSUME OutboxTypeOK, NEW d \in Dispatcher, work[d] # None
  PROVE  work[d] \in Item /\ work[d].msg \in Message /\ work[d].attempts \in Nat
BY DEF OutboxTypeOK, Item

(* What a write by id does, row by row.                                    *)
LEMMA SetRows ==
  ASSUME OutboxTypeOK, NEW d \in Dispatcher, NEW state, NEW count, work[d] # None, Set(d, state, count)
  PROVE  /\ status'[work[d].msg] = state /\ attempts'[work[d].msg] = count
         /\ due'[work[d].msg] = (due[work[d].msg] /\ state # "QUEUED")
         /\ redacted'[work[d].msg] = (redacted[work[d].msg] \/ state \in Terminal \ {"FAILED"})
         /\ \A m \in Message \ {work[d].msg} :
              /\ status'[m] = status[m] /\ attempts'[m] = attempts[m]
              /\ due'[m] = due[m] /\ redacted'[m] = redacted[m]
         /\ work'[d] = None /\ \A e \in Dispatcher \ {d} : work'[e] = work[e]
         /\ UNCHANGED <<suppressed, batch>>
<1>1. work[d].msg \in Message
  BY WorkIsItem
<1>2. QED
  BY <1>1 DEF Set, OutboxTypeOK

LEMMA SetType ==
  ASSUME TypeInv, NEW d \in Dispatcher, NEW state \in Terminal \cup {"QUEUED"}, NEW count \in 0 .. MaxAttempts,
         work[d] # None, Set(d, state, count), state = "QUEUED" => count < MaxAttempts,
         mails' \in [Message -> Nat], blank' \subseteq Message, faults' \in 0 .. MaxFaults
  PROVE  TypeInv'
<1>1. work[d].msg \in Message /\ OutboxTypeOK
  BY WorkIsItem DEF TypeInv
<1>2. status' \in [Message -> Status] /\ attempts' \in [Message -> 0 .. MaxAttempts]
  BY <1>1 DEF OutboxTypeOK, Set, Status
<1>3. due' \in [Message -> BOOLEAN] /\ redacted' \in [Message -> BOOLEAN]
  BY <1>1 DEF OutboxTypeOK, Set
<1>4. work' \in [Dispatcher -> Item \cup {None}] /\ UNCHANGED <<suppressed, batch>>
  BY <1>1 DEF OutboxTypeOK, Set
<1>5. OutboxTypeOK'
  BY <1>1, <1>2, <1>3, <1>4 DEF OutboxTypeOK, Status
<1>6. OpenHasAttempts' /\ WorkHasAttempts'
  BY <1>1, SetRows DEF TypeInv, OpenHasAttempts, WorkHasAttempts
<1>7. QED
  BY <1>5, <1>6 DEF TypeInv

LEMMA DeliverType ==
  ASSUME OutboxTypeOK, NEW d \in Dispatcher, work[d] # None, Deliver(d)
  PROVE  mails' \in [Message -> Nat] /\ blank' \subseteq Message
BY WorkIsItem DEF OutboxTypeOK, Deliver

LEMMA FaultType == OutboxTypeOK /\ (Fault \/ UNCHANGED faults) => faults' \in 0 .. MaxFaults
BY Bounds DEF OutboxTypeOK, Fault

LEMMA InitType == Init => TypeInv
BY Bounds DEF Init, TypeInv, OutboxTypeOK, OpenHasAttempts, WorkHasAttempts, Terminal

LEMMA TableType ==
  ASSUME TypeInv, NEW m \in Message, Enqueue(m) \/ Suppress(m) \/ ComesDue(m)
  PROVE  TypeInv'
<1>1. CASE Enqueue(m)
  BY <1>1 DEF Enqueue, TypeInv, OutboxTypeOK, OpenHasAttempts, WorkHasAttempts, Terminal
<1>2. CASE Suppress(m)
  BY <1>2 DEF Suppress, rows, TypeInv, OutboxTypeOK, OpenHasAttempts, WorkHasAttempts
<1>3. CASE ComesDue(m)
  <2>1. faults' \in 0 .. MaxFaults
    BY <1>3, FaultType DEF ComesDue, TypeInv
  <2>2. QED
    BY <1>3, <2>1 DEF ComesDue, TypeInv, OutboxTypeOK, OpenHasAttempts, WorkHasAttempts
<1>4. QED
  BY <1>1, <1>2, <1>3

LEMMA ClaimType ==
  ASSUME TypeInv, NEW d \in Dispatcher, ClaimDue(d)
  PROVE  TypeInv'
<1>1. PICK S \in Batches : Claim(d, S) /\ due' = [m \in Message |-> due[m] /\ m \notin S]
  BY DEF ClaimDue
<1>2. S \subseteq Message /\ \A m \in S : status[m] \in {"QUEUED", "SENDING"}
  BY DEF Batches, Due
<1>3. OutboxTypeOK'
  BY <1>1, <1>2 DEF Claim, TypeInv, OutboxTypeOK
<1>4. OpenHasAttempts' /\ WorkHasAttempts'
  BY <1>1, <1>2 DEF Claim, TypeInv, OutboxTypeOK, OpenHasAttempts, WorkHasAttempts, Terminal
<1>5. QED
  BY <1>3, <1>4 DEF TypeInv

(* What a dispatcher reads of a message.                                   *)
LEMMA ReadItem ==
  ASSUME OutboxTypeOK, NEW m \in Message
  PROVE  [msg |-> m, attempts |-> attempts[m], blank |-> redacted[m],
          step |-> IF m \in suppressed THEN "SUPPRESSED" ELSE Fate[m]] \in Item
BY OutboxAssumption DEF OutboxAssumption, OutboxTypeOK, Item

LEMMA ReadType ==
  ASSUME TypeInv, NEW d \in Dispatcher, NEW m \in batch[d], Read(d, m)
  PROVE  TypeInv'
<1> DEFINE item == [msg |-> m, attempts |-> attempts[m], blank |-> redacted[m],
                    step |-> IF m \in suppressed THEN "SUPPRESSED" ELSE Fate[m]]
<1>1. m \in Message /\ item \in Item
  BY ReadItem DEF TypeInv, OutboxTypeOK
<1>2. work' = work \/ (status[m] \notin Terminal /\ work' = [work EXCEPT ![d] = item])
  BY DEF Read
<1>3. item.attempts = attempts[m]
  OBVIOUS
<1> HIDE DEF item
<1>4. OutboxTypeOK'
  BY <1>1, <1>2 DEF Read, rows, TypeInv, OutboxTypeOK
<1>5. OpenHasAttempts' /\ WorkHasAttempts'
  BY <1>1, <1>2, <1>3 DEF Read, rows, TypeInv, OutboxTypeOK, OpenHasAttempts, WorkHasAttempts
<1>6. QED
  BY <1>4, <1>5 DEF TypeInv

LEMMA SettleType ==
  ASSUME TypeInv, NEW d \in Dispatcher, Refuse(d) \/ SendSucceeds(d) \/ SendRefused(d) \/ SendFails(d)
  PROVE  TypeInv'
<1>1. work[d] # None /\ work[d].msg \in Message /\ OutboxTypeOK
  BY WorkIsItem DEF Refuse, SendSucceeds, SendRefused, SendFails, Doing, TypeInv
<1>2. work[d].attempts + 1 \in 0 .. MaxAttempts
  BY <1>1, WorkIsItem, Bounds DEF TypeInv, WorkHasAttempts
<1>3. /\ mails' \in [Message -> Nat] /\ blank' \subseteq Message
      /\ faults' \in 0 .. MaxFaults
  BY <1>1, DeliverType, FaultType DEF Refuse, SendSucceeds, SendRefused, SendFails, OutboxTypeOK
<1>4. CASE Refuse(d)
  <2>1. attempts[work[d].msg] \in 0 .. MaxAttempts
    BY <1>1 DEF OutboxTypeOK
  <2>2. QED
    BY <1>1, <1>3, <1>4, <2>1, SetType DEF Refuse, Terminal
<1>5. CASE SendSucceeds(d) \/ SendRefused(d)
  BY <1>1, <1>2, <1>3, <1>5, SetType DEF SendSucceeds, SendRefused, Terminal
<1>6. CASE SendFails(d)
  BY <1>1, <1>2, <1>3, <1>6, SetType, Bounds DEF SendFails, AfterTransient, Terminal
<1>7. QED
  BY <1>4, <1>5, <1>6

LEMMA ErrsType ==
  ASSUME TypeInv, NEW d \in Dispatcher, DispatchErrs(d)
  PROVE  TypeInv'
<1>1. /\ mails' \in [Message -> Nat] /\ blank' \subseteq Message
      /\ faults' \in 0 .. MaxFaults
  BY DeliverType, FaultType DEF DispatchErrs, Doing, TypeInv, OutboxTypeOK
<1>2. QED
  BY <1>1 DEF DispatchErrs, rows, TypeInv, OutboxTypeOK, OpenHasAttempts, WorkHasAttempts

LEMMA TypeStep == TypeInv /\ [Next]_vars => TypeInv'
<1>1. TypeInv /\ UNCHANGED vars => TypeInv'
  BY DEF vars, rows, TypeInv, OutboxTypeOK, OpenHasAttempts, WorkHasAttempts
<1>2. QED
  BY <1>1, TableType, ClaimType, ReadType, SettleType, ErrsType DEF Next, Dispatching

LEMMA TypeAlways == Spec => []TypeInv
BY InitType, TypeStep, PTL DEF Spec

(* Every column and every claim keeps its type: no message is ever tried   *)
(* more than MaxAttempts times, whichever dispatchers work on it.          *)
THEOREM OutboxTypeCorrect == Spec => []OutboxTypeOK
<1>1. TypeInv => OutboxTypeOK
  BY DEF TypeInv
<1>2. QED
  BY <1>1, TypeAlways, PTL

-----------------------------------------------------------------------------
(* Redaction.  The write that ends a message redacts it in the same        *)
(* statement, and no other write takes the redaction back.                 *)

RedactedInv == TypeInv /\ DoneIsRedacted

LEMMA RedactedStep == RedactedInv /\ [Next]_vars => RedactedInv'
<1> SUFFICES ASSUME RedactedInv, [Next]_vars
             PROVE  DoneIsRedacted'
  BY TypeStep DEF RedactedInv
<1>1. ASSUME NEW d \in Dispatcher, NEW state, NEW count, work[d] # None, Set(d, state, count)
      PROVE  DoneIsRedacted'
  BY <1>1, SetRows DEF RedactedInv, TypeInv, DoneIsRedacted, Terminal
<1>2. ASSUME NEW d \in Dispatcher, Refuse(d) \/ SendSucceeds(d) \/ SendRefused(d) \/ SendFails(d)
      PROVE  DoneIsRedacted'
  BY <1>1, <1>2 DEF Refuse, SendSucceeds, SendRefused, SendFails, Doing
<1>3. ASSUME NEW d \in Dispatcher, ClaimDue(d)
      PROVE  DoneIsRedacted'
  BY <1>3 DEF ClaimDue, Claim, RedactedInv, DoneIsRedacted
<1>4. ASSUME NEW d \in Dispatcher, DispatchErrs(d) \/ \E m \in batch[d] : Read(d, m)
      PROVE  DoneIsRedacted'
  BY <1>4 DEF DispatchErrs, Read, rows, RedactedInv, DoneIsRedacted
<1>5. ASSUME NEW m \in Message, Enqueue(m)
      PROVE  DoneIsRedacted'
  BY <1>5 DEF Enqueue, RedactedInv, TypeInv, OutboxTypeOK, DoneIsRedacted
<1>6. ASSUME NEW m \in Message, Suppress(m) \/ ComesDue(m)
      PROVE  DoneIsRedacted'
  BY <1>6 DEF Suppress, ComesDue, rows, RedactedInv, DoneIsRedacted
<1>7. CASE UNCHANGED vars
  BY <1>7 DEF vars, rows, RedactedInv, DoneIsRedacted
<1>8. QED
  BY <1>2, <1>3, <1>4, <1>5, <1>6, <1>7 DEF Next, Dispatching

(* No message that was sent, suppressed or canceled keeps a credential,    *)
(* for any number of dispatchers, batches and faults.                      *)
THEOREM DoneIsRedactedAlways == Spec => []DoneIsRedacted
<1>1. Init => RedactedInv
  BY InitType DEF Init, RedactedInv, DoneIsRedacted
<1>2. RedactedInv => DoneIsRedacted
  BY DEF RedactedInv
<1>3. QED
  BY <1>1, <1>2, RedactedStep, PTL DEF Spec

-----------------------------------------------------------------------------
(* Who holds a message.  A dispatcher never holds one twice, and until a   *)
(* lease is overrun what it holds is leased, so nobody else may claim it.  *)

HoldsOnce == \A d \in Dispatcher : work[d] # None => work[d].msg \notin batch[d]

HeldIsLeased == faults = 0 =>
  \A d \in Dispatcher : \A m \in Message : Working(d, m) => status[m] = "SENDING" /\ ~due[m]

HoldInv == TypeInv /\ HoldsOnce /\ HeldIsLeased /\ OneDispatcherPerMessage

LEMMA NoFaultBefore == OutboxTypeOK /\ [Next]_vars /\ faults' = 0 => faults = 0 /\ ~Fault
BY Bounds
   DEF OutboxTypeOK, Next, Dispatching, Enqueue, Suppress, ComesDue, ClaimDue, Claim, Read, Refuse,
       SendSucceeds, SendRefused, SendFails, DispatchErrs, Fault, vars

LEMMA HoldStep == HoldInv /\ [Next]_vars => HoldInv'
<1> SUFFICES ASSUME HoldInv, [Next]_vars
             PROVE  HoldsOnce' /\ HeldIsLeased' /\ OneDispatcherPerMessage'
  BY TypeStep DEF HoldInv
<1>0. faults' = 0 => faults = 0 /\ ~Fault
  BY NoFaultBefore DEF HoldInv, TypeInv
<1>1. ASSUME NEW d \in Dispatcher, NEW state, NEW count, work[d] # None, Set(d, state, count)
      PROVE  HoldsOnce' /\ HeldIsLeased' /\ OneDispatcherPerMessage'
  <2>1. work[d].msg \in Message
    BY <1>1, WorkIsItem DEF HoldInv, TypeInv
  <2>2. /\ \A e \in Dispatcher \ {d} : work'[e] = work[e]
        /\ work'[d] = None /\ batch' = batch
        /\ \A m \in Message \ {work[d].msg} : status'[m] = status[m] /\ due'[m] = due[m]
    BY <1>1, SetRows DEF HoldInv, TypeInv
  <2>3. \A e \in Dispatcher : \A m \in Message :
          Working(e, m)' => Working(e, m) /\ ~(e = d /\ m = work[d].msg)
    BY <1>1, <2>2 DEF Working, HoldInv, HoldsOnce
  <2>4. HoldsOnce'
    BY <2>2 DEF HoldInv, HoldsOnce
  <2>5. faults = 0 => \A e \in Dispatcher : \A m \in Message : Working(e, m)' => m # work[d].msg
    BY <1>1, <2>1, <2>3 DEF HoldInv, OneDispatcherPerMessage, Working
  <2>6. QED
    BY <1>0, <2>2, <2>3, <2>4, <2>5 DEF HoldInv, HeldIsLeased, OneDispatcherPerMessage
<1>2. ASSUME NEW d \in Dispatcher, Refuse(d) \/ SendSucceeds(d) \/ SendRefused(d) \/ SendFails(d)
      PROVE  HoldsOnce' /\ HeldIsLeased' /\ OneDispatcherPerMessage'
  BY <1>1, <1>2 DEF Refuse, SendSucceeds, SendRefused, SendFails, Doing
<1>3. ASSUME NEW d \in Dispatcher, ClaimDue(d)
      PROVE  HoldsOnce' /\ HeldIsLeased' /\ OneDispatcherPerMessage'
  <2>1. PICK S \in Batches : Claim(d, S) /\ due' = [m \in Message |-> due[m] /\ m \notin S]
    BY <1>3 DEF ClaimDue
  <2>2. S \subseteq Message /\ \A m \in S : due[m]
    BY DEF Batches, Due
  <2>3. /\ work[d] = None /\ work' = work /\ faults' = faults
        /\ batch'[d] = S /\ \A e \in Dispatcher \ {d} : batch'[e] = batch[e]
        /\ \A m \in Message : status'[m] = (IF m \in S THEN "SENDING" ELSE status[m]) /\ due'[m] = (due[m] /\ m \notin S)
    BY <2>1 DEF Claim, HoldInv, TypeInv, OutboxTypeOK
  <2>4. \A e \in Dispatcher : \A m \in Message :
          Working(e, m)' => (e = d /\ m \in S) \/ (e # d /\ Working(e, m))
    BY <2>3 DEF Working
  <2>5. HoldsOnce'
    BY <2>3 DEF HoldInv, HoldsOnce
  <2>6. HeldIsLeased'
    BY <2>3, <2>4 DEF HoldInv, HeldIsLeased
  <2>7. OneDispatcherPerMessage'
    BY <2>2, <2>3, <2>4 DEF HoldInv, HeldIsLeased, OneDispatcherPerMessage
  <2>8. QED
    BY <2>5, <2>6, <2>7
<1>4. ASSUME NEW d \in Dispatcher, NEW m \in batch[d], Read(d, m)
      PROVE  HoldsOnce' /\ HeldIsLeased' /\ OneDispatcherPerMessage'
  <2>1. /\ batch'[d] = batch[d] \ {m} /\ work[d] = None
        /\ work'[d] # None => work'[d].msg = m
        /\ \A e \in Dispatcher \ {d} : batch'[e] = batch[e] /\ work'[e] = work[e]
        /\ UNCHANGED <<status, due, faults>>
    BY <1>4 DEF Read, rows, HoldInv, TypeInv, OutboxTypeOK
  <2>2. \A e \in Dispatcher : \A n \in Message : Working(e, n)' => Working(e, n)
    BY <2>1 DEF Working
  <2>3. QED
    BY <2>1, <2>2 DEF HoldInv, HoldsOnce, HeldIsLeased, OneDispatcherPerMessage
<1>5. ASSUME NEW d \in Dispatcher, DispatchErrs(d)
      PROVE  HoldsOnce' /\ HeldIsLeased' /\ OneDispatcherPerMessage'
  <2>1. faults' # 0
    BY <1>0, <1>5 DEF DispatchErrs
  <2>2. HoldsOnce'
    BY <1>5 DEF DispatchErrs, HoldInv, TypeInv, OutboxTypeOK, HoldsOnce
  <2>3. QED
    BY <2>1, <2>2 DEF HeldIsLeased, OneDispatcherPerMessage
<1>6. ASSUME NEW m \in Message, Enqueue(m) \/ Suppress(m)
      PROVE  HoldsOnce' /\ HeldIsLeased' /\ OneDispatcherPerMessage'
  BY <1>6 DEF Enqueue, Suppress, rows, HoldInv, TypeInv, OutboxTypeOK, HoldsOnce, HeldIsLeased,
              OneDispatcherPerMessage, Working
<1>7. ASSUME NEW m \in Message, ComesDue(m)
      PROVE  HoldsOnce' /\ HeldIsLeased' /\ OneDispatcherPerMessage'
  <2>1. faults' = 0 => ~\E d \in Dispatcher : Working(d, m)
    BY <1>0, <1>7 DEF ComesDue, HoldInv, HeldIsLeased
  <2>2. QED
    BY <1>0, <1>7, <2>1
       DEF ComesDue, HoldInv, TypeInv, OutboxTypeOK, HoldsOnce, HeldIsLeased, OneDispatcherPerMessage, Working
<1>8. CASE UNCHANGED vars
  BY <1>8 DEF vars, rows, HoldInv, HoldsOnce, HeldIsLeased, OneDispatcherPerMessage, Working
<1>9. QED
  BY <1>2, <1>3, <1>4, <1>5, <1>6, <1>7, <1>8 DEF Next, Dispatching

LEMMA HoldInit == Init => HoldInv
BY InitType DEF Init, HoldInv, HoldsOnce, HeldIsLeased, OneDispatcherPerMessage, Working

(* Until a lease is overrun or a dispatcher fails, no message is in the    *)
(* hands of two dispatchers, however many there are.                       *)
THEOREM OneDispatcherPerMessageAlways == Spec => []OneDispatcherPerMessage
<1>1. HoldInv => OneDispatcherPerMessage
  BY DEF HoldInv
<1>2. QED
  BY <1>1, HoldInit, HoldStep, PTL DEF Spec

-----------------------------------------------------------------------------
(* Duplicates.  Emails that went out, dispatchers that may still send one, *)
(* and the chance that a message can be claimed once more, together never  *)
(* exceed one more than the faults: every step trades one for another or   *)
(* pays with a fault.                                                      *)

Holders(m) == {d \in Dispatcher : Working(d, m)}

Claimable(m) ==
  \/ status[m] \in {"NONE", "QUEUED"}
  \/ status[m] = "SENDING" /\ (due[m] \/ Holders(m) = {})

WithinBudget(m) ==
  mails[m] + Cardinality(Holders(m)) + (IF Claimable(m) THEN 1 ELSE 0) <= 1 + faults

CountInv == TypeInv /\ HoldsOnce /\ \A m \in Message : WithinBudget(m)

LEMMA CountHolders ==
  ASSUME NEW S \in SUBSET Dispatcher, NEW d \in Dispatcher
  PROVE  /\ Cardinality(S) \in Nat
         /\ d \in S => Cardinality(S \ {d}) = Cardinality(S) - 1
         /\ d \notin S => Cardinality(S \cup {d}) = Cardinality(S) + 1
<1>1. IsFiniteSet(S)
  BY Bounds, FS_Subset
<1>2. QED
  BY <1>1, FS_CardinalityType, FS_AddElement, FS_RemoveElement

LEMMA HoldersAreDispatchers == \A m : Holders(m) \in SUBSET Dispatcher /\ Holders(m)' \in SUBSET Dispatcher
BY DEF Holders

LEMMA Numbers == OutboxTypeOK => faults \in Nat /\ \A m \in Message : mails[m] \in Nat
BY Bounds DEF OutboxTypeOK

(* A message in the same hands, that can be claimed only if it could.      *)
LEMMA SameHands ==
  ASSUME OutboxTypeOK, OutboxTypeOK', NEW m \in Message, WithinBudget(m), Holders(m)' = Holders(m),
         mails'[m] = mails[m], faults' >= faults, Claimable(m)' => Claimable(m) \/ faults' = faults + 1
  PROVE  WithinBudget(m)'
<1>1. Cardinality(Holders(m)) \in Nat
  BY Bounds, HoldersAreDispatchers, FS_Subset, FS_CardinalityType
<1>2. faults \in Nat /\ faults' \in Nat /\ mails[m] \in Nat
  BY Numbers DEF OutboxTypeOK
<1>3. QED
  BY <1>1, <1>2 DEF WithinBudget

(* A message that one dispatcher lets go, after it may have sent it.       *)
LEMMA OneLetsGo ==
  ASSUME OutboxTypeOK, OutboxTypeOK', NEW m \in Message, WithinBudget(m),
         NEW d \in Holders(m), Holders(m)' = Holders(m) \ {d},
         \/ mails'[m] = mails[m] /\ faults' >= faults
         \/ mails'[m] = mails[m] + 1 /\ faults' >= faults /\ (Claimable(m)' => faults' = faults + 1)
  PROVE  WithinBudget(m)'
<1> DEFINE h == Cardinality(Holders(m))
<1>1. h \in Nat /\ Cardinality(Holders(m)') = h - 1
  BY HoldersAreDispatchers, CountHolders
<1>2. faults \in Nat /\ faults' \in Nat /\ mails[m] \in Nat
  BY Numbers DEF OutboxTypeOK
<1>3. mails[m] + h + (IF Claimable(m) THEN 1 ELSE 0) <= 1 + faults
  BY DEF WithinBudget
<1> HIDE DEF h
<1>4. mails'[m] + (h - 1) + (IF Claimable(m)' THEN 1 ELSE 0) <= 1 + faults'
  BY <1>1, <1>2, <1>3
<1>5. QED
  BY <1>1, <1>4 DEF WithinBudget

(* A message that can be claimed, claimed.                                 *)
LEMMA OneClaims ==
  ASSUME OutboxTypeOK, NEW m \in Message, WithinBudget(m), Claimable(m),
         NEW d \in Dispatcher \ Holders(m), Holders(m)' = Holders(m) \cup {d},
         UNCHANGED <<mails, faults>>, ~Claimable(m)'
  PROVE  WithinBudget(m)'
<1> DEFINE h == Cardinality(Holders(m))
<1>1. h \in Nat /\ Cardinality(Holders(m)') = h + 1
  BY HoldersAreDispatchers, CountHolders
<1>2. faults \in Nat /\ mails[m] \in Nat
  BY Numbers
<1>3. mails[m] + h + 1 <= 1 + faults
  BY DEF WithinBudget
<1> HIDE DEF h
<1>4. mails[m] + (h + 1) + 0 <= 1 + faults
  BY <1>1, <1>2, <1>3
<1>5. QED
  BY <1>1, <1>4 DEF WithinBudget

(* A write that ends the work on a message.                                *)
LEMMA SettleCounts ==
  ASSUME CountInv, OutboxTypeOK', NEW d \in Dispatcher, NEW state, NEW count, work[d] # None, Set(d, state, count),
         \/ UNCHANGED <<mails, blank, faults>>
         \/ Deliver(d) /\ (faults' = faults + 1 \/ (faults' = faults /\ state \in Terminal))
  PROVE  \A m \in Message : WithinBudget(m)'
<1>1. PICK m \in Message : m = work[d].msg
  BY WorkIsItem DEF CountInv, TypeInv
<1>2. /\ status'[m] = state
      /\ \A n \in Message \ {m} : status'[n] = status[n] /\ due'[n] = due[n]
      /\ work'[d] = None /\ batch' = batch
      /\ \A e \in Dispatcher \ {d} : work'[e] = work[e]
  BY <1>1, SetRows DEF CountInv, TypeInv
<1>3. d \in Holders(m) /\ m \notin batch[d]
  BY <1>1 DEF Holders, Working, CountInv, HoldsOnce
<1>4. Holders(m)' = Holders(m) \ {d}
  BY <1>2, <1>3 DEF Holders, Working
<1>5. \A n \in Message \ {m} : Holders(n)' = Holders(n)
  BY <1>1, <1>2 DEF Holders, Working
<1>6. faults' >= faults /\ \A n \in Message \ {m} : mails'[n] = mails[n]
  BY <1>1, Numbers DEF Deliver, CountInv, TypeInv, OutboxTypeOK
<1>7. ASSUME NEW n \in Message \ {m}
      PROVE  WithinBudget(n)'
  BY <1>2, <1>5, <1>6, SameHands DEF Claimable, CountInv, TypeInv
<1>8. mails'[m] = mails[m] \/ (mails'[m] = mails[m] + 1 /\ (Claimable(m)' => faults' = faults + 1))
  BY <1>1, <1>2 DEF Deliver, Claimable, Terminal, CountInv, TypeInv, OutboxTypeOK
<1>9. WithinBudget(m)'
  BY <1>3, <1>4, <1>6, <1>8, OneLetsGo DEF CountInv, TypeInv
<1>10. QED
  BY <1>7, <1>9

LEMMA ClaimCounts ==
  ASSUME CountInv, NEW d \in Dispatcher, ClaimDue(d), OutboxTypeOK'
  PROVE  \A m \in Message : WithinBudget(m)'
<1>1. PICK S \in Batches : Claim(d, S) /\ due' = [m \in Message |-> due[m] /\ m \notin S]
  BY DEF ClaimDue
<1>2. S \subseteq Message /\ \A m \in S : status[m] \in {"QUEUED", "SENDING"} /\ due[m]
  BY DEF Batches, Due
<1>3. /\ batch[d] = {} /\ work[d] = None /\ UNCHANGED <<work, mails, faults>>
      /\ batch'[d] = S /\ \A e \in Dispatcher \ {d} : batch'[e] = batch[e]
      /\ \A m \in Message : /\ status'[m] = IF m \in S THEN "SENDING" ELSE status[m]
                            /\ due'[m] = (due[m] /\ m \notin S)
  BY <1>1 DEF Claim, CountInv, TypeInv, OutboxTypeOK
<1>4. ASSUME NEW m \in S
      PROVE  WithinBudget(m)'
  <2>1. d \in Dispatcher \ Holders(m) /\ Holders(m)' = Holders(m) \cup {d}
    BY <1>3, <1>4 DEF Holders, Working
  <2>2. Claimable(m) /\ ~Claimable(m)'
    BY <1>2, <1>3, <1>4, <2>1 DEF Claimable
  <2>3. QED
    BY <1>2, <1>3, <1>4, <2>1, <2>2, OneClaims DEF CountInv, TypeInv
<1>5. ASSUME NEW m \in Message \ S
      PROVE  WithinBudget(m)'
  <2>1. Holders(m)' = Holders(m)
    BY <1>3 DEF Holders, Working
  <2>2. Claimable(m)' => Claimable(m)
    BY <1>3, <2>1 DEF Claimable
  <2>3. QED
    BY <1>3, <2>1, <2>2, SameHands, Numbers DEF CountInv, TypeInv
<1>6. QED
  BY <1>4, <1>5

LEMMA ReadCounts ==
  ASSUME CountInv, NEW d \in Dispatcher, NEW m \in batch[d], Read(d, m), OutboxTypeOK'
  PROVE  \A n \in Message : WithinBudget(n)'
<1>1. /\ m \in Message /\ work[d] = None
      /\ batch'[d] = batch[d] \ {m} /\ \A e \in Dispatcher \ {d} : batch'[e] = batch[e] /\ work'[e] = work[e]
      /\ UNCHANGED <<status, due, mails, faults>>
  BY DEF Read, rows, CountInv, TypeInv, OutboxTypeOK
<1>2. \/ status[m] \in Terminal /\ work'[d] = None
      \/ work'[d] # None /\ work'[d].msg = m
  BY <1>1, ItemIsNotNone, ReadItem DEF Read, CountInv, TypeInv, OutboxTypeOK
<1>3. ASSUME NEW n \in Message \ {m}
      PROVE  WithinBudget(n)'
  <2>1. Holders(n)' = Holders(n)
    BY <1>1, <1>2 DEF Holders, Working
  <2>2. QED
    BY <1>1, <2>1, SameHands, Numbers DEF Claimable, CountInv, TypeInv
<1>4. CASE work'[d] # None /\ work'[d].msg = m
  <2>1. Holders(m)' = Holders(m)
    BY <1>1, <1>4 DEF Holders, Working
  <2>2. WithinBudget(m)'
    BY <1>1, <2>1, SameHands, Numbers DEF Claimable, CountInv, TypeInv
  <2>3. QED
    BY <1>3, <2>2
<1>5. CASE status[m] \in Terminal /\ work'[d] = None
  <2>1. Holders(m)' = Holders(m) \ {d} /\ d \in Holders(m)
    BY <1>1, <1>5 DEF Holders, Working
  <2>2. WithinBudget(m)'
    BY <1>1, <2>1, OneLetsGo, Numbers DEF CountInv, TypeInv
  <2>3. QED
    BY <1>3, <2>2
<1>6. QED
  BY <1>2, <1>4, <1>5

LEMMA ErrsCounts ==
  ASSUME CountInv, NEW d \in Dispatcher, DispatchErrs(d), OutboxTypeOK'
  PROVE  \A n \in Message : WithinBudget(n)'
<1>1. PICK m \in Message : m = work[d].msg
  BY WorkIsItem DEF DispatchErrs, CountInv, TypeInv
<1>2. /\ work[d] # None /\ work'[d] = None
      /\ batch'[d] = batch[d] \/ batch'[d] = {}
      /\ \A e \in Dispatcher \ {d} : batch'[e] = batch[e] /\ work'[e] = work[e]
      /\ faults' = faults + 1 /\ UNCHANGED <<status, due>>
  BY DEF DispatchErrs, Fault, rows, CountInv, TypeInv, OutboxTypeOK
<1>3. /\ mails'[m] = mails[m] \/ mails'[m] = mails[m] + 1
      /\ \A n \in Message \ {m} : mails'[n] = mails[n]
  BY <1>1 DEF DispatchErrs, Deliver, CountInv, TypeInv, OutboxTypeOK
<1>4. faults' >= faults
  BY <1>2, Numbers DEF CountInv, TypeInv
<1>5. ASSUME NEW n \in Message
      PROVE  \/ Holders(n)' = Holders(n) /\ n # m
             \/ Holders(n)' = Holders(n) \ {d} /\ d \in Holders(n)
  <2>1. \A e \in Dispatcher \ {d} : Working(e, n)' <=> Working(e, n)
    BY <1>2 DEF Working
  <2>2. ~Working(d, n)' \/ (n # m /\ (Working(d, n)' <=> Working(d, n)))
    BY <1>1, <1>2 DEF Working, CountInv, HoldsOnce
  <2>3. n = m => Working(d, n)
    BY <1>1, <1>2 DEF Working
  <2>4. QED
    BY <2>1, <2>2, <2>3 DEF Holders
<1>6. ASSUME NEW n \in Message, Holders(n)' = Holders(n), n # m
      PROVE  WithinBudget(n)'
  BY <1>2, <1>3, <1>4, <1>6, SameHands DEF CountInv, TypeInv
<1>7. ASSUME NEW n \in Message, Holders(n)' = Holders(n) \ {d}, d \in Holders(n)
      PROVE  WithinBudget(n)'
  BY <1>2, <1>3, <1>4, <1>7, OneLetsGo DEF CountInv, TypeInv
<1>8. QED
  BY <1>5, <1>6, <1>7

LEMMA TableCounts ==
  ASSUME CountInv, NEW m \in Message, Enqueue(m) \/ Suppress(m) \/ ComesDue(m), OutboxTypeOK'
  PROVE  \A n \in Message : WithinBudget(n)'
<1>1. /\ \A n \in Message : Holders(n)' = Holders(n)
      /\ mails' = mails
  BY DEF Enqueue, Suppress, ComesDue, Holders, Working
<1>2. faults' >= faults
  BY Numbers DEF Enqueue, Suppress, ComesDue, Fault, CountInv, TypeInv
<1>3. \A n \in Message : Claimable(n)' => Claimable(n) \/ faults' = faults + 1
  BY <1>1 DEF Enqueue, Suppress, ComesDue, Fault, rows, Claimable, Holders, CountInv, TypeInv, OutboxTypeOK
<1>4. QED
  BY <1>1, <1>2, <1>3, SameHands DEF CountInv, TypeInv

(* Why a message is redacted, and why a dispatcher does what it does: an   *)
(* email without its links is of a message that went out, or that no       *)
(* dispatcher will ever send.                                              *)

RedactedHasReason ==
  \A m \in Message : redacted[m] => mails[m] >= 1 \/ m \in suppressed \/ Fate[m] = "CANCELED"

WorkHasReason ==
  \A d \in Dispatcher : work[d] # None =>
    /\ work[d].step = "SUPPRESSED" => work[d].msg \in suppressed
    /\ work[d].step = "CANCELED" => Fate[work[d].msg] = "CANCELED"
    /\ work[d].step = "SEND" /\ work[d].blank => mails[work[d].msg] >= 1

BlankIsNotFirst == \A m \in blank : mails[m] > 1

LinksInv == TypeInv /\ RedactedHasReason /\ WorkHasReason /\ BlankIsNotFirst

(* Emails only grow in number and addresses stay suppressed, so reasons    *)
(* remain: what is new must have one.                                      *)
LEMMA ReasonsRemain ==
  ASSUME LinksInv, OutboxTypeOK', suppressed \subseteq suppressed', \A m \in Message : mails'[m] >= mails[m],
         \A d \in Dispatcher : work'[d] # None => work'[d] = work[d]
  PROVE  /\ WorkHasReason'
         /\ \A m \in Message : redacted[m] => mails'[m] >= 1 \/ m \in suppressed' \/ Fate[m] = "CANCELED"
         /\ \A m \in blank : mails'[m] > 1
<1>1. \A m \in Message : mails[m] \in Nat /\ mails'[m] \in Nat
  BY DEF LinksInv, TypeInv, OutboxTypeOK
<1>2. \A d \in Dispatcher : work[d] # None => work[d].msg \in Message
  BY WorkIsItem DEF LinksInv, TypeInv
<1>3. blank \subseteq Message
  BY DEF LinksInv, TypeInv, OutboxTypeOK
<1>4. WorkHasReason'
  BY <1>1, <1>2 DEF LinksInv, WorkHasReason
<1>5. QED
  BY <1>1, <1>3, <1>4 DEF LinksInv, RedactedHasReason, BlankIsNotFirst

LEMMA DeliverCounts ==
  ASSUME OutboxTypeOK, NEW d \in Dispatcher, NEW m \in Message, m = work[d].msg, Deliver(d)
  PROVE  /\ mails'[m] = mails[m] + 1 /\ \A n \in Message \ {m} : mails'[n] = mails[n]
         /\ blank' = IF work[d].blank THEN blank \cup {m} ELSE blank
BY DEF OutboxTypeOK, Deliver

LEMMA LinksSettle ==
  ASSUME LinksInv, TypeInv', NEW d \in Dispatcher, NEW state, NEW count, work[d] # None, Set(d, state, count),
         \/ UNCHANGED <<mails, blank>> /\ work[d].step = state
         \/ UNCHANGED <<mails, blank>> /\ state \in {"FAILED", "QUEUED"}
         \/ Deliver(d) /\ work[d].step = "SEND"
  PROVE  LinksInv'
<1>1. PICK m \in Message : m = work[d].msg
  BY WorkIsItem DEF LinksInv, TypeInv
<1>2. /\ redacted'[m] = (redacted[m] \/ state \in Terminal \ {"FAILED"})
      /\ \A n \in Message \ {m} : redacted'[n] = redacted[n]
      /\ work'[d] = None /\ \A e \in Dispatcher \ {d} : work'[e] = work[e]
      /\ UNCHANGED <<suppressed, batch>>
  BY <1>1, SetRows DEF LinksInv, TypeInv
<1>3. /\ \A n \in Message : mails'[n] >= mails[n] /\ mails[n] \in Nat
      /\ \/ UNCHANGED <<mails, blank>> /\ (work[d].step = state \/ state \in {"FAILED", "QUEUED"})
         \/ /\ mails'[m] = mails[m] + 1
            /\ blank' = IF work[d].blank THEN blank \cup {m} ELSE blank
            /\ work[d].step = "SEND"
  BY <1>1, Numbers, DeliverCounts DEF LinksInv, TypeInv
<1>4. /\ WorkHasReason'
      /\ \A n \in Message : redacted[n] => mails'[n] >= 1 \/ n \in suppressed' \/ Fate[n] = "CANCELED"
      /\ \A n \in blank : mails'[n] > 1
  BY <1>2, <1>3, ReasonsRemain DEF TypeInv
<1>5. state \in Terminal \ {"FAILED"} => mails'[m] >= 1 \/ m \in suppressed' \/ Fate[m] = "CANCELED"
  <2>1. CASE UNCHANGED <<mails, blank>> /\ (work[d].step = state \/ state \in {"FAILED", "QUEUED"})
    <3>1. work[d].step \in {"SEND", "SUPPRESSED", "CANCELED", "FAILED"}
      BY WorkIsItem DEF Item, LinksInv, TypeInv
    <3>2. QED
      BY <1>1, <1>2, <2>1, <3>1 DEF Terminal, LinksInv, WorkHasReason
  <2>2. CASE mails'[m] = mails[m] + 1
    BY <1>3, <2>2
  <2>3. QED
    BY <1>3, <2>1, <2>2
<1>6. RedactedHasReason'
  BY <1>2, <1>4, <1>5 DEF RedactedHasReason
<1>7. BlankIsNotFirst'
  <2>1. work[d].step = "SEND" /\ work[d].blank => mails[m] >= 1
    BY <1>1 DEF LinksInv, WorkHasReason
  <2>2. QED
    BY <1>3, <1>4, <2>1 DEF BlankIsNotFirst
<1>8. QED
  BY <1>4, <1>6, <1>7 DEF LinksInv

LEMMA LinksStep == LinksInv /\ [Next]_vars => LinksInv'
<1> SUFFICES ASSUME LinksInv, [Next]_vars
             PROVE  LinksInv'
  OBVIOUS
<1>1. TypeInv' /\ OutboxTypeOK' /\ \A m \in Message : mails[m] \in Nat
  BY TypeStep, Numbers DEF LinksInv, TypeInv
<1>2. ASSUME NEW d \in Dispatcher, Refuse(d) \/ SendSucceeds(d) \/ SendRefused(d) \/ SendFails(d)
      PROVE  LinksInv'
  BY <1>1, <1>2, LinksSettle DEF Refuse, SendSucceeds, SendRefused, SendFails, AfterTransient, Doing
<1>3. ASSUME UNCHANGED <<redacted, mails, blank>>, suppressed \subseteq suppressed',
             \A d \in Dispatcher : work'[d] # None => work'[d] = work[d]
      PROVE  LinksInv'
  BY <1>1, <1>3, ReasonsRemain DEF LinksInv, RedactedHasReason, BlankIsNotFirst
<1>4. ASSUME NEW d \in Dispatcher, ClaimDue(d)
      PROVE  LinksInv'
  BY <1>3, <1>4 DEF ClaimDue, Claim
<1>5. ASSUME NEW d \in Dispatcher, NEW m \in batch[d], Read(d, m)
      PROVE  LinksInv'
  <2>1. m \in Message /\ UNCHANGED <<redacted, suppressed, mails, blank>>
    BY <1>5 DEF Read, rows, LinksInv, TypeInv, OutboxTypeOK
  <2>2. work' = work \/ work' = [work EXCEPT ![d] =
          [msg |-> m, attempts |-> attempts[m], blank |-> redacted[m],
           step |-> IF m \in suppressed THEN "SUPPRESSED" ELSE Fate[m]]]
    BY <1>5 DEF Read
  <2>3. redacted[m] => mails[m] >= 1 \/ m \in suppressed \/ Fate[m] = "CANCELED"
    BY <2>1 DEF LinksInv, RedactedHasReason
  <2>4. Fate[m] \in {"SEND", "CANCELED", "FAILED"}
    BY <2>1, OutboxAssumption DEF OutboxAssumption
  <2>5. WorkHasReason'
    BY <2>1, <2>2, <2>3, <2>4 DEF LinksInv, TypeInv, OutboxTypeOK, WorkHasReason
  <2>6. QED
    BY <1>1, <2>1, <2>5 DEF LinksInv, RedactedHasReason, BlankIsNotFirst
<1>6. ASSUME NEW d \in Dispatcher, DispatchErrs(d)
      PROVE  LinksInv'
  <2>1. /\ work[d] # None /\ UNCHANGED <<redacted, suppressed>>
        /\ \A e \in Dispatcher : work'[e] # None => work'[e] = work[e]
        /\ (Doing(d, "SEND") /\ Deliver(d)) \/ UNCHANGED <<mails, blank>>
    BY <1>6 DEF DispatchErrs, rows, LinksInv, TypeInv, OutboxTypeOK
  <2>2. CASE UNCHANGED <<mails, blank>>
    BY <1>3, <2>1, <2>2
  <2>3. CASE Doing(d, "SEND") /\ Deliver(d)
    <3>1. PICK m \in Message : m = work[d].msg
      BY <2>1, WorkIsItem DEF LinksInv, TypeInv
    <3>2. /\ mails'[m] = mails[m] + 1 /\ \A n \in Message \ {m} : mails'[n] = mails[n]
          /\ blank' = IF work[d].blank THEN blank \cup {m} ELSE blank
      BY <2>3, <3>1, DeliverCounts DEF LinksInv, TypeInv
    <3>3. \A n \in Message : mails'[n] >= mails[n]
      BY <1>1, <3>2
    <3>4. /\ WorkHasReason'
          /\ \A n \in Message : redacted[n] => mails'[n] >= 1 \/ n \in suppressed' \/ Fate[n] = "CANCELED"
          /\ \A n \in blank : mails'[n] > 1
      BY <1>1, <2>1, <3>3, ReasonsRemain
    <3>5. work[d].blank => mails[m] >= 1
      BY <2>1, <2>3, <3>1 DEF Doing, LinksInv, WorkHasReason
    <3>6. BlankIsNotFirst'
      BY <1>1, <3>2, <3>4, <3>5 DEF BlankIsNotFirst
    <3>7. QED
      BY <1>1, <2>1, <3>4, <3>6 DEF LinksInv, RedactedHasReason
  <2>4. QED
    BY <2>1, <2>2, <2>3
<1>7. ASSUME NEW m \in Message, Enqueue(m) \/ Suppress(m) \/ ComesDue(m)
      PROVE  LinksInv'
  BY <1>3, <1>7 DEF Enqueue, Suppress, ComesDue, rows
<1>8. CASE UNCHANGED vars
  BY <1>3, <1>8 DEF vars, rows
<1>9. QED
  BY <1>2, <1>4, <1>5, <1>6, <1>7, <1>8 DEF Next, Dispatching

-----------------------------------------------------------------------------

DuplicatesInv == CountInv /\ HoldInv /\ LinksInv

LEMMA DuplicatesInit == Init => DuplicatesInv
<1> SUFFICES ASSUME Init
             PROVE  CountInv /\ LinksInv
  BY HoldInit DEF DuplicatesInv
<1>1. TypeInv /\ HoldsOnce
  BY InitType, HoldInit DEF HoldInv
<1>2. \A m \in Message : Holders(m) = {}
  BY DEF Init, Holders, Working
<1>3. \A m \in Message : WithinBudget(m)
  BY <1>2, FS_EmptySet DEF Init, WithinBudget
<1>4. QED
  BY <1>1, <1>3 DEF Init, CountInv, LinksInv, RedactedHasReason, WorkHasReason, BlankIsNotFirst

LEMMA DuplicatesStep == DuplicatesInv /\ [Next]_vars => DuplicatesInv'
<1> SUFFICES ASSUME DuplicatesInv, [Next]_vars
             PROVE  \A m \in Message : WithinBudget(m)'
  BY HoldStep, LinksStep DEF DuplicatesInv, CountInv, HoldInv
<1>1. CountInv /\ TypeInv' /\ OutboxTypeOK' /\ OutboxTypeOK
  BY TypeStep DEF DuplicatesInv, CountInv, TypeInv
<1>2. ASSUME NEW d \in Dispatcher, Refuse(d) \/ SendSucceeds(d) \/ SendRefused(d) \/ SendFails(d)
      PROVE  \A m \in Message : WithinBudget(m)'
  BY <1>1, <1>2, SettleCounts DEF Refuse, SendSucceeds, SendRefused, SendFails, Fault, Terminal, Doing
<1>3. ASSUME NEW d \in Dispatcher, ClaimDue(d) \/ DispatchErrs(d) \/ \E m \in batch[d] : Read(d, m)
      PROVE  \A m \in Message : WithinBudget(m)'
  BY <1>1, <1>3, ClaimCounts, ReadCounts, ErrsCounts
<1>4. ASSUME NEW m \in Message, Enqueue(m) \/ Suppress(m) \/ ComesDue(m)
      PROVE  \A n \in Message : WithinBudget(n)'
  BY <1>1, <1>4, TableCounts
<1>5. CASE UNCHANGED vars
  BY <1>1, <1>5 DEF vars, rows, CountInv, WithinBudget, Holders, Working, Claimable
<1>6. QED
  BY <1>2, <1>3, <1>4, <1>5 DEF Next, Dispatching

(* Nobody gets a message once more without a fault that caused it, and an  *)
(* email without its links is never the first: for any number of messages, *)
(* dispatchers and faults, and any batches.                                *)
THEOREM EveryDuplicateHasACauseAlways == Spec => []EveryDuplicateHasACause
<1>1. ASSUME DuplicatesInv
      PROVE  EveryDuplicateHasACause
  <2>1. ASSUME NEW m \in Message
        PROVE  mails[m] <= 1 + faults
    <3>1. Cardinality(Holders(m)) \in Nat /\ faults \in Nat /\ mails[m] \in Nat
      BY <1>1, Numbers, Bounds, HoldersAreDispatchers, FS_Subset, FS_CardinalityType
         DEF DuplicatesInv, CountInv, TypeInv
    <3>2. WithinBudget(m)
      BY <1>1 DEF DuplicatesInv, CountInv
    <3>3. QED
      BY <3>1, <3>2 DEF WithinBudget
  <2>2. \A m \in blank : mails[m] > 1
    BY <1>1 DEF DuplicatesInv, LinksInv, BlankIsNotFirst
  <2>3. QED
    BY <2>1, <2>2, Zenon DEF EveryDuplicateHasACause
<1>2. QED
  BY <1>1, DuplicatesInit, DuplicatesStep, PTL DEF Spec

=============================================================================

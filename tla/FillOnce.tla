------------------------------ MODULE FillOnce ------------------------------
(***************************************************************************)
(* What filling a form promises, run by run.  At most one run works on an  *)
(* application.  A field is written only after it was let go, one at a     *)
(* time, and it is confirmed before the next one; what was let go may      *)
(* still be written when its run has ended, once.  A run is filled when    *)
(* every field is confirmed.  No run works again, and one that is filled   *)
(* can only become void.                                                   *)
(***************************************************************************)
EXTENDS Naturals

CONSTANTS
  Run, WsOf,   \* the runs, and the application of each
  Actions      \* how many fields there are to write

VARIABLES
  phase,       \* idle, working, filled, void, stopped
  form,        \* how many writes the form has seen
  record,      \* how many of them are confirmed
  out          \* a field is let go and not confirmed

vars == <<phase, form, record, out>>

Init ==
  /\ phase = [r \in Run |-> "idle"]
  /\ form = [r \in Run |-> 0]
  /\ record = [r \in Run |-> 0]
  /\ out = [r \in Run |-> FALSE]

GivenUp(S) ==
  [r \in Run |-> IF r \in S /\ phase[r] = "working" THEN "stopped"
                 ELSE IF r \in S /\ phase[r] = "filled" THEN "void"
                 ELSE phase[r]]

GiveUp(S) ==
  /\ phase' = GivenUp(S)
  /\ UNCHANGED <<form, record, out>>

(* Others may be given up to make room, in the same step.                  *)
Begin(r, S) ==
  /\ phase[r] = "idle"
  /\ \A s \in Run : WsOf[s] = WsOf[r] => GivenUp(S)[s] # "working"
  /\ phase' = [GivenUp(S) EXCEPT ![r] = "working"]
  /\ UNCHANGED <<form, record, out>>

LetGo(r) ==
  /\ phase[r] = "working" /\ record[r] < Actions
  /\ out' = [out EXCEPT ![r] = TRUE]
  /\ UNCHANGED <<phase, form, record>>

Write(r) ==
  /\ out[r] /\ form[r] = record[r]
  /\ form' = [form EXCEPT ![r] = @ + 1]
  /\ UNCHANGED <<phase, record, out>>

(* The page may turn out to be another one than expected.                  *)
Confirm(r) ==
  /\ phase[r] = "working" /\ out[r] /\ form[r] = record[r] + 1
  /\ record' = [record EXCEPT ![r] = @ + 1]
  /\ out' = [out EXCEPT ![r] = FALSE]
  /\ phase' \in {phase, GivenUp({r})}
  /\ UNCHANGED form

Finish(r) ==
  /\ phase[r] = "working" /\ record[r] = Actions /\ ~out[r]
  /\ phase' = [phase EXCEPT ![r] = "filled"]
  /\ UNCHANGED <<form, record, out>>

Next ==
  \/ \E r \in Run, S \in SUBSET Run : Begin(r, S)
  \/ \E S \in SUBSET Run : GiveUp(S)
  \/ \E r \in Run : LetGo(r) \/ Write(r) \/ Confirm(r) \/ Finish(r)

Spec == Init /\ [][Next]_vars
=============================================================================

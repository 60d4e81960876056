----------------------------- MODULE TokenFamily -----------------------------
(***************************************************************************)
(* What rotating refresh tokens promise.  A pairing code starts one family *)
(* of tokens.  Of a family one token works: the latest, which is a new one *)
(* and replaces the one before it for good.  A family that was ended never *)
(* lives again.                                                            *)
(***************************************************************************)
EXTENDS Naturals

CONSTANT Code

VARIABLES
  family,   \* of a code: unused, live, ended
  working,  \* the tokens of its family that were not replaced
  issued    \* how many tokens there have been, which number them

vars == <<family, working, issued>>

Init ==
  /\ family = [c \in Code |-> "unused"]
  /\ working = [c \in Code |-> {}]
  /\ issued = 0

Issue(c) ==
  /\ working' = [working EXCEPT ![c] = {issued + 1}]
  /\ issued' = issued + 1

Start(c) ==
  /\ family[c] = "unused"
  /\ family' = [family EXCEPT ![c] = "live"]
  /\ Issue(c)

(* Also when the family was ended meanwhile: no one accepts the new token. *)
Rotate(c) ==
  /\ family[c] # "unused"
  /\ Issue(c)
  /\ UNCHANGED family

End(c) ==
  /\ family[c] = "live"
  /\ family' = [family EXCEPT ![c] = "ended"]
  /\ UNCHANGED <<working, issued>>

Next == \E c \in Code : Start(c) \/ Rotate(c) \/ End(c)

Spec == Init /\ [][Next]_vars
=============================================================================

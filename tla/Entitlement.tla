----------------------------- MODULE Entitlement -----------------------------
(***************************************************************************)
(* What an account may rely on, of subscriptions that another party keeps. *)
(* A subscription is attempted, runs and ends, in this order.  The account *)
(* shows what it is or was, and what ended stays ended.  A first sight of  *)
(* one that is not over ends the attempts the account has left behind and  *)
(* has to wait while another one runs; nothing else ends one that runs     *)
(* than its own end.                                                       *)
(***************************************************************************)
EXTENDS Naturals

CONSTANT Sub

None == 0
Attempted == 1
Running == 2
Ended == 3

VARIABLES
  provider,  \* how far a subscription has come
  account    \* what the account shows of it

vars == <<provider, account>>

Init ==
  /\ provider = [s \in Sub |-> None]
  /\ account = [s \in Sub |-> None]

Advance(s) ==
  /\ \E g \in {Attempted, Running, Ended} : g > provider[s] /\ provider' = [provider EXCEPT ![s] = g]
  /\ UNCHANGED account

Enters(s, g) == account[s] = None /\ g # Ended

(* A late sight may show less than was shown before, but the end is last.  *)
Show(s, g) ==
  /\ account[s] # Ended
  /\ g # None /\ g <= provider[s]
  /\ Enters(s, g) => \A t \in Sub : account[t] # Running
  /\ account' = [t \in Sub |-> IF t = s THEN g
                               ELSE IF Enters(s, g) /\ account[t] = Attempted THEN Ended
                               ELSE account[t]]
  /\ UNCHANGED provider

Next == \E s \in Sub : Advance(s) \/ \E g \in {Attempted, Running, Ended} : Show(s, g)

Spec == Init /\ [][Next]_vars
=============================================================================

------------------------------- MODULE Budget -------------------------------
(***************************************************************************)
(* What counted allowances promise.  A charge takes its units, at most one *)
(* of each scope, at once and only once, and only while each of them has   *)
(* fewer units in use than its limit.  It settles once, as spent or as     *)
(* freed, and what was settled never changes again.                        *)
(***************************************************************************)
EXTENDS Naturals, FiniteSets

CONSTANTS Charge, Scope, Limit

VARIABLE unit   \* of a charge in a scope: none, reserved, spent or freed

Init == unit = [c \in Charge |-> [s \in Scope |-> "none"]]

Settled(S, as) ==
  [c \in Charge |-> [s \in Scope |-> IF c \in S /\ unit[c][s] = "reserved" THEN as ELSE unit[c][s]]]

(* The units that count once those of the charges S are freed.             *)
InUse(s, S) ==
  {c \in Charge : unit[c][s] = "spent" \/ (unit[c][s] = "reserved" /\ c \notin S)}

(* Reservations that have lapsed are freed first, in the same step.        *)
Reserve(c, T, S) ==
  /\ \A s \in Scope : unit[c][s] = "none"
  /\ \A s \in T : Cardinality(InUse(s, S)) < Limit[s]
  /\ unit' = [Settled(S, "freed") EXCEPT ![c] = [s \in Scope |-> IF s \in T THEN "reserved" ELSE "none"]]

Free(S) == unit' = Settled(S, "freed")

Spend(c) == unit' = Settled({c}, "spent")

Next ==
  \/ \E c \in Charge, T \in SUBSET Scope, S \in SUBSET Charge : Reserve(c, T, S)
  \/ \E S \in SUBSET Charge : Free(S)
  \/ \E c \in Charge : Spend(c)

Spec == Init /\ [][Next]_unit
=============================================================================

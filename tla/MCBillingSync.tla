---------------------------- MODULE MCBillingSync ----------------------------
(* Two sessions of one account and two processors.                           *)
EXTENDS BillingSync, TLC

Symmetry == Permutations(Sub) \cup Permutations(Plan) \cup Permutations(Processor)
=============================================================================

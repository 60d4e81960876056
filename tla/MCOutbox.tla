------------------------------ MODULE MCOutbox ------------------------------
(* Two messages, one of them marketing, and two dispatchers.               *)
EXTENDS Outbox, TLC

CONSTANTS m1, m2, d1, d2

Messages == {m1, m2}
OneMessage == {m1}
Dispatchers == {d1, d2}
SecondIsMarketing == [m \in Message |-> IF m = m2 THEN "CANCELED" ELSE "SEND"]
=============================================================================

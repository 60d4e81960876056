--------------------------- MODULE MCPrepareQueue ---------------------------
(* Instances of PrepareQueue for TLC.                                      *)
EXTENDS PrepareQueue

CONSTANTS i1, d1, d2

OneItem == {i1}
OneDriver == {d1}
TwoDrivers == {d1, d2}
=============================================================================

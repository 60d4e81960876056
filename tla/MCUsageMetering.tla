--------------------------- MODULE MCUsageMetering ---------------------------
(* An instance of UsageMetering for TLC.                                   *)
EXTENDS UsageMetering

CONSTANTS r1, r2, r3, w1, w2, s1

ThreeRequests == {r1, r2, r3}
TwoWorkspaces == {w1, w2}
OneStage == {s1}
(* One stage of w1 twice, an autonomous preparation of it, and one of      *)
(* another workspace.                                                      *)
Asks == [r \in Request |->
  CASE r = r1 -> {<<s1, w1>>}
    [] r = r2 -> {<<Autonomous, w1>>}
    [] OTHER -> {<<s1, w1>>, <<Autonomous, w2>>}]
OneUnit == [l \in Allowance |-> 1]
=============================================================================

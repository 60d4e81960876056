----------------------------- MODULE MCFillRuns -----------------------------
(* An instance of FillRuns for TLC: an application in two tabs of a browser.*)
EXTENDS FillRuns

CONSTANTS f1, f2, a1, b1

TwoRuns == {f1, f2}
OneWorkspace == {a1}
SameWorkspace == [r \in TwoRuns |-> a1]
OneBrowser == {b1}
SameBrowser == [r \in TwoRuns |-> b1]
=============================================================================

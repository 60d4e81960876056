------------------------- MODULE MCSubmissionLedger -------------------------
(* Two workspaces of one job, and a job that is only ever applied for by   *)
(* the person, under every control.                                        *)
EXTENDS SubmissionLedger, TLC

CONSTANTS r1, r2, j1, j2

TwoRuns == {r1, r2}
TwoJobs == {j1, j2}
BothOfOneJob == (r1 :> j1) @@ (r2 :> j1)
=============================================================================

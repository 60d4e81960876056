---------------------------- MODULE MCSubmission ----------------------------
(* Two workspaces of one job filled by one extension, or one run alone.    *)
EXTENDS Submission, TLC

CONSTANTS r1, r2, j1

TwoRuns == {r1, r2}
OneRun == {r1}
OneJob == {j1}
OfOneJob == [r \in Run |-> j1]
TwoWorkspaces == Permutations({r1, r2})
=============================================================================

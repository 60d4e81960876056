CONSTANTS
  r1 = r1
  r2 = r2
  j1 = j1
  Run <- TwoRuns
  Job <- OneJob
  JobOf <- OfOneJob
  MaxFaults = 1
  WithControls = FALSE
  MaySignOut = FALSE
  Prompt = TRUE

SPECIFICATION SubmissionSpec

SYMMETRY TwoWorkspaces

INVARIANTS
  FailedMeansNotStored
  StoredKeepsTheJob
  OneApplicationPerJob

CHECK_DEADLOCK FALSE

CONSTANTS
  r1 = r1
  r2 = r2
  j1 = j1
  Run <- OneRun
  Job <- OneJob
  JobOf <- OfOneJob
  MaxFaults = 0
  WithControls = FALSE
  MaySignOut = TRUE
  Prompt = TRUE

SPECIFICATION SubmissionSpec

INVARIANTS
  FailedMeansNotStored

CHECK_DEADLOCK FALSE

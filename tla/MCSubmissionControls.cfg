CONSTANTS
  r1 = r1
  r2 = r2
  j1 = j1
  Run <- OneRun
  Job <- OneJob
  JobOf <- OfOneJob
  MaxFaults = 1
  WithControls = TRUE
  MaySignOut = TRUE
  Prompt = FALSE

SPECIFICATION SubmissionSpec

INVARIANTS
  ClickOnlyAfterDispatch
  ConfirmedMeansStored
  EgressAttended

CHECK_DEADLOCK FALSE

CONSTANTS
  r1 = r1
  r2 = r2
  j1 = j1
  j2 = j2
  Run <- TwoRuns
  Job <- TwoJobs
  JobOf <- BothOfOneJob

SPECIFICATION LedgerSpec

INVARIANTS
  IntentMatchesAttempt
  OneLiveIntentPerJob
  HaltLeavesNoGrant
PROPERTIES
  DispatchOnlyByHolder
  SubmitsOnce
  PhasesEnd

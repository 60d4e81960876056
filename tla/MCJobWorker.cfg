CONSTANTS
  j1 = j1
  j2 = j2
  w1 = w1
  w2 = w2
  None = None
  Job <- Jobs
  Worker <- Workers
  MaxAttempts = 2
  MaxFaults = 2
  MaxRetries = 2

SPECIFICATION Spec

INVARIANTS
  OneWorkerPerClaim
PROPERTIES
  OnlyHolderFinishes
  EndedStaysEnded
  JobsEnd

CHECK_DEADLOCK FALSE

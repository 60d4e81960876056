CONSTANTS
  r1 = r1
  r2 = r2
  r3 = r3
  w1 = w1
  w2 = w2
  s1 = s1
  Autonomous = Autonomous
  Request <- ThreeRequests
  Workspace <- TwoWorkspaces
  Stage <- OneStage
  Ask <- Asks
  TTL = 1
  Limit <- OneUnit
  LastArrival = 1
  MaxTime = 2

SPECIFICATION Spec

INVARIANTS
  UsedWithinLimit
  SuccessesAreSequential
  KeptWorkIsPaid

PROPERTIES
  ReservationsSettle
  KeepsPlan

CHECK_DEADLOCK FALSE

CONSTANTS
  i1 = i1
  d1 = d1
  d2 = d2
  NoDriver = NoDriver
  Item <- OneItem
  Driver <- TwoDrivers
  Steps = 1
  StepTimeout = 0
  LeaseMargin = 1
  RetryDelay = 0
  MaxAttemptsPerCycle = 2
  DayCap = 1
  ItemCap = 2
  MaxAttempts = 2
  MaxLeases = 2
  MaxFaults = 1
  LastLease = 1
  MaxTime = 2

SPECIFICATION Spec

INVARIANTS
  SpendWithinCaps

PROPERTIES
  OnlyTheYoungestCommits
  KeepsBudgets
  AttemptsEnd

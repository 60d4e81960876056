CONSTANTS
  f1 = f1
  f2 = f2
  a1 = a1
  b1 = b1
  NoRun = NoRun
  Run <- TwoRuns
  Workspace <- OneWorkspace
  WsOf <- SameWorkspace
  Browser <- OneBrowser
  BrowserOf <- SameBrowser
  Actions = 2
  MaxFaults = 1

SPECIFICATION Spec

INVARIANTS
  Quarantined

CHECK_DEADLOCK FALSE

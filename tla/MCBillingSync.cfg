SPECIFICATION Spec
CONSTANTS
  Sub = {s1, s2}
  Plan = {pro, power}
  Processor = {p1, p2}
  MaxVersion = 3
  MaxChanges = 3
SYMMETRY Symmetry
CHECK_DEADLOCK FALSE
INVARIANTS
  BillingTypeOK
  OneLive
  ProcessedIsApplied
  ConvergesOnProvider
PROPERTIES
  KeepsEntitlement

CONSTANTS
  c1 = c1
  c2 = c2
  NoCode = NoCode
  Code <- TwoCodes
  MaxFlights = 4
  MaxFaults = 1

SPECIFICATION Spec

INVARIANTS
  TheftHasACause

PROPERTIES
  KeepsFamilies

SYMMETRY Codes

CHECK_DEADLOCK FALSE

CONSTANTS
  m1 = m1
  m2 = m2
  d1 = d1
  d2 = d2
  None = None
  Message <- Messages
  Dispatcher <- Dispatchers
  Fate <- SecondIsMarketing
  Batch = 2
  MaxAttempts = 2
  MaxFaults = 2

SPECIFICATION Spec

INVARIANTS
  DoneIsRedacted
  EveryDuplicateHasACause
  OneDispatcherPerMessage
PROPERTIES
  MessagesEnd

CHECK_DEADLOCK FALSE

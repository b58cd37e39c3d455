SPECIFICATION Spec
CONSTANTS
  Rows = 3
  Inputs <- MCInputs
  Null = null
INVARIANTS TypeOK NothingStale ObserversExact PasteIsCopy
CHECK_DEADLOCK FALSE

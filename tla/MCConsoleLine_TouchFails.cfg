SPECIFICATION Spec
CONSTANTS
  ClientBauds <- NoBauds
  ClientFramings <- OnlyDefault
  Touches = 1
  MaxOpens = 1
  MaxFailures = 1
INVARIANTS FailedTouchRestores
CHECK_DEADLOCK FALSE

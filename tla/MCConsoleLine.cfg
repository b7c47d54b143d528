SPECIFICATION Spec
CONSTANTS
  ClientBauds <- TouchBauds
  ClientFramings <- TwoFramings
  Touches = 2
  MaxOpens = 2
  MaxFailures = 1
INVARIANTS QuietConsoleIsUsable NextSessionIsUsable
CHECK_DEADLOCK FALSE

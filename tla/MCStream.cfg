SPECIFICATION FairSpec
CONSTANTS
  Capacity = 3
  Transfer = 2
  Chunk = 2
  Budgets <- Mixes
INVARIANTS ReportedWasHidden
PROPERTIES ReadersFollowLog ConsoleCatchesUp
CHECK_DEADLOCK FALSE

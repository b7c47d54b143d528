SPECIFICATION FairResetSpec
CONSTANTS
  Boards <- BothBoards
  Tools <- AllTools
  Calls = 3
  MaxResetFailures = 2
  Sessions = 2
INVARIANTS ResetDidIt ToolReachesBootloader CrashedToolFreesTarget
PROPERTIES DeferredIsApplied
CHECK_DEADLOCK FALSE

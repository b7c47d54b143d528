SPECIFICATION FairResetSpec
CONSTANTS
  None = None
  Kinds <- ManyKinds
  Addresses <- TwoAddresses
  MaxPlugs = 3
  MaxHasty = 1
  OpenMayFail = TRUE
  Mixes <- FourMixes
  MaxRequests = 1
  SwapMidway = FALSE
INVARIANTS EndIsOnItsWay AttachedIsServed
  DeedFitsTarget NoContraryDeed AnnouncedIsDeed
PROPERTIES DeadSessionsEnd
CHECK_DEADLOCK FALSE

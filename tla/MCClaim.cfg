SPECIFICATION FairClaimSpec
CONSTANTS
  c1 = c1
  c2 = c2
  None = None
  Contexts <- TwoCalls
  Kinds <- BothKinds
  MaxTargets = 2
INVARIANTS ContextHasAnOwner HidFreedOnce FirstWaitIsHonest
  ReleaseIsOfAClaim OnlyRacesStick ClaimEndsWithCall
PROPERTIES EveryCallReturns
CHECK_DEADLOCK FALSE

SPECIFICATION Spec
CONSTANTS
  None = None
  Kinds <- PicoKinds
  Addresses <- OneAddress
  MaxPlugs = 3
  MaxHasty = 0
  OpenMayFail = FALSE
INVARIANTS StreamGoesOn
CHECK_DEADLOCK FALSE

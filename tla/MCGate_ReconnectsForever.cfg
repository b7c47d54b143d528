SPECIFICATION GateSpec
CONSTANTS
  Nets = {home, guest}
  None = None
  Bounds <- SomeWorlds
PROPERTIES
  ReconnectsForever
CHECK_DEADLOCK FALSE

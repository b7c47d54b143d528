SPECIFICATION GateSpec
CONSTANTS
  Nets = {home, guest}
  None = None
  Bounds <- SomeWorlds
INVARIANTS
  PortalIsQuiet
  RoutesFit
  HostAfterNetwork
PROPERTIES
  NeverStranded
  HostComes
CHECK_DEADLOCK FALSE

SPECIFICATION PowerSpec
CONSTANTS
  console = console
  rfc2217 = rfc2217
  extra = extra
  MainTask = MainTask
  Nobody = Nobody
  Servers <- ThreeServers
  EarlyServers <- OnlyConsole
  FailingCalls <- ThreeServers
INVARIANTS SessionKeepsAwake IdleMeansDoze FlagIsTrue

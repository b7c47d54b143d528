SPECIFICATION Spec
CONSTANTS
  Scripts <- UpTo2
  Answers <- TargetData
  Chunk = 3
  SubnegMax = 6
  Sessions = 2
  Sendings = 1
INVARIANTS HeardRight ClientUnderstands
CHECK_DEADLOCK FALSE

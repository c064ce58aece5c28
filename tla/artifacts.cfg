SPECIFICATION FairSpec
CONSTANTS
  path1 = path1
  NoPath = NoPath
  Absent = Absent
  MaxTurns = 3
  MaxEvents = 1
  MaxErrors = 2
  Request <- MCRequest
  Prompted <- MCPrompted
  Paths <- MCPaths
INVARIANTS
  TypeOK
  CountersFollowLogs
  IndexFollowsLogs
  ResultIsLast
CHECK_DEADLOCK FALSE
PROPERTIES
  ImplementsMatchRecord
  ViewerCatchesUp

SPECIFICATION Spec
CONSTANTS
  Versions <- MCVersions
  Pid <- MCPid
  Ms <- MCHandoffMs
  Span = 2
  Grace = 1
  PidsPerRequest = 1
  PageSize = 1
  MaxKeys = 3
  MaxRepairs = 1
  Worlds <- MCHandoffWorlds
  Now <- MCHandoffNow
  MaxArrivals = 0
  MaxFaults = 1
INVARIANT HandedReached
CHECK_DEADLOCK FALSE

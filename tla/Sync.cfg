SPECIFICATION FairSpec
CONSTANTS
  Versions <- MCVersions
  Pid <- MCPid
  Ms <- MCMs
  Span = 2
  Grace = 1
  PidsPerRequest = 1
  PageSize = 1
  MaxKeys = 3
  MaxRepairs = 1
  Worlds <- MCWorlds
  Now <- MCNow
  MaxArrivals = 1
  MaxFaults = 1
PROPERTIES Reconciled HandedTruthful Converges
CHECK_DEADLOCK FALSE

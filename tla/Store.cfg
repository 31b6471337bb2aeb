SPECIFICATION FairSpec
CONSTANTS
  Nodes <- MCNodes
  Requests <- MCRequests
  Scripts <- MCScripts
  Versions <- MCVersions
  Encoded <- MCEncoded
  Stamps <- MCStamps
  Draining = {"a"}
  Rf = 2
  MaxFaults = 1
INVARIANTS MissedOwnersOwed QuietAfterDrain
PROPERTIES ImplementsPromise DrainEnds
CHECK_DEADLOCK FALSE

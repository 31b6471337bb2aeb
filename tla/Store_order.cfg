SPECIFICATION Spec
CONSTANTS
  Nodes <- MCNodes
  Requests <- MCRequests
  Scripts <- MCScripts
  Versions <- MCVersions
  Encoded <- MCEncoded
  Stamps <- MCStamps
  Draining = {"a"}
  Rf = 2
  MaxFaults = 1
INVARIANT NeverOlder
CHECK_DEADLOCK FALSE

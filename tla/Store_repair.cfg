SPECIFICATION Spec
CONSTANTS
  Nodes <- MCNodes
  Requests <- MCRepairRequests
  Scripts <- MCRepairScripts
  Versions <- MCVersions
  Encoded <- MCEncoded
  Stamps <- MCRepairStamps
  Draining = {"a"}
  Rf = 2
  MaxFaults = 1
INVARIANT RepairDurability
CHECK_DEADLOCK FALSE

SPECIFICATION Spec
CONSTANTS
  Peers <- MCPeers
  Callers <- MCCallers
  MinSize = 0
  MaxSize = 1
  MaxOverflow = 1
  PrioritySize = 1
  MinSamples = 2
  LastAddress = 2
  MaxFaults = 2
INVARIANTS TypeOK LeasesCovered LruListsPermanents TemporaryLeased

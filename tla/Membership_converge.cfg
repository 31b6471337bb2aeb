SPECIFICATION FairSpec
CONSTANTS
  Nodes <- MCPair
  Bits = 3
  PShift = 1
  Rf = 2
  SeedOf <- MCPairSeed
  Tokens <- MCPairTokens
  MaxEpoch <- MCPairEpochs
  Founders <- MCPairFounders
  Tracked = {"n1", "n2"}
  Unstable = {"n2"}
  MaxExchanges = 1
  HopLimit = 1
  MaxFanOut = 2
  MaxFaults = 1
INVARIANTS ViewsFollow
PROPERTIES Converges
CHECK_DEADLOCK FALSE

SPECIFICATION Spec
CONSTANTS
  Nodes <- MCNodes
  Bits = 3
  PShift = 2
  Rf = 2
  SeedOf <- MCSeedOf
  Tokens <- MCTokens
  MaxEpoch <- MCMaxEpoch
  Founders <- MCFounders
  Tracked = {}
  Unstable = {}
  MaxExchanges = 1
  HopLimit = 2
  MaxFanOut = 1
  MaxFaults = 0
INVARIANTS TopologyFollows
PROPERTIES NeverRegresses PlacementsAgree SegmentsMatchRouting HandoversCover
CHECK_DEADLOCK FALSE

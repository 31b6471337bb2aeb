SPECIFICATION FairSpec
CONSTANTS
    Addrs = {a1, a2, a3}
    MaxTs = 2
    Versions = 1
    BatchSize = 1
    HotSize = 2
    NumGroups = 2
    Group <- MCGroup
    Order <- MCOrder
    Encoded <- MCEncoded
    MaxWrites = 2
    MaxRequests = 2
    MaxFaults = 1
INVARIANTS
    StatusTruthful
PROPERTIES
    HotQueueAwake
    HistoryBounded
    HotServed

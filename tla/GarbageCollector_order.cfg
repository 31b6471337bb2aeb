SPECIFICATION FairSpec
CONSTANTS
    Addrs = {a1}
    MaxTs = 2
    Versions = 1
    BatchSize = 1
    HotSize = 2
    NumGroups = 1
    Group <- MCGroup
    Order <- MCOrder
    Encoded <- MCInverted
    MaxWrites = 2
    MaxRequests = 0
    MaxFaults = 0
PROPERTY
    HistoryAlwaysBounded

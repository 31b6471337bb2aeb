SPECIFICATION FairSpec
CONSTANTS
    Targets = {t1}
    Addrs = {a1}
    MaxTs = 2
    Capacity = 1
    Batch = 1
    Versions = 1
    NumGroups = 1
    Group <- MCGroup
    Rank <- MCRank
    Encoded <- MCInverted
    MaxWrites = 2
    MaxFaults = 0
CHECK_DEADLOCK FALSE
PROPERTY
    AllDebtsSettle

SPECIFICATION Spec
CONSTANTS
    Targets = {t1, t2}
    Addrs = {a1}
    MaxTs = 2
    Capacity = 1
    Batch = 1
    Versions = 1
    NumGroups = 1
    Group <- MCGroup
    Rank <- MCRank
    Encoded <- MCEncoded
    MaxWrites = 1
    MaxFaults = 1
CHECK_DEADLOCK FALSE
INVARIANT
    OnlyLeaversDropped

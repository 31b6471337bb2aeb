SPECIFICATION FairSpec
CONSTANTS
    Targets = {t1}
    Addrs = {a1, a2}
    MaxTs = 2
    Capacity = 1
    Batch = 1
    Versions = 1
    NumGroups = 2
    Group <- MCGroup
    Rank <- MCRank
    Encoded <- MCEncoded
    MaxWrites = 2
    MaxFaults = 1
CHECK_DEADLOCK FALSE
INVARIANTS
    EventsMatchQueue
    NoLostDebt
    DebtCovered
    NoForgottenDebt
    SleepOnlyWhenSettled
PROPERTY
    DebtsSettle

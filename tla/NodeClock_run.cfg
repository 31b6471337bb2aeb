SPECIFICATION NodeSpec
CONSTANTS
    MaxWall = 2
    MaxCounter = 1
    MaxCalls = 2
    Pids = {1, 2}
    GroupOf <- MCGroup
    MaxStores = 2
    MaxRestarts = 2
PROPERTIES
    WritesAdvance

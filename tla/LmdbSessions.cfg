SPECIFICATION FairSpec
CONSTANTS
  Writers = {"w1", "w2"}
  Readers = {"r1"}
  Records = {1, 2}
  Stored = {1, 2}
  max_workers <- MCWorkers
  Limit = 1
  MaxSessions <- MCSessions
  MaxCancels = 2
  MaxFails = 1
INVARIANTS PairsWhole ScanComplete ClosedWhenQuiet
PROPERTIES CursorsExact SessionsEnd
CHECK_DEADLOCK FALSE

SPECIFICATION Spec
CONSTANTS
  Writers = {"w1", "w2"}
  Readers = {"r1"}
  Records = {1, 2}
  Stored = {1, 2}
  max_workers <- MCWorkers
  Limit = 1
  MaxSessions <- MCSessions
  MaxCancels = 1
  MaxFails = 1
INVARIANT BegunIsHeld
CHECK_DEADLOCK FALSE

SPECIFICATION Spec
CONSTANTS
  SeedsConfigured = FALSE
  MaxCommands = 1
  MaxFaults = 0
INVARIANT ReadyAnnounced
CHECK_DEADLOCK FALSE

SPECIFICATION Spec
CONSTANTS
  SeedsConfigured = FALSE
  MaxCommands = 1
  MaxFaults = 1
INVARIANT WritesRefused
CHECK_DEADLOCK FALSE

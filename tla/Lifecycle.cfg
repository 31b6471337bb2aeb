SPECIFICATION FairSpec
CONSTANTS
  SeedsConfigured = FALSE
  MaxCommands = 4
  MaxFaults = 2
INVARIANTS ServiceMatchesPhase OneOperation OneRecordPerEpoch
PROPERTIES OperationsEnd
CHECK_DEADLOCK FALSE

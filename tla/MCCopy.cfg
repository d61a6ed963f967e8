SPECIFICATION CopyFairSpec
CONSTANTS
  Metrics = TRUE
  MaxUnits = 2
INVARIANTS
  NoSendOnClosed
  ClosedTogether
  CleanEndDelivers
PROPERTIES
  TornDown
CHECK_DEADLOCK FALSE

SPECIFICATION FairSpec
CONSTANTS
  FileSize = 5
  ChunkSize = 2
  Workers = {w1, w2}
  MaxFailures = 1
  MaxCrashes = 1
INVARIANTS
  CompleteOnSuccess
  NoSendAfterClose
  ProgressIsExact
PROPERTIES
  Returns
CHECK_DEADLOCK FALSE

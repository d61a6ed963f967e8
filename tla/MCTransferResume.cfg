SPECIFICATION Spec
CONSTANTS
  FileSize = 4
  ChunkSize = 2
  Workers = {w1, w2}
  MaxFailures = 0
  MaxCrashes = 1
INVARIANTS
  ResumedIsWhole
CHECK_DEADLOCK FALSE

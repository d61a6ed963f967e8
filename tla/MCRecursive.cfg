SPECIFICATION FairSpec
CONSTANTS
  Depth <- TreeDepth
  Dirs <- TreeDirs
  Workers = {w1, w2}
  MaxFailures = 2
  MaxDrops = 1
INVARIANTS
  ParentsFirst
  OkIsTried
  NothingCutOff
PROPERTIES
  SftpImplementsLink
  CommandExits
CHECK_DEADLOCK FALSE

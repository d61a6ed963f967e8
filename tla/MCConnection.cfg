SPECIFICATION FairSpec
CONSTANTS
  NumJumpHosts = 1
  Insecure = FALSE
  Stoppers = {s1, s2}
  Users = {u1, u2}
INVARIANTS
  SignalsAgree
  TrustedChain
PROPERTIES
  ImplementsLink
  LossIsNoticed
  WaiterReleased
  StopWhileUp
CHECK_DEADLOCK FALSE

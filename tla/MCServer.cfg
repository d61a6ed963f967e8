SPECIFICATION FairSpec
CONSTANTS
  Sessions = {k1, k2}
  Ports = {p1}
  Conns = {c1}
  AnyPort = AnyPort
  None = None
  MaxCancels = 1
INVARIANTS
  ViewsAgree
PROPERTIES
  PortsReleased
  NoOrphans
  ForwardRecovers
CHECK_DEADLOCK FALSE

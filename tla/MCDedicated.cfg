SPECIFICATION Spec
CONSTANTS
  Hosts = {h1}
  Outside = Outside
  Nobody = Nobody
  Own = Own
  MaxHops = 2
  NTunnels = 1
  MaxDrops = 0
INVARIANTS
  DedicatedClient
CHECK_DEADLOCK FALSE

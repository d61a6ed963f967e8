SPECIFICATION FairSpec
CONSTANTS
  Hosts = {h1, h2}
  Outside = Outside
  Nobody = Nobody
  Own = Own
  MaxHops = 3
  NTunnels = 1
  MaxDrops = 1

  
PROPERTIES
  ResolutionEnds
  PartsServe
  RequestsServed
CHECK_DEADLOCK FALSE

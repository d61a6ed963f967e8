SPECIFICATION FairSpec
CONSTANTS
  c1 = c1
  c2 = c2
  a1 = a1
  a2 = a2
  NoConn = NoConn
  Stoppable = TRUE
  Conns = {c1, c2}
  Addrs = {a1, a2}
  AddrOf <- OwnAddr
  MaxDrops = 1
  MaxFarFailures = 1
INVARIANTS
  ListenerScoped
  
PROPERTIES
  KeptUp
  StopWhileServing
CHECK_DEADLOCK FALSE

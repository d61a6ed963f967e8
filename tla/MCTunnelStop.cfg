SPECIFICATION FairSpec
CONSTANTS
  c1 = c1
  c2 = c2
  a1 = a1
  a2 = a2
  NoConn = NoConn
  Stoppable = TRUE
  Conns = {c1}
  Addrs = {a1}
  AddrOf <- OneAddr
  MaxDrops = 0
  MaxFarFailures = 0
PROPERTIES
  StopEndsTunnel
CHECK_DEADLOCK FALSE

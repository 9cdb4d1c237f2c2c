SPECIFICATION FairRegistrySpec
CHECK_DEADLOCK FALSE
CONSTANTS
  NoConn = noConn
  Free = free
  Conns = {c1}
PROPERTIES
  SweepEnds

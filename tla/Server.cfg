CONSTANTS
  c1 = c1
  c2 = c2
  c3 = c3
  Conns = {c1, c2, c3}
  MaxConnections = 2
SPECIFICATION FairSpec
INVARIANTS CountIsExact 
PROPERTIES  ShutdownEnds
CHECK_DEADLOCK FALSE

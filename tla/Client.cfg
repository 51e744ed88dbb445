CONSTANTS
  s1 = s1
  s2 = s2
  s3 = s3
  None = None
  Sockets = {s1, s2, s3}
  MaxSubscribes = 2
  MaxDisconnects = 1
  MaxRefreshes = 1
SPECIFICATION FairSpec
INVARIANTS ConnectionPerCall NeverStranded SubscribedAndHonest
PROPERTIES Reconnects
CHECK_DEADLOCK FALSE

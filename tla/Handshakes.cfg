CONSTANTS
  s1 = s1
  s2 = s2
  k1 = k1
  k2 = k2
  t1 = t1
  t2 = t2
  None = None
  NoRow = NoRow
  BucketIds = {"own", "team", "public"}
  SafeTexts = {"7", "8"}
  Tasks = {t1, t2}
  Tokens <- MCTokens
  Kids = {k1, k2}
  Subs = {s1, s2}
  Params = {"user", "team"}
  Values <- MCValues
  Docs <- MCDocs
  Rows <- MCRows
  UsersAtStart <- MCUsers
  JwksTtl = 1
  CacheTtl = 1
  MaxTime = 2
  MaxChanges = 1
SPECIFICATION FairSpec
INVARIANTS ValidRulesResolve  AssignmentsCurrent 
PROPERTIES  HandshakesEnd
CHECK_DEADLOCK FALSE

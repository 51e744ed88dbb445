CONSTANTS
  s1 = s1
  s2 = s2
  r1 = r1
  r2 = r2
  b1 = b1
  b2 = b2
  o1 = o1
  o2 = o2
  Absent = Absent
  Null = Null
  Sessions = {s1, s2}
  Rows = {r1, r2}
  Owners = {o1, o2}
  Buckets = {b1, b2}
  TableOf <- MCTableOf
  Tables <- MCTables
  OwnerOf <- MCOwnerOf
  Authorized <- MCAuthorized
  MaxRequests = 2
  MaxChanges = 2
SPECIFICATION Spec
INVARIANTS WritesInScope  LostOnlyByOverlap
PROPERTIES OnlyApplicationCreates

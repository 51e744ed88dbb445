CONSTANTS
  b1 = b1
  b2 = b2
  Buckets = {b1, b2}
  MaxLsn = 1
  MaxEpoch = 1
  Assignments = {{b1, b2}, {b1}}
  Requests = {{b1, b2}, {b2}}
  MaxDrops = 1
  MaxSubscribes = 1
SPECIFICATION Spec
INVARIANTS TypeOK 
PROPERTIES NoResend

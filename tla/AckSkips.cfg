CONSTANTS
  b1 = b1
  b2 = b2
  Buckets = {b1, b2}
  MaxLsn = 2
  MaxEpoch = 1
  Assignments = {{b1, b2}}
  Requests = {{b1, b2}}
  MaxDrops = 0
  MaxSubscribes = 0
SPECIFICATION Spec
INVARIANTS NoSkippedOps

CONSTANTS
  b1 = b1
  Buckets = {b1}
  MaxLsn = 2
  MaxEpoch = 2
  Assignments = {{b1}}
  Requests = {{b1}}
  MaxDrops = 1
  MaxSubscribes = 1
SPECIFICATION FairSpec
 
PROPERTIES AheadOfClientDelivered

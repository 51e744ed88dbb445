CONSTANTS
  s1 = s1
  s2 = s2
  b1 = b1
  b2 = b2
  Subs = {s1}
  Buckets = {b1}
  BucketsOf <- OneBucketOfOne
  Rows = {{b1}}
  ChannelBuffer = 1
  BackpressureCapacity = 1
  MaxEvents = 6
  MaxEpoch = 1
  MaxFailures = 0
SPECIFICATION FairSpec
INVARIANTS BoundedBuffering
PROPERTIES EventuallySettled

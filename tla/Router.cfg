CONSTANTS
  s1 = s1
  s2 = s2
  b1 = b1
  b2 = b2
  Subs = {s1}
  Buckets = {b1, b2}
  BucketsOf <- TwoBucketsOfOne
  Rows = {{b1, b2}}
  ChannelBuffer = 1
  BackpressureCapacity = 1
  MaxEvents = 3
  MaxEpoch = 2
  MaxFailures = 1
SPECIFICATION Spec
INVARIANTS PipelineFifo RoutedCompletely 
PROPERTIES ImplementsFeed

CONSTANTS
  k1 = k1
  k2 = k2
  k3 = k3
  Base = 3
  LsnBytes = 2
  Calls = {k1, k2}
  BucketIds <- PrefixIds
  Lsns <- EdgeLsns
  Ttl = 2
  MaxTime = 3
  MaxCompactions = 1
  MaxCrashes = 1
SPECIFICATION Spec
SYMMETRY CallSymmetry
INVARIANTS DrainExact ChecksumExact AckedSurvive
PROPERTIES CompactKeepsRecent
CHECK_DEADLOCK FALSE

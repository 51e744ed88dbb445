CONSTANTS
  h1 = h1
  h2 = h2
  Extension = Extension
  Reader = Reader
  Absent = Absent
  Null = Null
  Subscribers = {h1, h2}
  Ids = {1, 2}
  Batches <- MCBatches
  Queries <- MCQueries
  MaxDeltas = 2
  MaxFailures = 1
SPECIFICATION FairSpec
INVARIANTS LocalIsReplay EventsHonest 
PROPERTIES Settles
CHECK_DEADLOCK FALSE

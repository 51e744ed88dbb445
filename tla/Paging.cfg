CONSTANTS
  q1 = q1
  q2 = q2
  Queries = {q1, q2}
  NumericIds = {q1}
  Ids <- TwoThreeTen
  TextBelow <- AsText
  BatchSize = 2
SPECIFICATION FairStreamSpec
INVARIANTS StableRowsDelivered
PROPERTIES NoRowTwice 
CHECK_DEADLOCK FALSE

SPECIFICATION WSpec
CHECK_DEADLOCK FALSE
CONSTANTS
  i1 = i1
  i2 = i2
  k1 = k1
  k2 = k2
  Names = {1, 2}
  OddNames = {}
  Ids = {i1}
  Commits = {k1, k2}
  Docs <- OneIdDocs
  Arrivals <- AnyArrival
  Counted = {i1}
  NoDoc = NoDoc
  NoAck = NoAck
INVARIANTS
  ProcessedOnce

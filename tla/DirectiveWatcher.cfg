SPECIFICATION WFairSpec
CHECK_DEADLOCK FALSE
CONSTANTS
  i1 = i1
  i2 = i2
  k1 = k1
  k2 = k2
  Names = {1, 2}
  OddNames = {2}
  Ids = {i1, i2}
  Commits = {k1}
  Docs <- TwoIdDocs
  Arrivals <- OddForHuman
  Counted = {}
  NoDoc = NoDoc
  NoAck = NoAck
INVARIANTS
  AcceptedIsQueued
PROPERTIES
  
  InboxDrains

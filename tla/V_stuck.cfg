CONSTANTS
  r1 = r1
  r2 = r2
  d1 = d1
  d2 = d2
  NoDoc = NoDoc
  LostDoc = LostDoc
  Resources = {r1}
  DocIds = {d1}
  DocIdOf <- MCDocIdOf
  AutoCreateIndex = FALSE
  MaxConcurrentReconciles = 1
  MaxEdits = 3
  MaxFaults = 0
SPECIFICATION FairSpec
CHECK_DEADLOCK FALSE
PROPERTY DeletionCompletes

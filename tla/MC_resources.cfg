CONSTANTS
  r1 = r1
  r2 = r2
  d1 = d1
  d2 = d2
  NoDoc = NoDoc
  LostDoc = LostDoc
  Resources = {r1, r2}
  DocIds = {d1, d2}
  DocIdOf <- MCDocIdOf
  AutoCreateIndex = TRUE
  MaxConcurrentReconciles = 1
  MaxEdits = 2
  MaxFaults = 1
SPECIFICATION FairSpec
CHECK_DEADLOCK FALSE
INVARIANTS IInv DocumentsHeld DocumentsFresh
PROPERTY ResourceIndexed

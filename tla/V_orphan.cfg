CONSTANTS
  n1 = n1
  n2 = n2
  org = org
  AllAlias = AllAlias
  NoIndex = NoIndex
  SearchIndexes = {n1}
  IndexNames <- MCIndexNames1
  OrgOf <- MCOrgOf
  LegacyIndexes = {}
  Specs <- MCSpecsOne
  CreatedSpec <- MCCreatedSpec
  AutoCreateIndex = FALSE
  MaxConcurrentReconciles = 1
  MaxEdits = 3
  MaxFaults = 0
SPECIFICATION Spec
CHECK_DEADLOCK FALSE
INVARIANT NoOrphanedIndex

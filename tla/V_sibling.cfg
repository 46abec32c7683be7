CONSTANTS
  n1 = n1
  n2 = n2
  org = org
  AllAlias = AllAlias
  NoIndex = NoIndex
  SearchIndexes = {n1, n2}
  IndexNames <- MCIndexNames2
  OrgOf <- MCOrgOf
  LegacyIndexes = {org}
  Specs <- MCSpecsOne
  CreatedSpec <- MCCreatedSpec
  AutoCreateIndex = FALSE
  MaxConcurrentReconciles = 1
  MaxEdits = 4
  MaxFaults = 0
SPECIFICATION Spec
CHECK_DEADLOCK FALSE
INVARIANT StatusBacked

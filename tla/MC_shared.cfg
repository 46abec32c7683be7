CONSTANTS
  n1 = n1
  n2 = n2
  org = org
  AllAlias = AllAlias
  NoIndex = NoIndex
  SearchIndexes = {n1, n2}
  IndexNames <- MCIndexNames2
  OrgOf <- MCOrgOf
  LegacyIndexes = {org}
  Specs <- MCSpecsOne
  CreatedSpec <- MCCreatedSpec
  AutoCreateIndex = FALSE
  MaxConcurrentReconciles = 2
  MaxEdits = 4
  MaxFaults = 0
SPECIFICATION FairSpec
CHECK_DEADLOCK FALSE
INVARIANTS IInv
PROPERTIES ReleasedOnlyAfterCleanup DeletionCompletes

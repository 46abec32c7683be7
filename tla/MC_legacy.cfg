CONSTANTS
  n1 = n1
  n2 = n2
  org = org
  AllAlias = AllAlias
  NoIndex = NoIndex
  SearchIndexes = {n1}
  IndexNames <- MCIndexNames1
  OrgOf <- MCOrgOf
  LegacyIndexes = {org}
  Specs <- MCSpecsAll
  CreatedSpec <- MCCreatedSpec
  AutoCreateIndex = TRUE
  MaxConcurrentReconciles = 1
  MaxEdits = 4
  MaxFaults = 2
SPECIFICATION Spec
CHECK_DEADLOCK FALSE
INVARIANTS IInv OneIndex StatusBacked
PROPERTIES PromiseKept ReleasedOnlyAfterCleanup CreatedUnderFinalizer

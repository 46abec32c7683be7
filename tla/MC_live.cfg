CONSTANTS
  n1 = n1
  n2 = n2
  org = org
  AllAlias = AllAlias
  NoIndex = NoIndex
  SearchIndexes = {n1}
  IndexNames <- MCIndexNames1
  OrgOf <- MCOrgOf
  LegacyIndexes = {}
  Specs <- MCSpecsReplicas
  CreatedSpec <- MCCreatedSpec
  AutoCreateIndex = TRUE
  MaxConcurrentReconciles = 1
  MaxEdits = 4
  MaxFaults = 2
SPECIFICATION FairSpec
CHECK_DEADLOCK FALSE
INVARIANTS StatusBacked StatusSearchable
PROPERTIES PromiseKept DeletionCompletes SpecConverges

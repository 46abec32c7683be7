CONSTANTS
  r1 = r1
  d1 = d1
  Bindings = {b1}
  Resources = {r1}
  DocIds = {d1}
  DocIdOf <- MCDocIdOf
  SearchIndexName = SearchIndexName
  Org = Org
  Kind = Kind
  Schema = Schema
  Field = Field
  Specs <- MCSpecs
  CreatedSpec <- MCCreatedSpec
  AllAlias = AllAlias
  NoIndex = NoIndex
  NoOrg = NoOrg
  NoDoc = NoDoc
  LostDoc = LostDoc
  AutoCreateIndex = TRUE
  MaxConcurrentReconciles = 1
  MaxEdits = 3
  MaxFaults = 1
SPECIFICATION FairSpec
CHECK_DEADLOCK FALSE
INVARIANTS DocumentsReachable DocumentsHeld DocumentsFresh
PROPERTIES PromiseKept EndToEnd

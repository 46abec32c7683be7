CONSTANTS
  b1 = b1
  b2 = b2
  org = org
  accounts = accounts
  things = things
  f1 = f1
  f2 = f2
  s1 = s1
  s2 = s2
  NoOrg = NoOrg
  Chars = {"a", "l", "m", "p", "L", "-", "."}
  Alphanumerics = {"a", "l", "m", "p"}
  Lower <- MCLower
  Bindings = {b1, b2}
  Orgs = {org}
  OrgOf <- MCOrgOf
  Resources = {accounts, things}
  Names <- MCNames
  CanonicalName <- MCCanonicalName
  Schemas = {s1, s2}
  Fields = {f1, f2}
  FieldsOf <- MCFieldsOf
  StatusesOf <- MCStatusesAgreeing
  Rests = {1, 2}
  CreatedRest = 1
  MaxConcurrentReconciles = 2
  MaxEdits = 4
  MaxFaults = 1
SPECIFICATION FairSpec
CHECK_DEADLOCK FALSE
INVARIANTS IInv Settled
PROPERTIES UserEditsKept BindingServed

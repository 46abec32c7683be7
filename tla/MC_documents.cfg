CONSTANTS
  orgs = orgs
  orgWorkspace = orgWorkspace
  accountWorkspace = accountWorkspace
  org = org
  account = account
  Clusters = {orgs, orgWorkspace, accountWorkspace}
  NoCluster = NoCluster
  Accounts = {org, account}
  HomeOf <- MCHomeOf
  WorkspaceOf <- MCWorkspaceOf
  OrganizationOf <- MCOrganizationOf
  ResourceInputs <- MCResourceInputs
  FieldLists <- MCFieldLists
SPECIFICATION Spec
INVARIANTS IInv FieldsIInv AccountOfWorkspace ParentsAreDocuments FieldsBuild FieldsCarried

------------------------- MODULE MCResourceDocument -------------------------
(***************************************************************************)
(* Small instances of ResourceDocument: an organization (its Account lies  *)
(* in root:orgs) with one account in it.                                   *)
(***************************************************************************)
EXTENDS ResourceDocument

CONSTANTS orgs, orgWorkspace, accountWorkspace, org, account

MCHomeOf == [a \in Accounts |-> IF a = org THEN orgs ELSE orgWorkspace]
MCWorkspaceOf == [a \in Accounts |-> IF a = org THEN orgWorkspace ELSE accountWorkspace]
MCOrganizationOf == [a \in Accounts |-> org]

\* A spec with two fields, and a top-level field of the name of a field of the
\* document; and a resource whose spec is no object.
Content1 ==
  (<<"kind">> :> "leaf") @@ (<<"spec">> :> "object") @@ (<<"spec", "a">> :> "leaf")
  @@ (<<"spec", "b">> :> "leaf") @@ (<<"name">> :> "object") @@ (<<"name", "x">> :> "leaf")
Content2 == (<<"kind">> :> "leaf") @@ (<<"spec">> :> "leaf")

\* And one with a field of the name under which the document has the others.
Content3 ==
  (<<"kind">> :> "leaf") @@ (<<"custom_fields">> :> "object")
  @@ (<<"custom_fields", "kind">> :> "object") @@ (<<"custom_fields", "kind", "x">> :> "leaf")

Component ==
  [group |-> CoreGroup, kind |-> "Component", name |-> "c", namespace |-> "ns",
   context |-> accountWorkspace, annotation |-> NoCluster, specCluster |-> NoCluster,
   content |-> Content1]

InOrg(group, kind) ==
  [Component EXCEPT !.group = group, !.kind = kind, !.name = account,
                    !.namespace = NoNamespace, !.context = orgWorkspace,
                    !.annotation = orgWorkspace]

\* One resource for each branch of the code.
MCResourceInputs ==
  {Component,
   [Component EXCEPT !.namespace = NoNamespace, !.annotation = accountWorkspace,
                     !.specCluster = orgWorkspace, !.content = Content2],
   [Component EXCEPT !.group = "", !.kind = "Namespace", !.namespace = NoNamespace,
                     !.content = Content3],
   InOrg(CoreGroup, "Account"),
   [InOrg("tenancy.kcp.io", "Workspace") EXCEPT !.specCluster = accountWorkspace],
   InOrg(SearchGroup, "Account"),
   InOrg(SearchGroup, "Organization")}

RawFields ==
  {<<"spec", "a">>, <<"spec", "", "b">>, <<"spec">>, <<"", "spec", "a">>,
   <<"name", "x">>, <<"name">>, <<"kind">>, <<"custom_fields", "kind", "x">>, <<"">>}

MCFieldLists == UNION {[1 .. n -> RawFields] : n \in 0 .. 2}
=============================================================================

-------------------------- MODULE ResourceDocument --------------------------
(***************************************************************************)
(* What a document says: the part of Process in                            *)
(* internal/subroutine/indexable_resource_watcher.go between the lookup of *)
(* the SearchIndex and the request to OpenSearch, which ResourceWatcher    *)
(* takes for two steps, together with the mapping in                       *)
(* internal/opensearch/document.go that the document is meant to fit.      *)
(*                                                                         *)
(* A document carries the account its resource belongs to and the          *)
(* permission tuples that chain the resource to it; both come from an      *)
(* AccountInfo that is looked up in several clusters while the account     *)
(* operator is still writing it.  And it carries the values of the         *)
(* SearchIndex's semantic fields, set one by one in the arbitrary order of *)
(* a Go map into a tree that already holds the document's own fields.      *)
(*                                                                         *)
(* A tree (a JSON object, or the properties of a mapping) is a function    *)
(* from the paths of its nodes; a path is the sequence of its segments.    *)
(***************************************************************************)
EXTENDS Naturals, Sequences, FiniteSets, SequencesExt

CONSTANTS
  Clusters, NoCluster,  \* logical cluster IDs; the empty one
  Accounts,             \* the Account objects (group core.platform-mesh.io)
  HomeOf,               \* Account -> cluster of the object
  WorkspaceOf,          \* Account -> cluster of its own workspace
  OrganizationOf,       \* Account -> Account of its organization
  ResourceInputs,       \* the resources to look at: see ResourceOK
  FieldLists            \* values of spec.semanticFields: see FieldsOK

CoreGroup == "core.platform-mesh.io"
SearchGroup == "search.platform-mesh.io"  \* v1alpha1.GroupName

NoNamespace == ""
NoName == ""

\* The JSON keys of ResourceDocument that Process fills in.
OwnFields ==
  {"id", "kind", "name", "namespace", "api_group", "api_version", "cluster_name",
   "workspace_path", "organization_id", "organization_name", "account_id",
   "account_name", "fga_object", "permissions", "payload_raw_json", "payload_text",
   "created_at", "updated_at"}

\* A segment is a string; the provers do not know the literals for strings.
Segments == STRING \cup OwnFields \cup {"custom_fields"}

Paths == Seq(Segments) \ {<<>>}  \* the root is no node

\* The nodes on the way to path.
Ancestors(path) == {q \in Prefixes(path) : q # <<>> /\ q # path}

\* Inner nodes are "object".
Trees(T) ==
  /\ DOMAIN T \subseteq Paths
  /\ \A p \in DOMAIN T : \A q \in Ancestors(p) : q \in DOMAIN T /\ T[q] = "object"

\* content: the object's tree, "leaf" where it is not "object".
ResourceOK(r) ==
  /\ {"group", "kind", "name", "namespace", "context", "annotation",
      "specCluster", "content"} = DOMAIN r
  /\ r.context \in Clusters
  /\ r.annotation \in Clusters \cup {NoCluster}
  /\ r.specCluster \in Clusters \cup {NoCluster}
  /\ Trees(r.content)

\* A field is a sequence of raw segments, "" for a blank one.
FieldsOK(fs) == fs \in Seq(Seq(Segments))

ASSUME DocumentAssumption ==
  /\ NoCluster \notin Clusters
  /\ HomeOf \in [Accounts -> Clusters]
  /\ WorkspaceOf \in [Accounts -> Clusters]
  /\ \A a, b \in Accounts : WorkspaceOf[a] = WorkspaceOf[b] => a = b
  /\ OrganizationOf \in [Accounts -> Accounts]
  /\ \A r \in ResourceInputs : ResourceOK(r)
  /\ \A fs \in FieldLists : FieldsOK(fs)

VARIABLES
  resource,        \* the resource to be indexed
  semanticFields,  \* those of the SearchIndex that was read
  infos,           \* per cluster, how far its AccountInfo has been written
  step,            \* of the reconcile
  candidates,      \* clusters still to be asked for an AccountInfo
  accountInfo,     \* what was found
  missed,          \* clusters where a lookup found nothing or failed
  document,        \* the typed document
  source, todo     \* the document's tree; the fields still to be set in it

vars == <<resource, semanticFields, infos, step, candidates, accountInfo,
          missed, document, source, todo>>

-----------------------------------------------------------------------------
(* AccountInfos (external: written by the account operator)                *)

\* "partial": organization not yet filled in; "early": all but the cluster ID
\* of the account's own workspace.
Progress == <<"none", "partial", "early", "complete">>

NoLocation == [name |-> NoName, origin |-> NoCluster, generated |-> NoCluster]

NoAccountInfo == [account |-> NoLocation, organization |-> NoLocation]

Location(a) ==
  [name |-> a, origin |-> HomeOf[a], generated |-> WorkspaceOf[a]]

AccountOf(c) == CHOOSE a \in Accounts : WorkspaceOf[a] = c

AccountInfoIn(c) ==
  LET a == AccountOf(c) IN
  CASE infos[c] = "partial" ->
         [NoAccountInfo EXCEPT !.account = Location(a)]
    [] infos[c] = "early" ->
         [account |-> [Location(a) EXCEPT !.generated = NoCluster],
          organization |-> Location(OrganizationOf[a])]
    [] infos[c] = "complete" ->
         [account |-> Location(a), organization |-> Location(OrganizationOf[a])]

\* A name is missing, too, where its origin is.
Complete(info) ==
  info.account.origin # NoCluster /\ info.organization.origin # NoCluster

ProvideAccountInfo(c) ==
  /\ \E a \in Accounts : WorkspaceOf[a] = c
  /\ \E i \in 1 .. 3 : infos[c] = Progress[i] /\ infos' = [infos EXCEPT ![c] = Progress[i + 1]]
  /\ UNCHANGED <<resource, semanticFields, step, candidates, accountInfo, missed,
                 document, source, todo>>

-----------------------------------------------------------------------------
(* FGA objects and permissions                                             *)

IsAccount(group, kind) == group = SearchGroup /\ kind = "Account"
IsOrganization(group, kind) == group = SearchGroup /\ kind = "Organization"
IsWorkspace(group, kind) == group = "tenancy.kcp.io" /\ kind = "Workspace"

\* Without a kcp.io/cluster annotation the cluster of the reconcile.
ResourceCluster(r) == IF r.annotation # NoCluster THEN r.annotation ELSE r.context

\* fgamodel.BuildObjectName (external) joins these.
FGAObjectName(group, kind, cluster, name, namespace) ==
  <<group, kind, cluster, namespace, name>>

Or(c, default) == IF c # NoCluster THEN c ELSE default

\* mapResourceToFGAObject, and the name of what it maps to.
FGAObject(group, kind, cluster, name, namespace, info) ==
  IF IsOrganization(group, kind)
  THEN FGAObjectName(SearchGroup, "Account", Or(info.organization.origin, cluster),
                     name, namespace)
  ELSE IF IsAccount(group, kind) \/ IsWorkspace(group, kind)
  THEN FGAObjectName(SearchGroup, "Account", Or(info.account.origin, cluster),
                     name, namespace)
  ELSE FGAObjectName(group, kind, cluster, name, namespace)

ObjectOf(r, info) ==
  FGAObject(r.group, r.kind, ResourceCluster(r), r.name, r.namespace, info)

\* Mutant: the account's own workspace is taken for the one that holds it.
AccountObjectGenerated(info) ==
  FGAObjectName(CoreGroup, "Account", info.account.generated, info.account.name, NoNamespace)

AccountObject(info) ==
  FGAObjectName(CoreGroup, "Account", info.account.origin, info.account.name, NoNamespace)

OrganizationObject(info) ==
  FGAObjectName(SearchGroup, "Account", info.organization.origin,
                info.organization.name, NoNamespace)

ParentObject(r, info) ==
  IF IsOrganization(r.group, r.kind) THEN OrganizationObject(info) ELSE AccountObject(info)

NamespaceObject(r, info) ==
  FGAObjectName("", "Namespace", Or(info.account.generated, ResourceCluster(r)),
                r.namespace, NoNamespace)

Tuple(parent, child) == [user |-> parent, object |-> child]

\* fgamodel.BuildParentTuples (external): through the namespace, if there is
\* one.  A cluster-scoped resource is not its own parent.
Permissions(r, info) ==
  LET own == ObjectOf(r, info)
      parent == ParentObject(r, info)
      ns == NamespaceObject(r, info)
  IN IF r.namespace # NoNamespace THEN {Tuple(ns, own), Tuple(parent, ns)}
     ELSE IF own # parent THEN {Tuple(parent, own)}
     ELSE {}

NoDocument == [account |-> NoName, accountID |-> NoCluster, fga |-> <<>>, permissions |-> {}]

NewDocument(r, info) ==
  [account |-> info.account.name, accountID |-> info.account.origin,
   fga |-> ObjectOf(r, info), permissions |-> Permissions(r, info)]

-----------------------------------------------------------------------------
(* The index mapping and the fields of a document                          *)

\* f, and g where f is not defined.
Over(f, g) == [p \in DOMAIN f \cup DOMAIN g |-> IF p \in DOMAIN f THEN f[p] ELSE g[p]]

\* Both splitFieldPath and opensearchSplitFieldPath drop blank segments.
Split(field) == SelectSeq(field, LAMBDA segment : segment # "")

Keywords ==
  {"id", "type", "kind", "namespace", "api_group", "api_version", "cluster_name",
   "path", "workspace_path", "organization_id", "organization_name", "account_id",
   "account_name", "fga_object", "payload_raw_json"}

\* DefaultIndexMapping before the semantic fields are added.
BaseMapping ==
  Over([p \in {<<f>> : f \in Keywords} |-> "keyword"],
  Over([p \in {<<"permissions", f>> : f \in {"user", "relation", "object"}} |-> "keyword"],
  Over([p \in {<<"name">>, <<"payload_text">>} |-> "text"],
  Over([p \in {<<"labels">>, <<"annotations">>} |-> "flat_object"],
  Over([p \in {<<"created_at">>, <<"updated_at">>} |-> "date"],
       [p \in {<<"permissions">>} |-> "nested"])))))

Refused == <<>>  \* no mapping

\* Mutant: only the field itself is looked at, not what it lies in.
AddSemanticFieldAnywhere(mapping, field) ==
  LET path == Split(field) IN
  IF path = <<>> THEN mapping
  ELSE IF path \in DOMAIN mapping /\ mapping[path] # "semantic" THEN Refused
  ELSE Over([p \in {path} |-> "semantic"], mapping)

\* addSemanticFieldMapping: objects on the way, a new or semantic leaf.
AddSemanticField(mapping, field) ==
  LET path == Split(field) IN
  IF path = <<>> \/ mapping = Refused THEN mapping
  ELSE IF \/ \E q \in Ancestors(path) \cap DOMAIN mapping : mapping[q] # "object"
          \/ path \in DOMAIN mapping /\ mapping[path] # "semantic"
  THEN Refused
  ELSE Over([p \in {path} |-> "semantic"],
            Over(mapping, [q \in Ancestors(path) |-> "object"]))

\* Its turns in DefaultIndexMapping; the first conflict ends it.
Mappings(fields) ==
  LET mapping[i \in 0 .. Len(fields)] ==
        IF i = 0 THEN BaseMapping ELSE AddSemanticField(mapping[i - 1], fields[i])
  IN mapping

Mapping(fields) == Mappings(fields)[Len(fields)]

Accepted(fields) == Mapping(fields) # Refused

\* Nodes of tree T at path and below.
Below(T, path) == {p \in DOMAIN T : IsPrefix(path, p)}

Subtree(T, path) == [p \in Below(T, path) |-> T[p]]

\* extractCustomFields, for DefaultFields that list every top-level field.
CustomFields(content) ==
  IF DOMAIN content = {} THEN <<>>
  ELSE Over([p \in {<<"custom_fields">>} |-> "object"],
            [p \in {<<"custom_fields">> \o q : q \in DOMAIN content} |-> content[Tail(p)]])

\* buildDocumentSource before its loop.
OwnSource(content) ==
  Over([p \in {<<f>> : f \in OwnFields} |-> "own"], CustomFields(content))

\* extractConfiguredFields: a map from the fields as they are spelled.
Configured(content, fields) ==
  {fields[i] : i \in {j \in DOMAIN fields : Split(fields[j]) \in DOMAIN content}}

\* Mutant: an object on the way is made anew instead of being entered.
PutOver(T, content, path) ==
  Over([p \in {q \in DOMAIN T : q[1] # path[1]} |-> T[p]],
       Over([q \in Ancestors(path) |-> "object"], Subtree(content, path)))

\* setFieldPath without a conflict: the value replaces what was at path.
Put(T, content, path) ==
  Over([p \in DOMAIN T \ Below(T, path) |-> T[p]],
       Over([q \in Ancestors(path) |-> "object"], Subtree(content, path)))

Conflict(T, path) == \E q \in Ancestors(path) \cap DOMAIN T : T[q] # "object"

-----------------------------------------------------------------------------
(* The reconcile                                                           *)

Init ==
  /\ resource \in ResourceInputs
  /\ semanticFields \in FieldLists
  /\ infos = [c \in Clusters |-> "none"]
  /\ step = "start"
  /\ candidates = <<>>
  /\ accountInfo = NoAccountInfo
  /\ missed = {}
  /\ document = NoDocument
  /\ source = <<>>
  /\ todo = {}

\* Mutant: the cluster in the resource's spec comes first.
LookupClustersSpecFirst(r) ==
  LET named == <<r.specCluster, ResourceCluster(r), r.context>>
  IN SelectSeq(named, LAMBDA c : c # NoCluster)

\* resolveAccountInfoLookupClusters: in this order, each cluster once.
LookupClusters(r) ==
  LET own == ResourceCluster(r)
      further == (IF r.context = own THEN <<>> ELSE <<r.context>>)
                 \o (IF r.specCluster \in {NoCluster, own, r.context} THEN <<>>
                     ELSE <<r.specCluster>>)
  IN <<own>> \o further

Start ==
  /\ step = "start"
  /\ step' = IF IsAccount(resource.group, resource.kind)
                \/ IsOrganization(resource.group, resource.kind)
             THEN "path" ELSE "first"
  /\ candidates' = LookupClusters(resource)
  /\ accountInfo' = NoAccountInfo
  /\ missed' = {}
  /\ UNCHANGED <<resource, semanticFields, infos, document, source, todo>>

\* getAccountInfo: the workspace "<path>:<name>", or a requeue.
LookUpPath ==
  LET found == {a \in Accounts : /\ HomeOf[a] = resource.context
                                 /\ a = resource.name
                                 /\ infos[WorkspaceOf[a]] # "none"}
  IN
  /\ step = "path"
  /\ \/ \E a \in found :
          step' = "build" /\ accountInfo' = AccountInfoIn(WorkspaceOf[a])
     \/ step' = "requeued" /\ UNCHANGED accountInfo
  /\ UNCHANGED <<resource, semanticFields, infos, candidates, missed, document,
                 source, todo>>

\* getParentAccountInfo: an AccountInfo ends the search, complete or not.
Found(c) ==
  /\ infos[c] # "none"
  /\ step' = "build"
  /\ accountInfo' = AccountInfoIn(c)
  /\ UNCHANGED <<candidates, missed>>

NextCandidate(c) ==
  /\ candidates' = Tail(candidates)
  /\ missed' = missed \cup {c}
  /\ step' = IF Tail(candidates) = <<>> THEN "build" ELSE "first"
  /\ UNCHANGED accountInfo

\* The first Get: "not found" is asked again, another error is not.
LookUp ==
  LET c == Head(candidates) IN
  /\ step = "first"
  /\ \/ Found(c)
     \/ /\ infos[c] = "none"
        /\ step' = "second"
        /\ UNCHANGED <<candidates, accountInfo, missed>>
     \/ NextCandidate(c)
  /\ UNCHANGED <<resource, semanticFields, infos, document, source, todo>>

\* The second Get, to the same cluster.
LookUpAgain ==
  LET c == Head(candidates) IN
  /\ step = "second"
  /\ Found(c) \/ NextCandidate(c)
  /\ UNCHANGED <<resource, semanticFields, infos, document, source, todo>>

\* Mutant: an AccountInfo with gaps is used as it is.
BuildDocumentUnchecked ==
  /\ step = "build"
  /\ step' = "fields"
  /\ document' = NewDocument(resource, accountInfo)
  /\ source' = OwnSource(resource.content)
  /\ todo' = Configured(resource.content, semanticFields)
  /\ UNCHANGED <<resource, semanticFields, infos, candidates, accountInfo, missed>>

\* An AccountInfo with gaps is a requeue.
BuildDocument ==
  /\ step = "build"
  /\ \/ /\ ~Complete(accountInfo)
        /\ step' = "requeued"
        /\ UNCHANGED <<document, source, todo>>
     \/ /\ Complete(accountInfo)
        /\ step' = "fields"
        /\ document' = NewDocument(resource, accountInfo)
        /\ source' = OwnSource(resource.content)
        /\ todo' = Configured(resource.content, semanticFields)
  /\ UNCHANGED <<resource, semanticFields, infos, candidates, accountInfo, missed>>

\* One turn of the loop of buildDocumentSource, over a Go map.
SetField(field) ==
  LET path == Split(field) IN
  /\ step = "fields"
  /\ field \in todo
  /\ \/ /\ Conflict(source, path)
        /\ step' = "failed"
        /\ UNCHANGED <<source, todo>>
     \/ /\ ~Conflict(source, path)
        /\ source' = Put(source, resource.content, path)
        /\ todo' = todo \ {field}
        /\ UNCHANGED step
  /\ UNCHANGED <<resource, semanticFields, infos, candidates, accountInfo, missed,
                 document>>

IndexDocument ==
  /\ step = "fields" /\ todo = {}
  /\ step' = "indexed"
  /\ UNCHANGED <<resource, semanticFields, infos, candidates, accountInfo, missed,
                 document, source, todo>>

\* A requeue, an error that is retried, or the next event.
Again ==
  /\ step \in {"requeued", "failed", "indexed"}
  /\ step' = "start"
  /\ candidates' = <<>>
  /\ accountInfo' = NoAccountInfo
  /\ missed' = {}
  /\ document' = NoDocument
  /\ source' = <<>>
  /\ todo' = {}
  /\ UNCHANGED <<resource, semanticFields, infos>>

Next ==
  \/ \E c \in Clusters : ProvideAccountInfo(c)
  \/ Start \/ LookUpPath \/ LookUp \/ LookUpAgain \/ BuildDocument
  \/ \E field \in todo : SetField(field)
  \/ IndexDocument \/ Again

Spec == Init /\ [][Next]_vars

-----------------------------------------------------------------------------
(* Properties                                                              *)

\* The AccountInfo is that of the workspace the resource is in.
FromOwnWorkspace ==
  /\ document.account \in Accounts
  /\ WorkspaceOf[document.account] = ResourceCluster(resource)

(* getParentAccountInfo: "there is always a Parent Account or Org that has *)
(* an AccountInfo".  The account in a document is that of the resource's   *)
(* workspace; another cluster's can only get in when a lookup in that      *)
(* workspace failed or came too early.                                     *)
AccountOfWorkspace ==
  step = "indexed" /\ LookupClusters(resource)[1] \notin missed
    => FromOwnWorkspace \/ IsAccount(resource.group, resource.kind)
                        \/ IsOrganization(resource.group, resource.kind)

\* The FGA objects that the documents of the Account a and of a Namespace in
\* its workspace bear, whatever AccountInfo they were built with.
AccountDocument(a) == FGAObject(CoreGroup, "Account", HomeOf[a], a, NoNamespace, NoAccountInfo)
NamespaceDocument(c, ns) == FGAObject("", "Namespace", c, ns, NoNamespace, NoAccountInfo)

(* Permissions of a document are resolved through those of its parents: the*)
(* chain resource, namespace, account that Process spells out by name meets*)
(* the FGA objects of the documents of the namespace and of the Account,   *)
(* built by other reconciles in other clusters.  It ends at the document of*)
(* the account that the document names, found by path or in whatever       *)
(* cluster.  Left out: Organizations; and the namespace of a document that *)
(* was built from another cluster's AccountInfo, after the lookup in the   *)
(* own workspace failed or came too early: no document bears that one.     *)
ParentsAreDocuments ==
  step = "indexed" /\ ~IsOrganization(resource.group, resource.kind) =>
    LET owner == AccountDocument(document.account) IN
      \A t \in document.permissions :
         \/ t.user = owner /\ t.object # owner
         \/ /\ Tuple(owner, t.user) \in document.permissions
            /\ FromOwnWorkspace =>
                 t.user = NamespaceDocument(ResourceCluster(resource), resource.namespace)

(* The mapping guards the documents: when buildDocumentSource fails on a   *)
(* semantic field (and the reconcile is retried for ever), the semantic    *)
(* fields are such that DefaultIndexMapping refuses them for a new index,  *)
(* or the field lies in the resource's own "custom_fields": a name that    *)
(* the document uses and the mapping does not know.                        *)
FieldsBuild ==
  step = "failed" =>
    \/ ~Accepted(semanticFields)
    \/ \E field \in Configured(resource.content, semanticFields) :
         Split(field)[1] = "custom_fields"

(* With fields that DefaultIndexMapping accepts, a document carries each   *)
(* field with the resource's value and all that the mapping types of its   *)
(* own, in whatever order the loop took the fields.                        *)
FieldsCarried ==
  step = "indexed" /\ Accepted(semanticFields) =>
    /\ \A field \in Configured(resource.content, semanticFields) :
         LET path == Split(field) IN
           Subtree(source, path) = Subtree(resource.content, path)
    /\ \A f \in OwnFields : Subtree(source, <<f>>) = [p \in {<<f>>} |-> "own"]

-----------------------------------------------------------------------------
(* Why account and permissions are right: the invariant the proofs rest on *)

LookupSteps == {"first", "second"}
BuiltSteps == {"fields", "indexed"}
Steps == {"start", "path", "build", "requeued", "failed"} \cup LookupSteps \cup BuiltSteps

Stages == {Progress[i] : i \in 1 .. 4}

LookupTypeOK ==
  /\ resource \in ResourceInputs
  /\ infos \in [Clusters -> Stages]
  /\ step \in Steps
  /\ candidates \in Seq(Clusters)
  /\ missed \subseteq Clusters

\* Only workspaces of accounts have an AccountInfo.
InfosOfAccounts ==
  \A c \in Clusters : infos[c] # "none" => \E a \in Accounts : WorkspaceOf[a] = c

\* The resource is an account or an organization itself.
Special == IsAccount(resource.group, resource.kind) \/ IsOrganization(resource.group, resource.kind)

Own == ResourceCluster(resource)

\* No other cluster is asked before the resource's own.
OwnFirst ==
  /\ step = "path" => Special
  /\ step \in LookupSteps => candidates # <<>> /\ (Head(candidates) = Own \/ Own \in missed)

\* The account is all there, but for the cluster ID of its workspace.
Describes(info, a) ==
  info.account \in {Location(a), [Location(a) EXCEPT !.generated = NoCluster]}

\* What is found is found in the own workspace, unless that was passed over.
FoundInOwn ==
  /\ accountInfo = NoAccountInfo \/ \E a \in Accounts : Describes(accountInfo, a)
  /\ step = "build" \/ step \in BuiltSteps =>
       \/ Special \/ Own \in missed
       \/ \E a \in Accounts : WorkspaceOf[a] = Own /\ Describes(accountInfo, a)

Built ==
  step \in BuiltSteps =>
    Complete(accountInfo) /\ document = NewDocument(resource, accountInfo)

(* getParentAccountInfo asks the own workspace first; an AccountInfo that a*)
(* document is built from is complete, and is the own workspace's unless   *)
(* the lookup there failed or came too early; in the document it is as it  *)
(* was found, though it may have been filled in since.                     *)
IInv == LookupTypeOK /\ InfosOfAccounts /\ OwnFirst /\ FoundInOwn /\ Built

-----------------------------------------------------------------------------
(* Why the document fits the mapping: the invariant of the loop            *)

Fields == Configured(resource.content, semanticFields)

\* What a node of the document is there for, as far as the loop has come.
Placed(p) ==
  \/ \E f \in OwnFields : p = <<f>>
  \/ p[1] = "custom_fields"
  \/ \E field \in Fields : p \in Ancestors(Split(field)) /\ source[p] = "object"
  \/ \E field \in Fields : IsPrefix(Split(field), p)

LoopTypeOK ==
  /\ resource \in ResourceInputs
  /\ semanticFields \in FieldLists
  /\ step \in BuiltSteps =>
       todo \subseteq Fields /\ DOMAIN source \subseteq Paths
  /\ step = "indexed" => todo = {}

\* Fields that have had their turn are not touched by the turns of the others.
Carried ==
  /\ \A field \in Fields \ todo :
       Subtree(source, Split(field)) = Subtree(resource.content, Split(field))
  /\ \A f \in OwnFields : Subtree(source, <<f>>) = [p \in {<<f>>} |-> "own"]

(* With fields that DefaultIndexMapping accepts, every node of the document*)
(* is its own, or an object on the way to a semantic field, or part of the *)
(* value of one; what has been set, and its own fields, stay as they are.  *)
FieldsIInv ==
  /\ LoopTypeOK
  /\ step \in BuiltSteps /\ Accepted(semanticFields) =>
       Carried /\ \A p \in DOMAIN source : Placed(p)
  /\ FieldsBuild
=============================================================================

----------------------- MODULE ResourceDocumentProofs -----------------------
(***************************************************************************)
(* Proofs about ResourceDocument: the account and the permissions in a     *)
(* document, for every set of clusters, accounts and resources, whatever   *)
(* the account operator has written when a lookup comes by.                *)
(***************************************************************************)
EXTENDS ResourceDocument, TLAPS

-----------------------------------------------------------------------------
(* Clusters and AccountInfos                                               *)

(* A resource has a cluster of its own, which is the first one asked.      *)
LEMMA OwnClusterComesFirst ==
  ASSUME NEW r \in ResourceInputs
  PROVE  /\ ResourceCluster(r) \in Clusters
         /\ ResourceCluster(r) # NoCluster
         /\ LookupClusters(r) \in Seq(Clusters)
         /\ LookupClusters(r) # <<>>
         /\ LookupClusters(r)[1] = ResourceCluster(r)
<1>0. /\ r.context \in Clusters
      /\ r.annotation \in Clusters \cup {NoCluster}
      /\ r.specCluster \in Clusters \cup {NoCluster}
      /\ NoCluster \notin Clusters
  BY DocumentAssumption DEF DocumentAssumption, ResourceOK
<1>1. ResourceCluster(r) \in Clusters /\ ResourceCluster(r) # NoCluster
  BY <1>0 DEF ResourceCluster
<1> DEFINE own == ResourceCluster(r)
           second == IF r.context = own THEN <<>> ELSE <<r.context>>
           third == IF r.specCluster \in {NoCluster, own, r.context} THEN <<>>
                    ELSE <<r.specCluster>>
<1>2. second \in Seq(Clusters) /\ third \in Seq(Clusters)
  BY <1>0
<1>3. LookupClusters(r) = <<own>> \o (second \o third)
  BY DEF LookupClusters
<1> HIDE DEF own, second, third
<1>4. own \in Clusters
  BY <1>1 DEF own
<1>5. /\ <<own>> \o (second \o third) \in Seq(Clusters)
      /\ <<own>> \o (second \o third) # <<>>
      /\ (<<own>> \o (second \o third))[1] = own
  BY <1>2, <1>4
<1> QED
  BY <1>1, <1>3, <1>5 DEF own

(* What is found in the workspace of an account describes that account.    *)
LEMMA AccountInfosDescribe ==
  ASSUME LookupTypeOK, InfosOfAccounts, NEW c \in Clusters, infos[c] # "none"
  PROVE  \E a \in Accounts : WorkspaceOf[a] = c /\ Describes(AccountInfoIn(c), a)
<1>1. PICK a \in Accounts : WorkspaceOf[a] = c
  BY DEF InfosOfAccounts
<1>2. AccountOf(c) = a
  BY <1>1, DocumentAssumption DEF DocumentAssumption, AccountOf
<1>3. infos[c] \in {"partial", "early", "complete"}
  BY DEF LookupTypeOK, Stages, Progress
<1>4. AccountInfoIn(c).account \in
        {Location(a), [Location(a) EXCEPT !.generated = NoCluster]}
  <2>1. CASE infos[c] = "partial"
    BY <1>2, <2>1 DEF AccountInfoIn, NoAccountInfo
  <2>2. CASE infos[c] = "early"
    BY <1>2, <2>2 DEF AccountInfoIn
  <2>3. CASE infos[c] = "complete"
    BY <1>2, <2>3 DEF AccountInfoIn
  <2> QED
    BY <1>3, <2>1, <2>2, <2>3
<1> QED
  BY <1>1, <1>4 DEF Describes

-----------------------------------------------------------------------------
(* The inductive invariant                                                 *)

(* The invariant holds initially.                                          *)
LEMMA InitIInv == Init => IInv
BY DEF Init, IInv, LookupTypeOK, InfosOfAccounts, OwnFirst, FoundInOwn, Built,
       Steps, LookupSteps, BuiltSteps, Stages, Progress

(* Every step of the lookup and of the document keeps it.                  *)
LEMMA NextIInv == IInv /\ [Next]_vars => IInv'
<1> SUFFICES ASSUME IInv, [Next]_vars PROVE IInv'
  OBVIOUS
<1> USE DEF Steps, LookupSteps, BuiltSteps
<1>0. LookupTypeOK /\ InfosOfAccounts /\ OwnFirst /\ FoundInOwn /\ Built
  BY DEF IInv
<1>own. Own \in Clusters
  BY <1>0, OwnClusterComesFirst DEF Own, LookupTypeOK
<1>1. ASSUME NEW c \in Clusters, ProvideAccountInfo(c) PROVE IInv'
  <2>1. infos' \in [Clusters -> Stages]
    BY <1>0, <1>1 DEF ProvideAccountInfo, LookupTypeOK, Stages
  <2>2. InfosOfAccounts'
    BY <1>0, <1>1 DEF ProvideAccountInfo, InfosOfAccounts, LookupTypeOK
  <2> QED
    BY <1>0, <1>1, <2>1, <2>2
       DEF ProvideAccountInfo, IInv, LookupTypeOK, OwnFirst, FoundInOwn, Built, Own, Special
<1>2. ASSUME Start PROVE IInv'
  <2>1. /\ candidates' \in Seq(Clusters) /\ candidates' # <<>>
        /\ Head(candidates') = Own
    BY <1>0, <1>2, OwnClusterComesFirst DEF Start, LookupTypeOK, Own
  <2>2. (step' = "path" /\ Special) \/ step' = "first"
    BY <1>2 DEF Start, Special
  <2> QED
    BY <1>0, <1>2, <2>1, <2>2
       DEF Start, IInv, LookupTypeOK, InfosOfAccounts, OwnFirst, FoundInOwn, Built, Own, Special
<1>3. ASSUME LookUpPath PROVE IInv'
  <2>1. Special
    BY <1>0, <1>3 DEF LookUpPath, OwnFirst
  <2>2. accountInfo' = accountInfo \/ \E a \in Accounts : Describes(accountInfo', a)
    <3> SUFFICES ASSUME NEW b \in Accounts, infos[WorkspaceOf[b]] # "none",
                        accountInfo' = AccountInfoIn(WorkspaceOf[b])
                 PROVE  \E a \in Accounts : Describes(accountInfo', a)
      BY <1>3 DEF LookUpPath
    <3>1. WorkspaceOf[b] \in Clusters
      BY DocumentAssumption DEF DocumentAssumption
    <3> QED
      BY <1>0, <3>1, AccountInfosDescribe
  <2> QED
    BY <1>0, <1>3, <2>1, <2>2
       DEF LookUpPath, IInv, LookupTypeOK, InfosOfAccounts, OwnFirst, FoundInOwn,
           Describes, Built, Special, Own
<1>4. ASSUME LookUp \/ LookUpAgain PROVE IInv'
  <2> DEFINE c == Head(candidates)
  <2>1. /\ step \in LookupSteps
        /\ candidates \in Seq(Clusters) /\ candidates # <<>>
        /\ UNCHANGED <<resource, infos, document>>
        /\ c = Own \/ Own \in missed
    BY <1>0, <1>4 DEF LookUp, LookUpAgain, LookupTypeOK, OwnFirst
  <2>2. c \in Clusters /\ Tail(candidates) \in Seq(Clusters)
    BY <2>1
  <2>3. CASE Found(c)
    <3>1. PICK a \in Accounts : WorkspaceOf[a] = c /\ Describes(accountInfo', a)
      BY <1>0, <2>2, <2>3, AccountInfosDescribe DEF Found
    <3> QED
      BY <1>0, <2>1, <2>3, <3>1
         DEF Found, IInv, LookupTypeOK, InfosOfAccounts, OwnFirst, FoundInOwn, Describes,
             Built, Special, Own
  <2>4. CASE NextCandidate(c)
    <3>1. Own \in missed' /\ missed' \subseteq Clusters
      BY <1>0, <2>1, <2>2, <2>4 DEF NextCandidate, LookupTypeOK
    <3> QED
      BY <1>0, <2>1, <2>2, <2>4, <3>1
         DEF NextCandidate, IInv, LookupTypeOK, InfosOfAccounts, OwnFirst, FoundInOwn,
             Describes, Built, Special, Own
  <2>5. CASE step' = "second" /\ UNCHANGED <<candidates, accountInfo, missed>>
    BY <1>0, <2>1, <2>5
       DEF IInv, LookupTypeOK, InfosOfAccounts, OwnFirst, FoundInOwn, Describes, Built,
           Special, Own
  <2> QED
    BY <1>4, <2>3, <2>4, <2>5 DEF LookUp, LookUpAgain
<1>5. ASSUME BuildDocument PROVE IInv'
  BY <1>0, <1>5
     DEF BuildDocument, IInv, LookupTypeOK, InfosOfAccounts, OwnFirst, FoundInOwn, Describes,
         Built, Special, Own
<1>6. ASSUME (\E field \in todo : SetField(field)) \/ IndexDocument PROVE IInv'
  <2>1. /\ UNCHANGED <<resource, infos, candidates, accountInfo, missed, document>>
        /\ step = "fields" /\ step' \in {"fields", "failed", "indexed"}
    BY <1>6 DEF SetField, IndexDocument
  <2> QED
    BY <1>0, <2>1
       DEF IInv, LookupTypeOK, InfosOfAccounts, OwnFirst, FoundInOwn, Describes, Built,
           Special, Own
<1>7. ASSUME Again PROVE IInv'
  BY <1>0, <1>7
     DEF Again, IInv, LookupTypeOK, InfosOfAccounts, OwnFirst, FoundInOwn, Built, Own
<1>8. ASSUME UNCHANGED vars PROVE IInv'
  BY <1>0, <1>8
     DEF vars, IInv, LookupTypeOK, InfosOfAccounts, OwnFirst, FoundInOwn, Describes, Built,
         Special, Own
<1> QED
  BY <1>1, <1>2, <1>3, <1>4, <1>5, <1>6, <1>7, <1>8 DEF Next

(* The own workspace is asked first, an AccountInfo describes the account  *)
(* of the workspace it was found in, and only a complete one makes a       *)
(* document.                                                               *)
THEOREM Invariance == Spec => []IInv
BY InitIInv, NextIInv, PTL DEF Spec

-----------------------------------------------------------------------------
(* The account in a document                                               *)

(* A document that does not come from another cluster after a failed or    *)
(* early lookup names the account whose workspace the resource is in.      *)
THEOREM AccountIsOfWorkspace == Spec => []AccountOfWorkspace
<1>1. IInv => AccountOfWorkspace
  <2> SUFFICES ASSUME IInv, step = "indexed", LookupClusters(resource)[1] \notin missed,
                      ~Special
               PROVE  FromOwnWorkspace
    BY DEF AccountOfWorkspace, Special
  <2>1. Own \notin missed
    BY OwnClusterComesFirst DEF IInv, LookupTypeOK, Own
  <2>2. PICK a \in Accounts : WorkspaceOf[a] = Own /\ Describes(accountInfo, a)
    BY <2>1 DEF IInv, FoundInOwn, BuiltSteps
  <2>3. document.account = a
    BY <2>2 DEF IInv, Built, BuiltSteps, NewDocument, Describes, Location
  <2> QED
    BY <2>2, <2>3 DEF FromOwnWorkspace, Own
<1> QED
  BY <1>1, Invariance, PTL

-----------------------------------------------------------------------------
(* The parents in a document                                               *)

(* The account's object in a permission is the one its document bears.     *)
LEMMA AccountObjectIsDocuments ==
  ASSUME NEW info, NEW a, Describes(info, a)
  PROVE  /\ AccountObject(info) = AccountDocument(a)
         /\ AccountDocument(a) = <<CoreGroup, "Account", HomeOf[a], NoNamespace, a>>
BY DEF Describes, Location, AccountObject, AccountDocument, FGAObject, FGAObjectName,
       IsOrganization, IsAccount, IsWorkspace, NoAccountInfo, NoLocation, Or,
       CoreGroup, SearchGroup

(* The namespace's object is the one its document bears, even without the  *)
(* cluster ID of the account's workspace in the AccountInfo.               *)
LEMMA NamespaceObjectIsDocuments ==
  ASSUME NEW r, NEW info, NEW a, Describes(info, a),
         ResourceCluster(r) = WorkspaceOf[a], ResourceCluster(r) # NoCluster
  PROVE  /\ NamespaceObject(r, info) = NamespaceDocument(ResourceCluster(r), r.namespace)
         /\ NamespaceObject(r, info) =
              <<"", "Namespace", ResourceCluster(r), NoNamespace, r.namespace>>
BY DEF Describes, Location, NamespaceObject, NamespaceDocument, FGAObject, FGAObjectName,
       IsOrganization, IsAccount, IsWorkspace, NoAccountInfo, NoLocation, Or, SearchGroup

(* No account and namespace share an object.                               *)
LEMMA AccountsAreNoNamespaces ==
  ASSUME NEW c, NEW d, NEW n, NEW m, NEW k, NEW l
  PROVE  <<"", "Namespace", c, n, k>> # <<CoreGroup, "Account", d, m, l>>
BY DEF CoreGroup

(* The permissions in a document chain the resource, through its namespace *)
(* if it has one, to the object that the document of its account bears.    *)
(* That namespace is a document's, too, if the AccountInfo is that of the  *)
(* resource's own workspace.  Nothing is said of Organizations.            *)
THEOREM ParentsExist == Spec => []ParentsAreDocuments
<1>1. IInv => ParentsAreDocuments
  <2> SUFFICES ASSUME IInv, step = "indexed",
                      ~IsOrganization(resource.group, resource.kind),
                      NEW t \in document.permissions
               PROVE  LET owner == AccountDocument(document.account) IN
                      \/ t.user = owner /\ t.object # owner
                      \/ /\ Tuple(owner, t.user) \in document.permissions
                         /\ FromOwnWorkspace =>
                              t.user = NamespaceDocument(ResourceCluster(resource),
                                                         resource.namespace)
    BY DEF ParentsAreDocuments
  <2> DEFINE c == ResourceCluster(resource)
             a == document.account
             owner == AccountDocument(a)
             ns == NamespaceObject(resource, accountInfo)
             own == ObjectOf(resource, accountInfo)
  <2>1. document = NewDocument(resource, accountInfo) /\ Complete(accountInfo)
    BY DEF IInv, Built, BuiltSteps
  <2>2. Describes(accountInfo, a)
    <3>1. accountInfo # NoAccountInfo
      BY <2>1 DEF Complete, NoAccountInfo, NoLocation
    <3>2. PICK b \in Accounts : Describes(accountInfo, b)
      BY <3>1 DEF IInv, FoundInOwn
    <3>3. accountInfo.account.name = b
      BY <3>2 DEF Describes, Location
    <3> QED
      BY <2>1, <3>2, <3>3 DEF NewDocument
  <2>3. ParentObject(resource, accountInfo) = owner
    BY <2>2, AccountObjectIsDocuments DEF ParentObject
  <2>4. ns # owner
    <3>1. owner = <<CoreGroup, "Account", HomeOf[a], NoNamespace, a>>
      BY <2>2, AccountObjectIsDocuments
    <3>2. PICK d : ns = <<"", "Namespace", d, NoNamespace, resource.namespace>>
      BY DEF NamespaceObject, FGAObjectName
    <3> QED
      BY <3>1, <3>2, AccountsAreNoNamespaces
  <2>5. FromOwnWorkspace => ns = NamespaceDocument(c, resource.namespace)
    <3>1. c # NoCluster
      BY OwnClusterComesFirst DEF IInv, LookupTypeOK
    <3> QED
      BY <2>2, <3>1, NamespaceObjectIsDocuments DEF FromOwnWorkspace
  <2>6. document.permissions =
          IF resource.namespace # NoNamespace THEN {Tuple(ns, own), Tuple(owner, ns)}
          ELSE IF own # owner THEN {Tuple(owner, own)} ELSE {}
    BY <2>1, <2>3 DEF NewDocument, Permissions
  <2> HIDE DEF c, a, owner, ns, own
  <2>7. \/ t.user = owner /\ t.object # owner
        \/ t.user = ns /\ Tuple(owner, ns) \in document.permissions
    BY <2>4, <2>6 DEF Tuple
  <2> QED
    BY <2>5, <2>7 DEF c, a, owner
<1> QED
  BY <1>1, Invariance, PTL
=============================================================================

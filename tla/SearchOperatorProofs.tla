------------------------ MODULE SearchOperatorProofs ------------------------
(***************************************************************************)
(* Proofs about the three controllers in one process.  What PromiseProofs  *)
(* shows of the SearchIndex controller alone, and ResourceWatcherProofs of *)
(* the resource controllers, is carried over: each step of the operator is *)
(* a step of that controller or leaves alone all it relies on.             *)
(***************************************************************************)
EXTENDS SearchOperator, TLAPS

Lifecycle == INSTANCE PromiseProofs
  WITH SearchIndexes <- {SearchIndexName},
       IndexNames <- {SearchIndexName, Org},
       OrgOf <- [n \in {SearchIndexName} |-> Org],
       LegacyIndexes <- {},
       api <- indexApi, cache <- indexCache, queue <- indexQueue, job <- indexJob

-----------------------------------------------------------------------------
(* The SearchIndex controller in the operator                              *)

(* The constants are as PromiseProofs wants them ...                       *)
LEMMA Assumptions == Lifecycle!NamesAssumption /\ Lifecycle!ParametersAssumption
<1>1. Lifecycle!IsFiniteSet({SearchIndexName})
  <2>1. <<SearchIndexName>> \in Seq({SearchIndexName})
    OBVIOUS
  <2>2. \A s \in {SearchIndexName} :
          \E n \in 1 .. Len(<<SearchIndexName>>) : <<SearchIndexName>>[n] = s
    OBVIOUS
  <2> QED
    BY <2>1, <2>2 DEF Lifecycle!IsFiniteSet
<1> QED
  BY <1>1, OperatorAssumption
     DEF OperatorAssumption, Lifecycle!NamesAssumption, Lifecycle!ParametersAssumption,
         Lifecycle!Spec0

(* ... and one SearchIndex shares with no other.                           *)
LEMMA OneTenant == Lifecycle!SoleTenant /\ Lifecycle!NamesApart
BY DEF Lifecycle!SoleTenant, Lifecycle!NamesApart

(* The operator starts as the SearchIndex controller does.                 *)
LEMMA InitLifecycle == Init => Lifecycle!Init
BY DEF Init, Indexing!Init, Lifecycle!Init, Indexing!Absent, Lifecycle!Absent,
       Indexing!Idle, Lifecycle!Idle, Indexing!NoSettings, Lifecycle!NoSettings

(* A step of the SearchIndex controller or its users is one in             *)
(* PromiseProofs.                                                          *)
LEMMA LifecycleSteps ==
  ASSUME \/ Indexing!Users(SearchIndexName) \/ Indexing!Observe(SearchIndexName)
         \/ Indexing!Begin(SearchIndexName) \/ Indexing!Process(SearchIndexName)
         \/ Indexing!Finalization(SearchIndexName)
         \/ Indexing!RequestFails(SearchIndexName) \/ Indexing!Restart
  PROVE  Lifecycle!Next
<1> DEFINE S == SearchIndexName
<1> USE DEF Indexing!store, Lifecycle!store, Indexing!Idle, Lifecycle!Idle,
            Indexing!Absent, Lifecycle!Absent, Indexing!Bump, Lifecycle!Bump,
            Indexing!Continue, Lifecycle!Continue, Indexing!Done, Lifecycle!Done,
            Indexing!Retry, Lifecycle!Retry, Indexing!LoseReply, Lifecycle!LoseReply,
            Indexing!ContinueOrLoseReply, Lifecycle!ContinueOrLoseReply,
            Indexing!Fresh, Lifecycle!Fresh, Indexing!IndexExists, Lifecycle!IndexExists
<1>1. Indexing!Users(S) => Lifecycle!Users(S)
  BY DEF Indexing!Users, Lifecycle!Users, Indexing!CreateSearchIndex,
         Lifecycle!CreateSearchIndex, Indexing!AddSearchIndex, Lifecycle!AddSearchIndex,
         Indexing!EditSpec, Lifecycle!EditSpec, Indexing!DeleteSearchIndex,
         Lifecycle!DeleteSearchIndex
<1>2. Indexing!Observe(S) => Lifecycle!Observe(S)
  BY DEF Indexing!Observe, Lifecycle!Observe
<1>3. Indexing!Begin(S) => Lifecycle!Begin(S)
  BY DEF Indexing!Begin, Lifecycle!Begin, Indexing!Running, Lifecycle!Running,
         Indexing!FirstStep, Lifecycle!FirstStep, Indexing!Cardinality,
         Lifecycle!Cardinality
<1>4. Indexing!AddFinalizer(S) => Lifecycle!AddFinalizer(S)
  BY DEF Indexing!AddFinalizer, Lifecycle!AddFinalizer
<1>5. Indexing!EnsureMetadata(S) => Lifecycle!EnsureMetadata(S)
  BY DEF Indexing!EnsureMetadata, Lifecycle!EnsureMetadata, Indexing!Proceed,
         Lifecycle!Proceed, Indexing!Labelled, Lifecycle!Labelled
<1>6. Indexing!ProbeDesired(S) => Lifecycle!ProbeDesired(S)
  BY DEF Indexing!ProbeDesired, Lifecycle!ProbeDesired
<1>7. Indexing!ProbeLegacy(S) => Lifecycle!ProbeLegacy(S)
  BY DEF Indexing!ProbeLegacy, Lifecycle!ProbeLegacy
<1>8. Indexing!CreateProbe(S) => Lifecycle!CreateProbe(S)
  BY DEF Indexing!CreateProbe, Lifecycle!CreateProbe
<1>9. Indexing!CreateIndex(S) => Lifecycle!CreateIndex(S)
  BY DEF Indexing!CreateIndex, Lifecycle!CreateIndex, Indexing!PutIndex,
         Lifecycle!PutIndex, Indexing!NumberOfShards, Lifecycle!NumberOfShards,
         Indexing!NumberOfReplicas, Lifecycle!NumberOfReplicas
<1>10. Indexing!CheckSettings(S) => Lifecycle!CheckSettings(S)
  BY DEF Indexing!CheckSettings, Lifecycle!CheckSettings, Indexing!HasIndexSettings,
         Lifecycle!HasIndexSettings, Indexing!NumberOfShards, Lifecycle!NumberOfShards,
         Indexing!NumberOfReplicas, Lifecycle!NumberOfReplicas
<1>11. Indexing!UpdateReplicas(S) => Lifecycle!UpdateReplicas(S)
  BY DEF Indexing!UpdateReplicas, Lifecycle!UpdateReplicas, Indexing!PutReplicas,
         Lifecycle!PutReplicas, Indexing!NumberOfReplicas, Lifecycle!NumberOfReplicas
<1>12. Indexing!EnsureAllAlias(S) => Lifecycle!EnsureAllAlias(S)
  BY DEF Indexing!EnsureAllAlias, Lifecycle!EnsureAllAlias, Indexing!PutAlias,
         Lifecycle!PutAlias
<1>13. Indexing!EnsureCanonicalAlias(S) => Lifecycle!EnsureCanonicalAlias(S)
  BY DEF Indexing!EnsureCanonicalAlias, Lifecycle!EnsureCanonicalAlias,
         Indexing!PutAlias, Lifecycle!PutAlias
<1>14. Indexing!UpdateStatus(S) => Lifecycle!UpdateStatus(S)
  BY DEF Indexing!UpdateStatus, Lifecycle!UpdateStatus
<1>15. Indexing!Finalize(S) => Lifecycle!Finalize(S)
  BY DEF Indexing!Finalize, Lifecycle!Finalize
<1>16. Indexing!DeleteIndex(S) => Lifecycle!DeleteIndex(S)
  BY DEF Indexing!DeleteIndex, Lifecycle!DeleteIndex, Indexing!DropIndex,
         Lifecycle!DropIndex, Indexing!NoSettings, Lifecycle!NoSettings
<1>17. Indexing!RemoveFinalizer(S) => Lifecycle!RemoveFinalizer(S)
  BY DEF Indexing!RemoveFinalizer, Lifecycle!RemoveFinalizer
<1>18. Indexing!RequestFails(S) => Lifecycle!RequestFails(S)
  BY DEF Indexing!RequestFails, Lifecycle!RequestFails, Indexing!Silent, Lifecycle!Silent
<1>19. Indexing!Restart => Lifecycle!Restart
  BY DEF Indexing!Restart, Lifecycle!Restart
<1> QED
  BY <1>1, <1>2, <1>3, <1>4, <1>5, <1>6, <1>7, <1>8, <1>9, <1>10, <1>11, <1>12, <1>13,
     <1>14, <1>15, <1>16, <1>17, <1>18, <1>19
     DEF Lifecycle!Next, Indexing!Process, Lifecycle!Process, Indexing!Finalization,
         Lifecycle!Finalization

-----------------------------------------------------------------------------
(* The other two controllers                                               *)

Counted == edits \in 0 .. MaxEdits /\ faults \in 0 .. MaxFaults

\* What the SearchIndex controller owns stays.
Apart == UNCHANGED <<storeVars, indexApi, indexVars>>

(* A step that leaves it all alone is one of the others' to PromiseProofs. *)
LEMMA ApartIsForeign ==
  ASSUME Apart, Counted'
  PROVE  Lifecycle!Foreign(SearchIndexName)
BY DEF Apart, Counted, storeVars, indexVars, Lifecycle!Foreign, Lifecycle!store

(* The steps of a binding and its controller that only read.               *)
LEMMA BindingReadsOnly ==
  ASSUME Counted, NEW b \in Bindings,
         \/ BindingEvent(b) \/ BindingObserve(b) \/ BindingBegin(b) \/ BindingGet(b)
         \/ BindingRequestFails(b)
  PROVE  Apart /\ Counted' /\ UNCHANGED docs
<1>0. Apart /\ UNCHANGED docs
  BY DEF BindingEvent, BindingObserve, BindingBegin, BindingGet, BindingRequestFails,
         BindingReads, Apart
<1>1. CASE BindingEvent(b)
  BY <1>0, <1>1, OperatorAssumption
     DEF OperatorAssumption, BindingEvent, BindingReads, Counted, Binding!ChangeBinding
<1>2. CASE BindingObserve(b)
  BY <1>0, <1>2 DEF BindingObserve, BindingReads, Counted, Binding!Observe
<1>3. CASE BindingBegin(b)
  BY <1>0, <1>3 DEF BindingBegin, BindingReads, Counted, Binding!Begin
<1>4. CASE BindingGet(b)
  BY <1>0, <1>4 DEF BindingGet, BindingReads, Counted, Binding!Get, Binding!Advance
<1>5. CASE BindingRequestFails(b)
  BY <1>0, <1>5, OperatorAssumption
     DEF OperatorAssumption, BindingRequestFails, BindingReads, Counted,
         Binding!RequestFails, Binding!LoseReply
<1> QED
  BY <1>0, <1>1, <1>2, <1>3, <1>4, <1>5

(* The writes of ensureSearchIndex.                                        *)
LEMMA BindingWrites ==
  ASSUME Counted, NEW b \in Bindings, BindingCreate(b) \/ BindingUpdate(b)
  PROVE  Lifecycle!Foreign(SearchIndexName) /\ UNCHANGED docs
<1>1. Counted'
  BY OperatorAssumption
     DEF OperatorAssumption, BindingCreate, BindingUpdate, Counted, Binding!Create,
         Binding!Update, Binding!Advance, Binding!LoseReply, Binding!Retry
<1>2. CASE BindingCreate(b)
  BY <1>1, <1>2
     DEF BindingCreate, storeVars, indexVars, Lifecycle!Foreign, Lifecycle!store, Counted,
         Indexing!AddSearchIndex, Lifecycle!AddSearchIndex, Indexing!Absent,
         Lifecycle!Absent
<1>3. CASE BindingUpdate(b)
  BY <1>1, <1>3
     DEF BindingUpdate, storeVars, indexVars, Lifecycle!Foreign, Lifecycle!store, Counted,
         Indexing!Bump, Lifecycle!Bump
<1> QED
  BY <1>2, <1>3

(* The steps of a resource and its controller, but those of a reconcile.   *)
LEMMA ResourceApart ==
  ASSUME Counted, NEW r \in Resources,
         \/ ResourceUsers(r) \/ ResourceAccount(r) \/ ResourceObserve(r)
         \/ ResourceBegin(r) \/ ResourceRequestFails(r)
  PROVE  Apart /\ Counted'
<1>0. Apart
  BY DEF ResourceUsers, ResourceAccount, ResourceObserve, ResourceBegin,
         ResourceRequestFails, ResourceStep, Apart
<1>1. CASE ResourceUsers(r) \/ ResourceAccount(r) \/ ResourceObserve(r) \/ ResourceBegin(r)
  BY <1>0, <1>1, OperatorAssumption
     DEF OperatorAssumption, ResourceUsers, ResourceAccount, ResourceObserve,
         ResourceBegin, ResourceStep, Counted, Resource!Users, Resource!CreateResource,
         Resource!EditResource, Resource!DeleteResource, Resource!ProvideAccountInfo,
         Resource!Observe, Resource!Begin
<1>2. CASE ResourceRequestFails(r)
  BY <1>0, <1>2, OperatorAssumption
     DEF OperatorAssumption, ResourceRequestFails, ResourceStep, Counted,
         Resource!RequestFails, Resource!LoseReply
<1> QED
  BY <1>1, <1>2

(* Those of a reconcile bring the index back at most.                      *)
LEMMA ReconcileIsForeign ==
  ASSUME Counted, NEW r \in Resources, ResourceReconcile(r)
  PROVE  Lifecycle!Foreign(SearchIndexName)
<1>0. Resource!Reconcile(r) /\ UNCHANGED <<indexApi, indexVars>>
  BY DEF ResourceReconcile
<1>1. Counted'
  <2> USE OperatorAssumption
      DEF OperatorAssumption, Counted, Resource!LoseReply, Resource!Retry, Resource!Done,
          Resource!Continue
  <2>1. CASE Resource!AddFinalizer(r) \/ Resource!RemoveFinalizer(r)
    BY <2>1 DEF Resource!AddFinalizer, Resource!RemoveFinalizer
  <2>2. CASE Resource!GetSearchIndex(r) \/ Resource!GetAccountInfo(r) \/ Resource!FindIndex(r)
    BY <2>2 DEF Resource!GetSearchIndex, Resource!GetAccountInfo, Resource!FindIndex
  <2>3. CASE Resource!IndexDocument(r) \/ Resource!DeleteDocument(r)
    BY <2>3 DEF Resource!IndexDocument, Resource!DeleteDocument
  <2> QED
    BY <1>0, <2>1, <2>2, <2>3 DEF Resource!Reconcile
<1>2. CASE UNCHANGED storeVars
  BY <1>0, <1>1, <1>2, ApartIsForeign DEF Apart
<1>3. CASE /\ SearchIndexName \notin indices
           /\ Indexing!PutIndex(SearchIndexName, Indexing!AutoSettings)
  <2>1. index = "none" /\ index' # "none"
    BY <1>3 DEF index, Indexing!PutIndex
  <2>2. Resource!IndexDocument(r)
    BY <1>0, <2>1 DEF Resource!Reconcile, Resource!AddFinalizer, Resource!GetSearchIndex,
         Resource!GetAccountInfo, Resource!FindIndex, Resource!DeleteDocument,
         Resource!RemoveFinalizer, Resource!world
  <2>3. AutoCreateIndex
    BY <2>1, <2>2 DEF Resource!IndexDocument
  <2>4. Lifecycle!AutoMade(SearchIndexName)
    BY <1>3, <2>3 DEF Lifecycle!AutoMade, Indexing!PutIndex, Lifecycle!PutIndex,
         Indexing!AutoSettings, Lifecycle!AutoSettings
  <2> QED
    BY <1>0, <1>1, <2>4 DEF Lifecycle!Foreign, Counted, indexVars
<1> QED
  BY <1>2, <1>3 DEF ResourceReconcile

(* So every step is one of the SearchIndex controller or another's.        *)
LEMMA NextLifecycle ==
  ASSUME Counted, [Next]_vars
  PROVE  Lifecycle!Next \/ Lifecycle!Foreign(SearchIndexName)
<1>1. CASE UNCHANGED vars
  BY <1>1, ApartIsForeign DEF vars, Apart, Counted
<1>2. CASE IndexUsers \/ IndexObserve \/ IndexBegin \/ IndexReconcile \/ IndexRequestFails
           \/ Restart
  BY <1>2, LifecycleSteps
     DEF IndexUsers, IndexObserve, IndexBegin, IndexReconcile, IndexProcess,
         IndexFinalization, IndexRequestFails, SearchIndexStep, Restart
<1>3. ASSUME NEW b \in Bindings,
             \/ BindingEvent(b) \/ BindingObserve(b) \/ BindingBegin(b)
             \/ BindingReconcile(b) \/ BindingRequestFails(b)
      PROVE  Lifecycle!Foreign(SearchIndexName)
  BY <1>3, BindingReadsOnly, BindingWrites, ApartIsForeign DEF BindingReconcile
<1>4. ASSUME NEW r \in Resources,
             \/ ResourceUsers(r) \/ ResourceAccount(r)
             \/ ResourceObserve(r) \/ ResourceBegin(r)
             \/ ResourceReconcile(r) \/ ResourceRequestFails(r)
      PROVE  Lifecycle!Foreign(SearchIndexName)
  BY <1>4, ResourceApart, ApartIsForeign, ReconcileIsForeign
<1> QED
  BY <1>1, <1>2, <1>3, <1>4 DEF Next

-----------------------------------------------------------------------------
(* The promise                                                             *)

(* What the promise rests on holds in the operator, too.                   *)
LEMMA NextInv ==
  ASSUME Lifecycle!PromiseInv, [Next]_vars
  PROVE  Lifecycle!PromiseInv'
<1>1. Counted
  BY DEF Lifecycle!PromiseInv, Lifecycle!IInv, Lifecycle!TypeOK, Counted
<1>2. CASE Lifecycle!Next
  BY <1>2, Assumptions, OneTenant, Lifecycle!NextPromiseInv
<1>3. CASE Lifecycle!Foreign(SearchIndexName)
  BY <1>3, Assumptions, Lifecycle!ForeignPromiseInv
<1> QED
  BY <1>1, <1>2, <1>3, NextLifecycle

(* Every step is a step of the promise, or no step of it.                  *)
LEMMA NextPromise ==
  ASSUME Lifecycle!PromiseInv, [Next]_vars
  PROVE  [Promise!Next]_(Promise!vars)
<1> DEFINE S == SearchIndexName
<1>1. Counted
  BY DEF Lifecycle!PromiseInv, Lifecycle!IInv, Lifecycle!TypeOK, Counted
<1>2. [Lifecycle!Promise(S)!Next]_(Lifecycle!Promise(S)!vars)
  <2>1. CASE Lifecycle!Next
    BY <2>1, NextInv, Assumptions, OneTenant, Lifecycle!NextPromise
  <2>2. CASE Lifecycle!Foreign(S)
    BY <2>2, Assumptions, Lifecycle!ForeignPromise
  <2> QED
    BY <1>1, <2>1, <2>2, NextLifecycle
<1>3. /\ index = IF Lifecycle!Homes(S) \cap Lifecycle!Made # {} THEN "made"
                 ELSE IF Lifecycle!Homes(S) \cap indices # {} THEN "auto" ELSE "none"
      /\ index' = IF (Lifecycle!Homes(S) \cap Lifecycle!Made # {})' THEN "made"
                  ELSE IF (Lifecycle!Homes(S) \cap indices # {})' THEN "auto" ELSE "none"
  BY DEF Lifecycle!Homes, Lifecycle!Made, index
<1> QED
  BY <1>2, <1>3
     DEF Lifecycle!Promise!Next, Lifecycle!Promise!vars, Promise!Next, Promise!vars,
         Lifecycle!Promise!Create, Promise!Create, Lifecycle!Promise!MakeIndex,
         Promise!MakeIndex, Lifecycle!Promise!AutoMakeIndex, Promise!AutoMakeIndex,
         Lifecycle!Promise!Publish, Promise!Publish,
         Lifecycle!Promise!Delete, Promise!Delete, Lifecycle!Promise!DropIndex,
         Promise!DropIndex, Lifecycle!Promise!Release, Promise!Release,
         Lifecycle!Published, object

(* The SearchIndex in the operator keeps the promise that the other two    *)
(* controllers count on, although ensureSearchIndex creates and updates it *)
(* whenever a binding asks, for any number of bindings and resources.      *)
THEOREM PromiseIsKept == Spec => PromiseKept
<1>1. Init => Lifecycle!PromiseInv
  BY InitLifecycle, Assumptions, OneTenant, Lifecycle!InitPromiseInv
<1>2. Lifecycle!PromiseInv /\ [Next]_vars => Lifecycle!PromiseInv'
  BY NextInv
<1>3. Init => Promise!Init
  BY DEF Init, Indexing!Init, Indexing!Absent, Promise!Init, object, index
<1>4. Lifecycle!PromiseInv /\ [Next]_vars => [Promise!Next]_(Promise!vars)
  BY NextPromise
<1> QED
  BY <1>1, <1>2, <1>3, <1>4, PTL DEF Spec, PromiseKept, Promise!Spec

-----------------------------------------------------------------------------
(* Documents and searches                                                  *)

(* What an index has of aliases goes with it only.                         *)
LEMMA AliasesStay ==
  ASSUME Lifecycle!PromiseInv, [Next]_vars, SearchIndexName \in indices',
         NEW a, <<a, SearchIndexName>> \in aliases
  PROVE  <<a, SearchIndexName>> \in aliases'
<1>0. Counted /\ Lifecycle!TypeOK
  BY DEF Lifecycle!PromiseInv, Lifecycle!IInv, Lifecycle!TypeOK, Counted
<1>1. CASE Lifecycle!Foreign(SearchIndexName) \/ aliases \subseteq aliases'
  BY <1>1 DEF Lifecycle!Foreign, Lifecycle!store, Lifecycle!AutoMade, Lifecycle!PutIndex
<1>2. CASE \E m \in {SearchIndexName} :
             Lifecycle!DropIndex(indexJob[m].copy.indexName)
  BY <1>2 DEF Lifecycle!DropIndex
<1> QED
  BY <1>0, <1>1, <1>2, NextLifecycle, Assumptions, Lifecycle!WhoDrops

(* A published index can be searched.                                      *)
LEMMA NextReachable ==
  ASSUME Lifecycle!PromiseInv, [Next]_vars, PublishedIsReachable
  PROVE  PublishedIsReachable'
<1> DEFINE S == SearchIndexName
           Home == object.indexName \in {S, NoIndex}
           Reachable == Lifecycle!Reachable(S)
<1> USE DEF Lifecycle!Reachable, Lifecycle!Published, object
<1>0. Counted /\ Lifecycle!TypeOK /\ Lifecycle!PromiseInv' /\ NoIndex # S
  BY NextInv, OperatorAssumption
     DEF OperatorAssumption, Lifecycle!PromiseInv, Lifecycle!IInv, Lifecycle!TypeOK, Counted
<1>1. Home /\ Home'
  BY <1>0 DEF Lifecycle!PromiseInv, Lifecycle!IInv, Lifecycle!AtHome, Lifecycle!Homes
<1>2. index = "made" <=> S \in Lifecycle!Made
  BY DEF index, Lifecycle!Made
<1>3. index' = "made" <=> S \in Lifecycle!Made'
  BY DEF index, Lifecycle!Made
<1>4. NoIndex \notin Lifecycle!Made
  BY <1>0, OperatorAssumption
     DEF OperatorAssumption, Lifecycle!TypeOK, Lifecycle!StoreTypeOK, Lifecycle!Made
<1>5. Reachable
  BY <1>0, <1>1, <1>2, <1>4 DEF PublishedIsReachable
<1>6. Reachable'
  <2>1. CASE Lifecycle!Next
    BY <1>5, <2>1, Assumptions, OneTenant, Lifecycle!NextReachable
  <2>2. CASE Lifecycle!Foreign(S)
    BY <1>0, <1>5, <2>2, Assumptions, Lifecycle!ForeignReachable
  <2> QED
    BY <1>0, <2>1, <2>2, NextLifecycle
<1>7. ASSUME object'.phase = "live", object'.indexName # NoIndex
      PROVE  <<AllAlias, S>> \in aliases'
  BY <1>0, <1>1, <1>7 DEF Lifecycle!PromiseInv, Lifecycle!StatusOK
<1> QED
  BY <1>1, <1>3, <1>6, <1>7 DEF PublishedIsReachable

\* The document d is written by a step that leaves the SearchIndex and its index
\* as they are, or finds no index and brings it back.
Written(d) ==
  /\ UNCHANGED <<indexApi, aliases>>
  /\ index' = IF index = "none" THEN "auto" ELSE index
  /\ docs'[d].named = (object.indexName # NoIndex)

\* What a step may do to the documents.
DocumentsStep ==
  /\ docs' = [d \in DocIds |-> docs'[d]]
  /\ \A d \in DocIds :
       Resource!IsDoc(docs'[d]) =>
         \/ docs'[d] = docs[d] /\ (index = "none" \/ index' = index)
         \/ Written(d)

(* A document is written to the index, and goes with it.                   *)
LEMMA HowDocumentsChange ==
  ASSUME [Next]_vars, docs = [d \in DocIds |-> docs[d]]
  PROVE  DocumentsStep
<1>1. ASSUME NEW step, SearchIndexStep(step)
      PROVE  DocumentsStep
  BY <1>1 DEF SearchIndexStep, Resource!FollowIndex, Resource!IsDoc, DocumentsStep
<1>2. ASSUME UNCHANGED docs, index' = index
      PROVE  DocumentsStep
  BY <1>2 DEF DocumentsStep
<1>s. ASSUME UNCHANGED storeVars PROVE index' = index
  BY <1>s DEF storeVars, index
<1>3. CASE Restart
  BY <1>2, <1>3 DEF Restart, Resource!Restart, Resource!world
<1>4. ASSUME NEW b \in Bindings,
             \/ BindingEvent(b) \/ BindingObserve(b) \/ BindingBegin(b)
             \/ BindingReconcile(b) \/ BindingRequestFails(b)
      PROVE  DocumentsStep
  BY <1>2, <1>s, <1>4 DEF BindingEvent, BindingObserve, BindingBegin, BindingReconcile,
       BindingGet, BindingCreate, BindingUpdate, BindingRequestFails, BindingReads
<1>5. ASSUME NEW r \in Resources,
             \/ ResourceUsers(r) \/ ResourceAccount(r)
             \/ ResourceObserve(r) \/ ResourceBegin(r) \/ ResourceRequestFails(r)
      PROVE  DocumentsStep
  BY <1>2, <1>s, <1>5 DEF ResourceUsers, ResourceAccount, ResourceObserve, ResourceBegin,
       ResourceRequestFails, ResourceStep, Resource!world, Resource!Users,
       Resource!CreateResource, Resource!EditResource, Resource!DeleteResource,
       Resource!SetContent, Resource!ProvideAccountInfo, Resource!Observe,
       Resource!Begin, Resource!RequestFails
<1>6. ASSUME NEW r \in Resources, ResourceReconcile(r)
      PROVE  DocumentsStep
  <2>0. UNCHANGED <<indexApi, aliases>>
    BY <1>6 DEF ResourceReconcile, storeVars, Indexing!PutIndex
  <2>1. CASE Resource!IndexDocument(r)
    BY <2>0, <2>1 DEF Resource!IndexDocument, Resource!NewDocument, Written, DocumentsStep
  <2>2. CASE Resource!DeleteDocument(r)
    BY <2>2 DEF Resource!DeleteDocument, Resource!IsDoc, DocumentsStep
  <2>3. CASE \/ Resource!AddFinalizer(r) \/ Resource!GetSearchIndex(r)
             \/ Resource!GetAccountInfo(r) \/ Resource!FindIndex(r)
             \/ Resource!RemoveFinalizer(r)
    BY <1>2, <2>3 DEF Resource!AddFinalizer, Resource!GetSearchIndex,
         Resource!GetAccountInfo, Resource!FindIndex, Resource!RemoveFinalizer,
         Resource!world
  <2> QED
    BY <1>6, <2>1, <2>2, <2>3 DEF ResourceReconcile, Resource!Reconcile
<1>7. CASE UNCHANGED vars
  BY <1>2, <1>s, <1>7 DEF vars
<1> QED
  BY <1>1, <1>3, <1>4, <1>5, <1>6, <1>7
     DEF Next, IndexUsers, IndexObserve, IndexBegin, IndexReconcile,
         IndexProcess, IndexFinalization, IndexRequestFails

(* What documents rest on holds at the start ...                           *)
LEMMA InitDocumentsInv == Init => DocumentsInv
<1> SUFFICES ASSUME Init PROVE DocumentsInv
  OBVIOUS
<1>1. object.indexName = NoIndex /\ docs = [d \in DocIds |-> NoDoc]
  BY DEF Init, Indexing!Init, Indexing!Absent, Resource!Init, object
<1> QED
  BY <1>1 DEF DocumentsInv, PublishedIsReachable, DocumentsReachable, Stored, Resource!IsDoc

(* ... and ever after.                                                     *)
LEMMA NextDocumentsInv ==
  ASSUME Lifecycle!PromiseInv, DocumentsInv, [Next]_vars
  PROVE  DocumentsInv'
<1>0. docs = [d \in DocIds |-> docs[d]] /\ PublishedIsReachable
  BY DEF DocumentsInv
<1>1. DocumentsStep
  BY <1>0, HowDocumentsChange
<1>2. PublishedIsReachable'
  BY <1>0, NextReachable
<1>i. index' # "none" <=> SearchIndexName \in indices'
  BY DEF index
<1>3. ASSUME NEW d \in DocIds, Resource!IsDoc(docs'[d])
      PROVE  /\ SearchIndexName \in indices'
             /\ docs'[d].named /\ index' = "made" => <<AllAlias, SearchIndexName>> \in aliases'
  <2>1. CASE Written(d)
    BY <1>0, <1>i, <2>1 DEF Written, PublishedIsReachable
  <2>2. CASE docs'[d] = docs[d] /\ (index = "none" \/ index' = index)
    <3>1. index # "none" /\ index' = index
      BY <1>3, <2>2 DEF DocumentsInv, Stored, Resource!IsDoc, index
    <3>2. docs[d].named /\ index = "made" => <<AllAlias, SearchIndexName>> \in aliases
      BY <1>3, <2>2 DEF DocumentsInv, DocumentsReachable, Resource!IsDoc
    <3> QED
      BY <1>i, <2>2, <3>1, <3>2, AliasesStay
  <2> QED
    BY <1>1, <1>3, <2>1, <2>2 DEF DocumentsStep
<1>4. DocumentsReachable'
  BY <1>2, <1>3 DEF DocumentsReachable, PublishedIsReachable, Resource!IsDoc
<1> QED
  BY <1>1, <1>2, <1>3, <1>4 DEF DocumentsInv, Stored, DocumentsStep, Resource!IsDoc

(* A document that was written under the published name is in an index     *)
(* that carries the alias searches go through, for as long as it exists:   *)
(* through deletion, restarts, failed requests and the writes of the other *)
(* controllers, for any number of bindings and resources.  An index that   *)
(* OpenSearch made anew, of a document that came after Finalize had dropped*)
(* the former one, carries it as soon as a SearchIndex names it again.     *)
THEOREM DocumentsAreReachable == Spec => []DocumentsReachable
<1>1. Init => Lifecycle!PromiseInv /\ DocumentsInv
  BY InitDocumentsInv, InitLifecycle, Assumptions, OneTenant, Lifecycle!InitPromiseInv
<1>2. Lifecycle!PromiseInv /\ DocumentsInv /\ [Next]_vars
        => Lifecycle!PromiseInv' /\ DocumentsInv'
  BY NextInv, NextDocumentsInv
<1>3. DocumentsInv => DocumentsReachable
  BY DEF DocumentsInv
<1> QED
  BY <1>1, <1>2, <1>3, PTL DEF Spec

-----------------------------------------------------------------------------
(* The controllers of the resources in the operator                        *)

Documents == INSTANCE ResourceWatcherProofs
  WITH phase <- object.phase,
       named <- object.indexName # NoIndex,
       unfit <- {},
       api <- resources, cache <- resourceCache, queue <- resourceQueue,
       job <- resourceJob

(* The constants are as ResourceWatcherProofs wants them.                  *)
LEMMA DocumentsAssumptions == Documents!ResourcesAssumption
BY OperatorAssumption
   DEF OperatorAssumption, Documents!ResourcesAssumption, Documents!IsFiniteSet, IsFiniteSet

(* The operator starts as the controllers of the resources do.             *)
LEMMA InitDocuments == Init => Documents!Init
BY DEF Init, Resource!Init, Documents!Init, Resource!Absent, Documents!Absent,
       Resource!Idle, Documents!Idle, Resource!SearchIndex!Init, Documents!SearchIndex!Init

(* A step of a resource or its controller is one in ResourceWatcherProofs. *)
LEMMA ResourceSteps ==
  ASSUME NEW r \in Resources,
         \/ Resource!Users(r) \/ Resource!ProvideAccountInfo(r) \/ Resource!Observe(r)
         \/ Resource!Begin(r) \/ Resource!Reconcile(r) \/ Resource!RequestFails(r)
  PROVE  Documents!Next
<1> USE DEF Resource!world, Documents!world, Resource!Idle, Documents!Idle,
            Resource!Absent, Documents!Absent, Resource!Bump, Documents!Bump,
            Resource!Continue, Documents!Continue, Resource!Done, Documents!Done,
            Resource!Retry, Documents!Retry, Resource!LoseReply, Documents!LoseReply,
            Resource!Fresh, Documents!Fresh, Resource!IsDoc, Documents!IsDoc
<1>1. Resource!Users(r) => Documents!Users(r)
  BY DEF Resource!Users, Documents!Users, Resource!CreateResource,
         Documents!CreateResource, Resource!EditResource, Documents!EditResource,
         Resource!DeleteResource, Documents!DeleteResource, Resource!SetContent,
         Documents!SetContent
<1>2. Resource!ProvideAccountInfo(r) => Documents!ProvideAccountInfo(r)
  BY DEF Resource!ProvideAccountInfo, Documents!ProvideAccountInfo
<1>3. Resource!Observe(r) => Documents!Observe(r)
  BY DEF Resource!Observe, Documents!Observe
<1>4. Resource!Begin(r) => Documents!Begin(r)
  BY DEF Resource!Begin, Documents!Begin, Resource!Running, Documents!Running,
         Resource!FirstStep, Documents!FirstStep, Resource!Cardinality,
         Documents!Cardinality
<1>5. Resource!AddFinalizer(r) => Documents!AddFinalizer(r)
  BY DEF Resource!AddFinalizer, Documents!AddFinalizer
<1>6. Resource!GetSearchIndex(r) => Documents!GetSearchIndex(r)
  BY DEF Resource!GetSearchIndex, Documents!GetSearchIndex
<1>7. Resource!GetAccountInfo(r) => Documents!GetAccountInfo(r)
  BY DEF Resource!GetAccountInfo, Documents!GetAccountInfo
<1>8. Resource!IndexDocument(r) => Documents!IndexDocument(r)
  BY DEF Resource!IndexDocument, Documents!IndexDocument, Resource!NewDocument,
         Documents!NewDocument
<1>9. Resource!FindIndex(r) => Documents!FindIndex(r)
  BY DEF Resource!FindIndex, Documents!FindIndex
<1>10. Resource!DeleteDocument(r) => Documents!DeleteDocument(r)
  BY DEF Resource!DeleteDocument, Documents!DeleteDocument
<1>11. Resource!RemoveFinalizer(r) => Documents!RemoveFinalizer(r)
  BY DEF Resource!RemoveFinalizer, Documents!RemoveFinalizer
<1>12. Resource!RequestFails(r) => Documents!RequestFails(r)
  BY DEF Resource!RequestFails, Documents!RequestFails
<1> QED
  BY <1>1, <1>2, <1>3, <1>4, <1>5, <1>6, <1>7, <1>8, <1>9, <1>10, <1>11, <1>12
     DEF Documents!Next, Documents!World, Resource!Reconcile, Documents!Reconcile

(* So is the restart.                                                      *)
LEMMA ResourceRestarts == Resource!Restart => Documents!Next
BY DEF Resource!Restart, Documents!Next, Documents!Restart, Resource!Idle, Documents!Idle,
       Resource!Absent, Documents!Absent, Resource!world, Documents!world

(* All else keeps the promise, and takes documents with their index only.  *)
LEMMA OthersAreForeign ==
  ASSUME Lifecycle!PromiseInv, [Next]_vars, UNCHANGED resourceVars,
         UNCHANGED <<storeVars, docs>> \/ Resource!FollowIndex
  PROVE  Documents!Foreign
<1>1. Counted'
  BY NextInv DEF Lifecycle!PromiseInv, Lifecycle!IInv, Lifecycle!TypeOK, Counted
<1>2. [Documents!SearchIndex!Next]_(Documents!SearchIndex!vars)
  BY NextPromise
     DEF Documents!SearchIndex!Next, Documents!SearchIndex!vars, Promise!Next, Promise!vars,
         Documents!SearchIndex!Create, Promise!Create, Documents!SearchIndex!MakeIndex,
         Promise!MakeIndex, Documents!SearchIndex!AutoMakeIndex, Promise!AutoMakeIndex,
         Documents!SearchIndex!Publish, Promise!Publish,
         Documents!SearchIndex!Delete, Promise!Delete, Documents!SearchIndex!DropIndex,
         Promise!DropIndex, Documents!SearchIndex!Release, Promise!Release
<1>3. UNCHANGED storeVars => index' = index
  BY DEF storeVars, index
<1>4. Documents!FollowIndex
  BY <1>3 DEF Documents!FollowIndex, Resource!FollowIndex, Documents!IsDoc, Resource!IsDoc
<1> QED
  BY <1>1, <1>2, <1>4 DEF Documents!Foreign, Counted, resourceVars

(* So every step of the operator is in ResourceWatcherProofs.              *)
LEMMA NextDocuments ==
  ASSUME Lifecycle!PromiseInv, [Next]_vars
  PROVE  Documents!Next \/ Documents!Foreign
<1>1. ASSUME NEW step, SearchIndexStep(step)
      PROVE  Documents!Foreign
  BY <1>1, OthersAreForeign DEF SearchIndexStep
<1>2. CASE UNCHANGED vars
  BY <1>2, OthersAreForeign DEF vars
<1>3. ASSUME NEW b \in Bindings,
             \/ BindingEvent(b) \/ BindingObserve(b) \/ BindingBegin(b)
             \/ BindingReconcile(b) \/ BindingRequestFails(b)
      PROVE  Documents!Foreign
  BY <1>3, OthersAreForeign
     DEF BindingEvent, BindingObserve, BindingBegin, BindingReconcile, BindingGet,
         BindingCreate, BindingUpdate, BindingRequestFails, BindingReads
<1>4. ASSUME NEW r \in Resources,
             \/ ResourceUsers(r) \/ ResourceAccount(r)
             \/ ResourceObserve(r) \/ ResourceBegin(r)
             \/ ResourceReconcile(r) \/ ResourceRequestFails(r)
      PROVE  Documents!Next
  BY <1>4, ResourceSteps
     DEF ResourceUsers, ResourceAccount, ResourceObserve, ResourceBegin,
         ResourceReconcile, ResourceRequestFails, ResourceStep
<1>5. CASE Restart
  BY <1>5, ResourceRestarts DEF Restart
<1> QED
  BY <1>1, <1>2, <1>3, <1>4, <1>5
     DEF Next, IndexUsers, IndexObserve, IndexBegin, IndexReconcile, IndexProcess,
         IndexFinalization, IndexRequestFails

(* What their theorems rest on holds in the operator, too.                 *)
LEMMA NextHeld ==
  ASSUME Lifecycle!PromiseInv, Documents!IInv, Documents!HeldInv, [Next]_vars
  PROVE  Documents!IInv' /\ Documents!HeldInv'
<1>1. CASE Documents!Next
  BY <1>1, DocumentsAssumptions, Documents!NextIInv, Documents!NextHeldInv
<1>2. CASE Documents!Foreign
  BY <1>2, DocumentsAssumptions, Documents!ForeignIInv, Documents!ForeignHeldInv
<1> QED
  BY <1>1, <1>2, NextDocuments

(* So does what keeps documents up to date.                                *)
LEMMA NextNoted ==
  ASSUME Documents!DistinctIds,
         Lifecycle!PromiseInv, Documents!IInv, Documents!AllNoted, [Next]_vars
  PROVE  Documents!AllNoted'
<1>1. CASE Documents!Next
  BY <1>1, DocumentsAssumptions, Documents!NextNoted
<1>2. CASE Documents!Foreign
  BY <1>2, DocumentsAssumptions, Documents!ForeignNoted
<1> QED
  BY <1>1, <1>2, NextDocuments

(* It holds at the start.                                                  *)
LEMMA InitAll ==
  Init => /\ Lifecycle!PromiseInv
          /\ Documents!IInv /\ Documents!HeldInv /\ Documents!AllNoted
BY InitLifecycle, Assumptions, OneTenant, Lifecycle!InitPromiseInv, InitDocuments,
   DocumentsAssumptions, Documents!InitIInv, Documents!InitHeldInv, Documents!InitNoted

(* In the operator as a whole, a document in the index that the SearchIndex*)
(* controller made, and that the SearchIndex named when the document was   *)
(* written, belongs to a resource that is held by the finalizer: whatever  *)
(* bindings create and update, whatever that controller makes and drops,   *)
(* whenever the process restarts, and whether OpenSearch creates indices   *)
(* upon writes or not.                                                     *)
THEOREM NoDocumentOutlives == Spec => []DocumentsHeld
<1>1. Init => Lifecycle!PromiseInv /\ Documents!IInv /\ Documents!HeldInv
  BY InitAll
<1>2. Lifecycle!PromiseInv /\ Documents!IInv /\ Documents!HeldInv /\ [Next]_vars
        => Lifecycle!PromiseInv' /\ Documents!IInv' /\ Documents!HeldInv'
  BY NextInv, NextHeld
<1>3. Documents!HeldInv => DocumentsHeld
  BY DEF DocumentsHeld, Documents!HeldInv, Documents!DocumentsHeld,
         Resource!DocumentsHeld, Documents!IsDoc, Resource!IsDoc
<1> QED
  BY <1>1, <1>2, <1>3, PTL DEF Spec

(* And when no two resources share a document ID, the document about one   *)
(* that its controller is done with is made from its present content.      *)
THEOREM DocumentsAreFresh ==
  ASSUME Resource!DistinctIds
  PROVE  Spec => []DocumentsFresh
<1>0. Documents!DistinctIds
  BY DEF Resource!DistinctIds, Documents!DistinctIds
<1> DEFINE AllInv == /\ Lifecycle!PromiseInv
                     /\ Documents!IInv /\ Documents!HeldInv /\ Documents!AllNoted
<1>1. Init => AllInv
  BY InitAll
<1>2. AllInv /\ [Next]_vars => AllInv'
  BY <1>0, NextInv, NextHeld, NextNoted
<1>3. AllInv => DocumentsFresh
  <2>1. AllInv => Documents!DocumentsFresh
    BY <1>0, DocumentsAssumptions, Documents!NotedIsFresh
  <2> QED
    BY <2>1
       DEF DocumentsFresh, Documents!DocumentsFresh, Resource!DocumentsFresh,
           Documents!Quiet, Resource!Quiet, Documents!Running, Resource!Running,
           Documents!DocumentOf, Resource!DocumentOf, Documents!IsDoc, Resource!IsDoc
<1> QED
  BY <1>1, <1>2, <1>3, PTL DEF Spec
=============================================================================

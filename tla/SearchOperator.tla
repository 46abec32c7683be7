--------------------------- MODULE SearchOperator ---------------------------
(***************************************************************************)
(* The operator as cmd/main.go starts it: the three controllers in one     *)
(* process, at work on one searchable kind of one organization.            *)
(*                                                                         *)
(* The APIBinding controller creates the SearchIndex, the SearchIndex      *)
(* controller makes and publishes its index, and the controller of the     *)
(* resources writes documents to it.  None of them calls another: each     *)
(* reads what the others left in the API server or in OpenSearch.  What    *)
(* its own module leaves to an unspecified environment is here a step of   *)
(* another controller, and one restart hits all three.                     *)
(*                                                                         *)
(* Left to the modules of the single controllers: a legacy index, paused   *)
(* and refused Specs, and resources that SemanticFields or OpenSearch make *)
(* impossible to index.                                                    *)
(***************************************************************************)
EXTENDS Integers, Sequences, FiniteSets

CONSTANTS
  Bindings,                 \* APIBindings in workspaces of the organization
  Resources,                \* resources of the kind
  DocIds, DocIdOf,          \* Resource -> generateDocumentID
  SearchIndexName,          \* canonical name for the organization and kind
  Org,                      \* the organization's cluster ID
  Kind, Schema, Field,      \* what a binding claims, and what it refers to
  Specs, CreatedSpec,       \* values of the rest of SearchIndex.spec
  AllAlias, NoIndex, NoOrg, NoDoc, LostDoc,
  AutoCreateIndex,          \* does OpenSearch create an index on a write?
  MaxConcurrentReconciles,  \* --max-concurrent-reconciles
  MaxEdits,                 \* bound: user requests of all sorts
  MaxFaults                 \* bound: faults of all sorts

ASSUME OperatorAssumption ==
  /\ IsFiniteSet(Resources)
  /\ DocIdOf \in [Resources -> DocIds]
  /\ NoIndex \notin {SearchIndexName, Org}
  /\ AllAlias \notin {SearchIndexName, Org}
  /\ Specs \subseteq [shards : Int, replicas : Int, paused : BOOLEAN, mappable : BOOLEAN]
  /\ CreatedSpec \in Specs
  /\ AutoCreateIndex \in BOOLEAN
  /\ MaxConcurrentReconciles \in Nat \ {0}
  /\ MaxEdits \in Nat
  /\ MaxFaults \in Nat

VARIABLES
  indices, settings, aliases,             \* OpenSearch, but for documents
  docs,                                   \* the documents of the index
  indexApi, indexCache, indexQueue, indexJob, writing,
  fields,                                 \* spec.DefaultFields
  bindings, bindingCache, bindingQueue, bindingJob,
  resources, resourceCache, resourceQueue, resourceJob,
  accountInfos,
  edits, faults

indexVars == <<indexCache, indexQueue, indexJob, writing>>
bindingVars == <<bindings, bindingCache, bindingQueue, bindingJob>>
resourceVars == <<resources, resourceCache, resourceQueue, resourceJob, accountInfos>>
storeVars == <<indices, settings, aliases>>

vars == <<storeVars, docs, indexApi, fields, indexVars, bindingVars,
          resourceVars, edits, faults>>

-----------------------------------------------------------------------------
(* The controllers                                                         *)

Indexing == INSTANCE IndexLifecycle
  WITH SearchIndexes <- {SearchIndexName},
       IndexNames <- {SearchIndexName, Org},
       OrgOf <- [n \in {SearchIndexName} |-> Org],
       LegacyIndexes <- {},
       api <- indexApi, cache <- indexCache, queue <- indexQueue, job <- indexJob

object == indexApi[SearchIndexName]

\* The SearchIndex as the APIBinding controller sees it.
SearchIndexObject ==
  [phase |-> IF object.phase # "absent" THEN "live"
             ELSE IF object.version = 0 THEN "absent" ELSE "removed",
   version |-> object.version, fields |-> fields, rest |-> 0]

Binding == INSTANCE APIBindingWatcher
  WITH Orgs <- {Org},
       OrgOf <- [b \in Bindings |-> Org],
       Resources <- {Kind},
       Names <- {SearchIndexName},
       CanonicalName <- [p \in {Org} \X {Kind} |-> SearchIndexName],
       Schemas <- {Schema},
       Fields <- {Field},
       FieldsOf <- [s \in {Schema} |-> {Field}],
       StatusesOf <- [b \in Bindings |-> {[claims |-> <<Kind>>, schemas |-> {Schema}]}],
       Rests <- {0}, CreatedRest <- 0,
       searchIndexes <- [x \in {SearchIndexName} |-> SearchIndexObject],
       cache <- bindingCache, queue <- bindingQueue, job <- bindingJob

\* The index as SearchIndexPromise has it.
index == IF SearchIndexName \notin indices THEN "none"
         ELSE IF settings[SearchIndexName].mapped THEN "made" ELSE "auto"

Resource == INSTANCE ResourceWatcher
  WITH phase <- object.phase,
       named <- object.indexName # NoIndex,
       unfit <- {},
       api <- resources, cache <- resourceCache, queue <- resourceQueue,
       job <- resourceJob

-----------------------------------------------------------------------------
(* Steps, joint where one actor's change is in what another one reads      *)

Init ==
  /\ Indexing!Init
  /\ fields = {}
  /\ Binding!Init
  /\ Resource!Init

\* A step of the SearchIndex, its users' included.  Documents go with their
\* index and fields with their object; status and metadata patches leave the
\* spec alone.
SearchIndexStep(step) ==
  /\ step
  /\ Resource!FollowIndex
  /\ fields' = IF object'.phase = "absent" THEN {} ELSE fields
  /\ UNCHANGED <<bindingVars, resourceVars>>

IndexUsers == SearchIndexStep(Indexing!Users(SearchIndexName))
IndexObserve == SearchIndexStep(Indexing!Observe(SearchIndexName))
IndexBegin == SearchIndexStep(Indexing!Begin(SearchIndexName))
IndexProcess == SearchIndexStep(Indexing!Process(SearchIndexName))
IndexFinalization == SearchIndexStep(Indexing!Finalization(SearchIndexName))
IndexRequestFails == SearchIndexStep(Indexing!RequestFails(SearchIndexName))

\* A step of the APIBinding controller that leaves the SearchIndex alone.
BindingReads(step) ==
  /\ UNCHANGED <<storeVars, docs, indexApi, fields, indexVars, resourceVars>>
  /\ step

BindingEvent(b) == BindingReads(Binding!ChangeBinding(b))
BindingObserve(b) == BindingReads(Binding!Observe(b))
BindingBegin(b) == BindingReads(Binding!Begin(b))
BindingGet(b) == BindingReads(Binding!Get(b))
BindingRequestFails(b) == BindingReads(Binding!RequestFails(b))

\* Mutant: a new SearchIndex is taken to have its status with it.
BindingCreateNamed(b) ==
  /\ indexApi' = [indexApi EXCEPT ![SearchIndexName] =
                    [Indexing!Absent(@.version + 1) EXCEPT
                       !.phase = "live", !.indexName = SearchIndexName]]
  /\ fields' = bindingJob[b].fields
  /\ UNCHANGED <<storeVars, docs, indexVars, resourceVars>>
  /\ Binding!Create(b)

BindingCreate(b) ==
  /\ \/ /\ Indexing!AddSearchIndex(SearchIndexName, CreatedSpec)
        /\ fields' = bindingJob[b].fields
     \/ UNCHANGED <<indexApi, fields>>
  /\ UNCHANGED <<storeVars, docs, indexVars, resourceVars>>
  /\ Binding!Create(b)

\* Conflicts arise here from the SearchIndex controller's own writes.
BindingUpdate(b) ==
  /\ \/ /\ indexApi' = [indexApi EXCEPT ![SearchIndexName] = Indexing!Bump(@)]
        /\ fields' = bindingJob[b].fields
     \/ UNCHANGED <<indexApi, fields>>
  /\ UNCHANGED <<storeVars, docs, indexVars, resourceVars>>
  /\ Binding!Update(b)

\* A step of a resource or of its controller.
ResourceStep(step) ==
  /\ UNCHANGED <<storeVars, indexApi, fields, indexVars, bindingVars>>
  /\ step

ResourceUsers(r) == ResourceStep(Resource!Users(r))
ResourceAccount(r) == ResourceStep(Resource!ProvideAccountInfo(r))
ResourceObserve(r) == ResourceStep(Resource!Observe(r))
ResourceBegin(r) == ResourceStep(Resource!Begin(r))

\* A document written to an index that is not there may bring it back.
ResourceReconcile(r) ==
  /\ UNCHANGED <<indexApi, fields, indexVars, bindingVars>>
  /\ \/ UNCHANGED storeVars
     \/ /\ SearchIndexName \notin indices
        /\ Indexing!PutIndex(SearchIndexName, Indexing!AutoSettings)
  /\ Resource!Reconcile(r)

ResourceRequestFails(r) == ResourceStep(Resource!RequestFails(r))

\* One process: all three controllers lose their jobs at once.
Restart ==
  /\ Indexing!Restart
  /\ UNCHANGED fields
  /\ Binding!Restart
  /\ Resource!Restart

BindingReconcile(b) == BindingGet(b) \/ BindingCreate(b) \/ BindingUpdate(b)

IndexReconcile == IndexProcess \/ IndexFinalization

Next ==
  \/ IndexUsers \/ IndexObserve \/ IndexBegin \/ IndexReconcile \/ IndexRequestFails
  \/ \E b \in Bindings :
       \/ BindingEvent(b) \/ BindingObserve(b) \/ BindingBegin(b)
       \/ BindingReconcile(b) \/ BindingRequestFails(b)
  \/ \E r \in Resources :
       \/ ResourceUsers(r) \/ ResourceAccount(r)
       \/ ResourceObserve(r) \/ ResourceBegin(r)
       \/ ResourceReconcile(r) \/ ResourceRequestFails(r)
  \/ Restart

Spec == Init /\ [][Next]_vars

\* As in the modules of the controllers, but weak fairness is all that is asked
\* of the work queues: it is enough as long as each controller has one key.
Fairness ==
  /\ WF_vars(IndexObserve) /\ WF_vars(IndexBegin) /\ WF_vars(IndexReconcile)
  /\ \A b \in Bindings :
       WF_vars(BindingObserve(b)) /\ WF_vars(BindingBegin(b)) /\ WF_vars(BindingReconcile(b))
  /\ \A r \in Resources :
       WF_vars(ResourceObserve(r)) /\ WF_vars(ResourceBegin(r)) /\ WF_vars(ResourceReconcile(r))

FairSpec == Spec /\ Fairness

-----------------------------------------------------------------------------
(* Properties                                                              *)

Promise == INSTANCE SearchIndexPromise
  WITH phase <- object.phase,
       named <- object.indexName # NoIndex

(* The SearchIndex that the other two controllers create, update and read  *)
(* keeps the promise ResourceWatcher was checked against, although         *)
(* ensureSearchIndex creates and updates it at its own pace.               *)
PromiseKept == Promise!Spec

(* A document written under a published name is found by those who search: *)
(* they query the alias "<prefix>-all", which another controller maintains *)
(* and which must be there before the first document and after the last.   *)
(* Excepted are documents that came when Finalize had dropped the index:   *)
(* OpenSearch then makes it anew, without alias, and there they are found  *)
(* only once a new SearchIndex has taken that index over and published it. *)
DocumentsReachable ==
  \A d \in DocIds :
    /\ Resource!IsDoc(docs[d]) /\ docs[d].named
    /\ index = "made" \/ (object.phase = "live" /\ object.indexName # NoIndex)
    => <<AllAlias, SearchIndexName>> \in aliases

(* With the real SearchIndex in the place of its promise, and one process  *)
(* that runs and restarts all three controllers: no document outlives its  *)
(* resource, although the status that Finalize looks for, the index that   *)
(* the document is in, and the object that is created anew by a binding    *)
(* are in three different hands.                                           *)
DocumentsHeld == Resource!DocumentsHeld

(* And when the resource's controller is done, the document is up to date, *)
(* whichever of the other two was at work or failing meanwhile.            *)
DocumentsFresh == Resource!DocumentsFresh

\* Somebody asks for r to be searchable.
Wanted(r) ==
  /\ \E b \in Bindings : SearchIndexName \in Binding!Claims(b)
  /\ resources[r].phase = "live"
  /\ r \in accountInfos

\* The document is there, made from the present r, and can be searched.
Searchable(r) ==
  /\ Resource!Current(r)
  /\ <<AllAlias, SearchIndexName>> \in aliases

(* The way from a bound APIBinding to a search result: events, queues and  *)
(* requeues of three controllers hand the work on, and no order of theirs, *)
(* no conflict, failure or restart leaves a resource without its document. *)
(* Left out: a SearchIndex that a user deletes, which the other two        *)
(* controllers do not watch; for Specs that leave indexing on, and         *)
(* resources of which a document can be written.                           *)
EndToEnd ==
  \A r \in Resources :
    Wanted(r) ~> \/ Searchable(r)
                 \/ ~Wanted(r)
                 \/ SearchIndexObject.phase = "removed" \/ object.phase = "deleting"
                 \/ Resource!DocumentOf(r) = LostDoc

-----------------------------------------------------------------------------
(* Why documents are reachable: the invariant the proofs rest on           *)

\* The name in the status can be searched, when the operator made its index and
\* while the SearchIndex is live.
PublishedIsReachable ==
  /\ object.indexName # NoIndex
  /\ index = "made" \/ object.phase = "live"
  => <<AllAlias, SearchIndexName>> \in aliases

\* Documents are in an index that exists.
Stored(d) == Resource!IsDoc(docs[d]) => SearchIndexName \in indices

DocumentsInv ==
  /\ docs = [d \in DocIds |-> docs[d]]
  /\ PublishedIsReachable
  /\ DocumentsReachable
  /\ \A d \in DocIds : Stored(d)
=============================================================================

--------------------------- MODULE ResourceWatcher ---------------------------
(***************************************************************************)
(* The controllers of the searchable resources:                            *)
(* internal/subroutine/indexable_resource_watcher.go.                      *)
(*                                                                         *)
(* A reconcile looks up the SearchIndex of the resource's organization and *)
(* kind, reads the index name from its status and an AccountInfo from one  *)
(* of several clusters, and then writes one document about the resource to *)
(* that index.  A finalizer on the resource lets Finalize remove the       *)
(* document first.  What a document says is the resource's content, known  *)
(* by its version; DefaultFields, account and permissions are left out.    *)
(* Of SemanticFields only this is kept: a document may be impossible to    *)
(* build from a resource, or be refused by OpenSearch.                     *)
(*                                                                         *)
(* The module is about the resources of one SearchIndex whose index bears  *)
(* its canonical name.  Both change under the controller's feet as         *)
(* SearchIndexPromise allows, which is what IndexLifecycle is shown to     *)
(* keep.                                                                   *)
(***************************************************************************)
EXTENDS Naturals, Sequences, FiniteSets

CONSTANTS
  Resources,                \* the resource objects
  DocIds, DocIdOf,          \* Resource -> generateDocumentID
  AutoCreateIndex,          \* does OpenSearch create an index on a write?
  NoDoc, LostDoc,           \* no document; one that went with its index
  MaxConcurrentReconciles,  \* --max-concurrent-reconciles
  MaxEdits,                 \* bound: user requests
  MaxFaults                 \* bound: lost requests, lost replies, restarts

ASSUME ResourcesAssumption ==
  /\ IsFiniteSet(Resources)
  /\ DocIdOf \in [Resources -> DocIds]
  /\ AutoCreateIndex \in BOOLEAN
  /\ MaxConcurrentReconciles \in Nat \ {0}
  /\ MaxEdits \in Nat
  /\ MaxFaults \in Nat

VARIABLES
  api,           \* the resources in their workspaces
  cache,         \* the informers' copies
  queue,         \* keys that wait for a reconcile, at once or after a delay
  job,           \* per resource, its reconcile in progress
  phase, named,  \* of the SearchIndex: see SearchIndexPromise
  index,         \* its index in OpenSearch: "none", "made" or "auto"
  docs,          \* the documents of the index
  accountInfos,  \* the resources whose AccountInfo can be found
  unfit,         \* the live ones of which, as they are, no document can be written
  edits, faults

SearchIndex == INSTANCE SearchIndexPromise

world == <<phase, named, index, docs, accountInfos, unfit>>

vars == <<api, cache, queue, job, world, edits, faults>>

\* The version stands for the content, too.
Objects == [phase : {"absent", "live", "deleting"}, version : Nat,
            finalizer : BOOLEAN]

Absent(v) == [phase |-> "absent", version |-> v, finalizer |-> FALSE]

Bump(o) == [o EXCEPT !.version = @ + 1]

\* of: the resource; version: the content it was built from; named: did the
\* SearchIndex name the index when the document was written?
Docs == [of : Resources, version : Nat, named : BOOLEAN]

IsDoc(x) == x \notin {NoDoc, LostDoc}

Steps == {"idle", "addFinalizer", "getSearchIndex", "getAccountInfo", "write",
          "findIndex", "deleteDocument", "removeFinalizer"}

\* fits: can a document be built from the copy and the SemanticFields read?
Jobs == [step : Steps, copy : Objects, fits : BOOLEAN]

Idle == [step |-> "idle", copy |-> Absent(0), fits |-> FALSE]

TypeOK ==
  /\ api \in [Resources -> Objects]
  /\ cache \in [Resources -> Objects]
  /\ queue \subseteq Resources
  /\ job \in [Resources -> Jobs]
  /\ phase \in {"absent", "live", "deleting"}
  /\ named \in BOOLEAN
  /\ index \in {"none", "made", "auto"}
  /\ docs \in [DocIds -> Docs \cup {NoDoc, LostDoc}]
  /\ accountInfos \subseteq Resources
  /\ unfit \subseteq Resources
  /\ edits \in 0 .. MaxEdits
  /\ faults \in 0 .. MaxFaults

Init ==
  /\ api = [r \in Resources |-> Absent(0)]
  /\ cache = api
  /\ queue = {}
  /\ job = [r \in Resources |-> Idle]
  /\ SearchIndex!Init
  /\ docs = [d \in DocIds |-> NoDoc]
  /\ accountInfos = {}
  /\ unfit = {}
  /\ edits = 0
  /\ faults = 0

-----------------------------------------------------------------------------
(* Users, the account operator, and the controllers of the SearchIndex     *)

\* What a user writes may or may not be in conflict with SemanticFields.
SetContent(r) ==
  /\ unfit' \in {unfit \cup {r}, unfit \ {r}}
  /\ UNCHANGED <<phase, named, index, docs, accountInfos>>

CreateResource(r) ==
  /\ edits < MaxEdits
  /\ api[r].phase = "absent"
  /\ api' = [api EXCEPT ![r] = [Absent(@.version + 1) EXCEPT !.phase = "live"]]
  /\ SetContent(r)
  /\ edits' = edits + 1
  /\ UNCHANGED <<cache, queue, job, faults>>

EditResource(r) ==
  /\ edits < MaxEdits
  /\ api[r].phase = "live"
  /\ api' = [api EXCEPT ![r] = Bump(@)]
  /\ SetContent(r)
  /\ edits' = edits + 1
  /\ UNCHANGED <<cache, queue, job, faults>>

DeleteResource(r) ==
  /\ edits < MaxEdits
  /\ api[r].phase = "live"
  /\ api' = [api EXCEPT ![r] =
               IF @.finalizer THEN Bump([@ EXCEPT !.phase = "deleting"])
                              ELSE Absent(@.version + 1)]
  /\ unfit' = unfit \ {r}
  /\ edits' = edits + 1
  /\ UNCHANGED <<cache, queue, job, phase, named, index, docs, accountInfos, faults>>

\* The AccountInfo of a workspace comes some time after the workspace.
ProvideAccountInfo(r) ==
  /\ r \notin accountInfos
  /\ accountInfos' = accountInfos \cup {r}
  /\ UNCHANGED <<api, cache, queue, job, phase, named, index, docs, unfit, edits, faults>>

\* A user edits SemanticFields, or the index gets or loses a mapping that
\* refuses the document.
ChangeFields ==
  /\ edits < MaxEdits
  /\ unfit' \in SUBSET {r \in Resources : api[r].phase = "live"} \ {unfit}
  /\ edits' = edits + 1
  /\ UNCHANGED <<api, cache, queue, job, phase, named, index, docs, accountInfos, faults>>

\* Documents go with the index they are in.
FollowIndex ==
  docs' = IF index' = index THEN docs
          ELSE [d \in DocIds |-> IF IsDoc(docs[d]) THEN LostDoc ELSE docs[d]]

\* The other controllers.
ChangeSearchIndex ==
  /\ SearchIndex!Next
  /\ FollowIndex
  /\ UNCHANGED <<api, cache, queue, job, accountInfos, unfit, edits, faults>>

-----------------------------------------------------------------------------
(* The lifecycle manager around the subroutine                             *)

Running == {r \in Resources : job[r].step # "idle"}

Observe(r) ==
  /\ cache[r] # api[r]
  /\ cache' = [cache EXCEPT ![r] = api[r]]
  /\ queue' = queue \cup {r}
  /\ UNCHANGED <<world, api, job, edits, faults>>

FirstStep(o) ==
  IF o.phase = "live"
  THEN IF o.finalizer THEN "getSearchIndex" ELSE "addFinalizer"
  ELSE IF o.phase = "deleting" /\ o.finalizer THEN "findIndex" ELSE "idle"

Begin(r) ==
  /\ r \in queue \ Running
  /\ Cardinality(Running) < MaxConcurrentReconciles
  /\ queue' = queue \ {r}
  /\ job' = [job EXCEPT ![r] =
               IF FirstStep(cache[r]) = "idle" THEN Idle
               ELSE [Idle EXCEPT !.step = FirstStep(cache[r]), !.copy = cache[r]]]
  /\ UNCHANGED <<world, api, cache, edits, faults>>

Continue(r, step) ==
  /\ job' = [job EXCEPT ![r].step = step]
  /\ UNCHANGED <<queue, faults>>

Done(r) ==
  /\ job' = [job EXCEPT ![r] = Idle]
  /\ UNCHANGED <<queue, faults>>

\* An error that is to be retried, or RequeueAfter.
Retry(r) ==
  /\ job' = [job EXCEPT ![r] = Idle]
  /\ queue' = queue \cup {r}
  /\ UNCHANGED faults

\* Mutant: the error of a lost request or reply is not to be retried.
LoseReplyUnretried(r) ==
  /\ faults < MaxFaults
  /\ faults' = faults + 1
  /\ job' = [job EXCEPT ![r] = Idle]
  /\ UNCHANGED queue

\* The request may have taken effect; the controller sees an error.
LoseReply(r) ==
  /\ faults < MaxFaults
  /\ faults' = faults + 1
  /\ job' = [job EXCEPT ![r] = Idle]
  /\ queue' = queue \cup {r}

Fresh(r) == job[r].copy.version = api[r].version

\* Mutant: after a conflict Process runs all the same.
AddFinalizerIgnoringConflict(r) ==
  /\ job[r].step = "addFinalizer"
  /\ \/ /\ Fresh(r)
        /\ LET o == Bump([api[r] EXCEPT !.finalizer = TRUE]) IN
             /\ api' = [api EXCEPT ![r] = o]
             /\ \/ /\ job' = [job EXCEPT ![r].step = "getSearchIndex",
                                         ![r].copy = o]
                   /\ UNCHANGED <<queue, faults>>
                \/ LoseReply(r)
     \/ ~Fresh(r) /\ Continue(r, "getSearchIndex") /\ UNCHANGED api
  /\ UNCHANGED <<world, cache, edits>>

AddFinalizer(r) ==
  /\ job[r].step = "addFinalizer"
  /\ \/ /\ Fresh(r)
        /\ LET o == Bump([api[r] EXCEPT !.finalizer = TRUE]) IN
             /\ api' = [api EXCEPT ![r] = o]
             /\ \/ /\ job' = [job EXCEPT ![r].step = "getSearchIndex",
                                         ![r].copy = o]
                   /\ UNCHANGED <<queue, faults>>
                \/ LoseReply(r)
     \/ ~Fresh(r) /\ Retry(r) /\ UNCHANGED api
  /\ UNCHANGED <<world, cache, edits>>

\* Finalize returned neither an error nor a requeue.
RemoveFinalizer(r) ==
  /\ job[r].step = "removeFinalizer"
  /\ \/ /\ Fresh(r)
        /\ api' = [api EXCEPT ![r] = Absent(@.version + 1)]
        /\ Done(r) \/ LoseReply(r)
     \/ ~Fresh(r) /\ Retry(r) /\ UNCHANGED api
  /\ UNCHANGED <<world, cache, edits>>

-----------------------------------------------------------------------------
(* Process                                                                 *)

\* getSearchIndex reads past the cache; neither a missing SearchIndex nor one
\* without an index name is an error, but the key is requeued.  Its fields are
\* read, too; those of an outdated copy may fit or not.
GetSearchIndex(r) ==
  /\ job[r].step = "getSearchIndex"
  /\ \/ /\ named
        /\ \E fits \in IF Fresh(r) THEN {r \notin unfit} ELSE BOOLEAN :
             job' = [job EXCEPT ![r].step = "getAccountInfo", ![r].fits = fits]
        /\ UNCHANGED <<queue, faults>>
     \/ ~named /\ Retry(r)
  /\ UNCHANGED <<world, api, cache, edits>>

\* Mutant: without an AccountInfo the resource is given up.
GetAccountInfoOnce(r) ==
  /\ job[r].step = "getAccountInfo"
  /\ \/ r \in accountInfos /\ Continue(r, "write")
     \/ r \notin accountInfos /\ Done(r)
  /\ UNCHANGED <<world, api, cache, edits>>

\* getAccountInfo and getParentAccountInfo: no complete AccountInfo in any of
\* the candidate clusters is a requeue.
GetAccountInfo(r) ==
  /\ job[r].step = "getAccountInfo"
  /\ \/ r \in accountInfos /\ Continue(r, "write")
     \/ r \notin accountInfos /\ Retry(r)
  /\ UNCHANGED <<world, api, cache, edits>>

NewDocument(r) == [of |-> r, version |-> job[r].copy.version, named |-> named]

\* buildPayload and buildDocumentSource, which may fail and are then retried,
\* and IndexDocument, to an index that may have gone since its name was read.
IndexDocument(r) ==
  /\ job[r].step = "write"
  /\ \/ /\ job[r].fits
        /\ index # "none" \/ AutoCreateIndex
        /\ index' = IF index = "none" THEN "auto" ELSE index
        /\ docs' = [docs EXCEPT ![DocIdOf[r]] = NewDocument(r)]
        /\ Done(r) \/ LoseReply(r)
     \/ /\ \/ ~job[r].fits \/ r \in unfit
           \/ index = "none" /\ ~AutoCreateIndex
        /\ Retry(r)
        /\ UNCHANGED <<index, docs>>
  /\ UNCHANGED <<api, cache, phase, named, accountInfos, unfit, edits>>

-----------------------------------------------------------------------------
(* Finalize                                                                *)

\* Mutant: without a SearchIndex the resource is let go, too.
FindIndexOrRelease(r) ==
  /\ job[r].step = "findIndex"
  /\ Continue(r, IF named /\ phase = "live"
                 THEN "deleteDocument" ELSE "removeFinalizer")
  /\ UNCHANGED <<world, api, cache, edits>>

\* Without a SearchIndex the key is requeued, without an index name the
\* resource is let go.
FindIndex(r) ==
  /\ job[r].step = "findIndex"
  /\ \/ phase = "absent" /\ Retry(r)
     \/ /\ phase # "absent"
        /\ Continue(r, IF named THEN "deleteDocument" ELSE "removeFinalizer")
  /\ UNCHANGED <<world, api, cache, edits>>

\* DeleteDocument; "not found" is an error like any other.
DeleteDocument(r) ==
  LET d == DocIdOf[r] IN
  /\ job[r].step = "deleteDocument"
  /\ \/ /\ IsDoc(docs[d])
        /\ docs' = [docs EXCEPT ![d] = NoDoc]
        /\ Continue(r, "removeFinalizer") \/ LoseReply(r)
     \/ ~IsDoc(docs[d]) /\ Retry(r) /\ UNCHANGED docs
  /\ UNCHANGED <<api, cache, phase, named, index, accountInfos, unfit, edits>>

-----------------------------------------------------------------------------
(* Faults                                                                  *)

\* A request, one of the lookups of workspace, organization, cluster and REST
\* mapping among them, fails without effect.
RequestFails(r) ==
  /\ job[r].step # "idle"
  /\ LoseReply(r)
  /\ UNCHANGED <<world, api, cache, edits>>

Restart ==
  /\ faults < MaxFaults
  /\ faults' = faults + 1
  /\ job' = [r \in Resources |-> Idle]
  /\ cache' = api
  /\ queue' = {r \in Resources : api[r].phase # "absent"}
  /\ UNCHANGED <<world, api, edits>>

-----------------------------------------------------------------------------
(* Specification                                                           *)

Users(r) == CreateResource(r) \/ EditResource(r) \/ DeleteResource(r)

Reconcile(r) ==
  \/ AddFinalizer(r) \/ GetSearchIndex(r) \/ GetAccountInfo(r)
  \/ IndexDocument(r) \/ FindIndex(r) \/ DeleteDocument(r) \/ RemoveFinalizer(r)

World ==
  \/ \E r \in Resources : ProvideAccountInfo(r)
  \/ ChangeFields
  \/ ChangeSearchIndex

Next ==
  \/ \E r \in Resources :
       Users(r) \/ Observe(r) \/ Begin(r) \/ Reconcile(r) \/ RequestFails(r)
  \/ World
  \/ Restart

Spec == Init /\ [][Next]_vars

\* The operator's own work only: neither the users nor the SearchIndex have
\* to do anything.
Fairness ==
  \A r \in Resources :
    /\ WF_vars(Observe(r))
    /\ SF_vars(Begin(r))
    /\ WF_vars(Reconcile(r))

FairSpec == Spec /\ Fairness

-----------------------------------------------------------------------------
(* Properties                                                              *)

DocumentOf(r) == docs[DocIdOf[r]]

(* No document outlives its resource: while there is one, the finalizer of *)
(* the resource it belongs to is still there to have it removed, whatever  *)
(* stale copies, lost replies, restarts and new SearchIndexes came between.*)
(* Two sorts of documents are excepted, for which Finalize sees no index to*)
(* clean up: one that reached the index of a new SearchIndex before its    *)
(* status named it, and one for which OpenSearch made the index anew, after*)
(* Finalize of the SearchIndex had dropped it.                             *)
DocumentsHeld ==
  \A d \in DocIds :
    IsDoc(docs[d]) /\ docs[d].named /\ index = "made" => api[docs[d].of].finalizer

Quiet(r) == cache[r] = api[r] /\ r \notin queue /\ r \notin Running

(* When the controller is done with a resource, a document that the index  *)
(* holds about it is made from its present content.                        *)
DocumentsFresh ==
  \A r \in Resources :
    Quiet(r) /\ api[r].phase = "live" /\ IsDoc(DocumentOf(r))
      => DocumentOf(r).of = r /\ DocumentOf(r).version = api[r].version

Ready(r) ==
  /\ api[r].phase = "live"
  /\ phase = "live" /\ named
  /\ r \in accountInfos \ unfit

Current(r) == IsDoc(DocumentOf(r)) /\ DocumentOf(r).version = api[r].version

(* A resource gets its document, and an edit gets into it, once the        *)
(* SearchIndex has an index, an AccountInfo can be found, and nothing in   *)
(* it is in conflict with SemanticFields or the index's mapping, whichever *)
(* comes last: no requeue, failure or restart on the way, and no document  *)
(* that could not be written, makes the controller forget the key.  Only   *)
(* documents that went with a deleted SearchIndex are not written again    *)
(* when there is a new one.                                                *)
ResourceIndexed ==
  \A r \in Resources :
    Ready(r) ~> ~Ready(r) \/ Current(r) \/ DocumentOf(r) = LostDoc

(* A resource that is being deleted goes away, if its SearchIndex has an   *)
(* index all the time: Finalize calls DeleteDocument, and lets go.         *)
DeletionCompletes ==
  \A r \in Resources :
    api[r].phase = "deleting"
      ~> api[r].phase # "deleting" \/ ~(phase = "live" /\ named)

-----------------------------------------------------------------------------
(* Why the safety properties hold: the invariants the proofs rest on       *)

\* The steps of Process past the finalizer, and those of Finalize.
ProcessSteps == {"getSearchIndex", "getAccountInfo", "write"}
FinalizeSteps == {"findIndex", "deleteDocument", "removeFinalizer"}

\* A copy is the object as it is or as it once was.
Lags(o, r) == o.version <= api[r].version /\ (o.version = api[r].version => o = api[r])

Versions(r) ==
  /\ Lags(cache[r], r)
  /\ r \in Running => Lags(job[r].copy, r)
  /\ job[r].step \in FinalizeSteps
       => job[r].copy.version <= cache[r].version /\ job[r].copy.phase = "deleting"

\* The finalizer is there from the step that adds it until Finalize is through.
Held(r) ==
  /\ api[r].finalizer => api[r].phase # "absent"
  /\ cache[r].phase = "live" /\ cache[r].finalizer => api[r].finalizer
  /\ job[r].step = "addFinalizer" => job[r].copy.phase = "live"
  /\ job[r].step \in ProcessSteps => api[r].finalizer

\* A document stands where Finalize will look for it, and is not from the future.
InPlace(d) ==
  IsDoc(docs[d]) =>
    LET r == docs[d].of IN DocIdOf[r] = d /\ docs[d].version <= api[r].version

(* The copies that reconciles work on are the resource as it is or was,    *)
(* the finalizer that AddFinalizer set is there for as long as Process     *)
(* runs, and a document stands under the ID under which Finalize looks.    *)
IInv ==
  /\ TypeOK
  /\ \A r \in Resources : Versions(r) /\ Held(r)
  /\ \A d \in DocIds : InPlace(d)

\* A document is in an index that is there, and if the operator made that, the
\* name it was written under is still the SearchIndex's.
Backed(d) ==
  IsDoc(docs[d]) => index # "none" /\ (docs[d].named /\ index = "made" => named)

\* Finalize lets a resource go only when it has left no document behind there.
Cleaned(r) ==
  job[r].step = "removeFinalizer" /\ index = "made" =>
    ~(IsDoc(DocumentOf(r)) /\ DocumentOf(r).of = r /\ DocumentOf(r).named)

HeldInv ==
  /\ DocumentsHeld
  /\ \A d \in DocIds : Backed(d)
  /\ \A r \in Resources : Cleaned(r)

\* What came in since a reconcile began, or since a document was written, has
\* put the key into the queue.
NotForgotten(r) ==
  /\ r \in Running => r \in queue \/ job[r].copy.version >= cache[r].version
  /\ IsDoc(DocumentOf(r)) /\ cache[r].phase = "live"
       => r \in queue \cup Running \/ DocumentOf(r).version >= cache[r].version

DistinctIds == \A r, s \in Resources : DocIdOf[r] = DocIdOf[s] => r = s
=============================================================================

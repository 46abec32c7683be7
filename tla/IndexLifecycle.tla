--------------------------- MODULE IndexLifecycle ---------------------------
(***************************************************************************)
(* The SearchIndex controller: internal/subroutine/index_lifecycle.go run  *)
(* by the lifecycle manager that internal/controller/searchindex_          *)
(* controller.go builds.                                                   *)
(*                                                                         *)
(* A SearchIndex object in the workspace root:orgs asks for one OpenSearch *)
(* index.  The controller reads the object from an informer cache that     *)
(* lags behind the API server, works on that copy through a sequence of    *)
(* requests to the API server and to OpenSearch, and writes status back.   *)
(* Every request is a step of its own, because users, the other            *)
(* controllers and faults act between two requests.                        *)
(*                                                                         *)
(* The desired index bears the name of the SearchIndex; the legacy index   *)
(* bears the cluster ID of the organization, which all SearchIndexes of    *)
(* the organization have in common.                                        *)
(***************************************************************************)
EXTENDS OpenSearch, FiniteSets

CONSTANTS
  SearchIndexes,            \* names of SearchIndex objects
  OrgOf,                    \* SearchIndex -> spec.organizationClusterID
  LegacyIndexes,            \* legacy indices present before the first start
  Specs,                    \* values of the rest of .spec that users set
  CreatedSpec,              \* the one the APIBinding controller creates
  NoIndex,                  \* the empty status.indexName
  AutoCreateIndex,          \* does OpenSearch create an index on a write?
  MaxConcurrentReconciles,  \* --max-concurrent-reconciles
  MaxEdits,                 \* bound: user requests on SearchIndex objects
  MaxFaults                 \* bound: lost requests, lost replies, restarts

Spec0 == [shards : Int, replicas : Int, paused : BOOLEAN, mappable : BOOLEAN]

ASSUME NamesAssumption ==
  /\ IsFiniteSet(SearchIndexes)
  /\ SearchIndexes \subseteq IndexNames
  /\ OrgOf \in [SearchIndexes -> IndexNames]
  /\ LegacyIndexes \subseteq {OrgOf[n] : n \in SearchIndexes}
  /\ NoIndex \notin IndexNames
  /\ AllAlias \notin IndexNames

ASSUME ParametersAssumption ==
  /\ Specs \subseteq Spec0
  /\ CreatedSpec \in Specs
  /\ AutoCreateIndex \in BOOLEAN
  /\ MaxConcurrentReconciles \in Nat \ {0}
  /\ MaxEdits \in Nat
  /\ MaxFaults \in Nat

VARIABLES
  api,       \* the SearchIndex objects in the API server
  cache,     \* the informer's copies of them
  queue,     \* work queue: keys waiting for a reconcile
  job,       \* per SearchIndex, its reconcile in progress
  writing,   \* indices the resource controllers read from a status and are
             \* about to write a document to
  edits, faults

vars == <<indices, settings, aliases,
          api, cache, queue, job, writing, edits, faults>>

-----------------------------------------------------------------------------
(* Objects and reconciles                                                  *)

Phases == {"absent", "live", "deleting"}

ObjectOf(S) ==
  [phase : Phases, version : Nat, finalizer : BOOLEAN, labelled : BOOLEAN,
   spec : S, indexName : IndexNames \cup {NoIndex}]

Objects == ObjectOf(Specs)

Absent(v) == [phase |-> "absent", version |-> v, finalizer |-> FALSE,
              labelled |-> FALSE, spec |-> CreatedSpec, indexName |-> NoIndex]

ProcessSteps ==
  {"addFinalizer", "metadata", "probeDesired", "probeLegacy", "createProbe",
   "create", "settings", "replicas", "aliasAll", "aliasCanonical", "status"}

FinalizeSteps == {"finalize", "delete", "removeFinalizer"}

Steps == {"idle"} \cup ProcessSteps \cup FinalizeSteps

\* use: the index chosen (useIndexName); synced: created || replicasUpdated.
Jobs == [step : Steps, copy : Objects, use : IndexNames \cup {NoIndex},
         synced : BOOLEAN]

Idle == [step |-> "idle", copy |-> Absent(0), use |-> NoIndex,
         synced |-> FALSE]

Running == {n \in SearchIndexes : job[n].step # "idle"}

\* The normalisation of Process; the fields are int32 and may be 0 or less.
NumberOfShards(spec) == IF spec.shards <= 0 THEN 1 ELSE spec.shards
NumberOfReplicas(spec) == IF spec.replicas < 0 THEN 0 ELSE spec.replicas

\* The indices that were created on purpose, with a mapping: by CreateIndex, or
\* by the former version that left the legacy ones.  OpenSearch made the others.
Made == {x \in indices : settings[x].mapped}

TypeOK ==
  /\ StoreTypeOK
  /\ api \in [SearchIndexes -> Objects]
  /\ cache \in [SearchIndexes -> Objects]
  /\ queue \subseteq SearchIndexes
  /\ job \in [SearchIndexes -> Jobs]
  /\ writing \subseteq IndexNames
  /\ edits \in 0 .. MaxEdits
  /\ faults \in 0 .. MaxFaults

Init ==
  /\ indices = LegacyIndexes
  /\ settings = [x \in IndexNames |->
                   IF x \in LegacyIndexes
                   THEN [shards |-> 1, replicas |-> 1, mapped |-> TRUE]
                   ELSE NoSettings]
  /\ aliases = {}
  /\ api = [n \in SearchIndexes |-> Absent(0)]
  /\ cache = [n \in SearchIndexes |-> Absent(0)]
  /\ queue = {}
  /\ job = [n \in SearchIndexes |-> Idle]
  /\ writing = {}
  /\ edits = 0
  /\ faults = 0

-----------------------------------------------------------------------------
(* How a step of a reconcile ends                                          *)

Continue(n, step) ==
  /\ job' = [job EXCEPT ![n].step = step]
  /\ UNCHANGED <<queue, faults>>

\* The lifecycle manager got no error, or one that is not to be retried.
Done(n) ==
  /\ job' = [job EXCEPT ![n] = Idle]
  /\ UNCHANGED <<queue, faults>>

\* An error that is to be retried: the key goes back to the queue.
Retry(n) ==
  /\ job' = [job EXCEPT ![n] = Idle]
  /\ queue' = queue \cup {n}
  /\ UNCHANGED faults

\* Mutant: the error of a lost reply is not to be retried.
LoseReplyUnretried(n) ==
  /\ faults < MaxFaults
  /\ faults' = faults + 1
  /\ job' = [job EXCEPT ![n] = Idle]
  /\ UNCHANGED queue

\* The request took effect, but its reply did not arrive: an error here.
LoseReply(n) ==
  /\ faults < MaxFaults
  /\ faults' = faults + 1
  /\ job' = [job EXCEPT ![n] = Idle]
  /\ queue' = queue \cup {n}

ContinueOrLoseReply(n, step) == Continue(n, step) \/ LoseReply(n)

\* Optimistic concurrency of the API server.
Fresh(n) == job[n].copy.version = api[n].version

Bump(o) == [o EXCEPT !.version = @ + 1]

-----------------------------------------------------------------------------
(* Users and the other controllers                                         *)

AddSearchIndex(n, spec) ==
  /\ api[n].phase = "absent"
  /\ api' = [api EXCEPT ![n] =
               [Absent(@.version + 1) EXCEPT !.phase = "live", !.spec = spec]]

CreateSearchIndex(n, spec) ==
  /\ edits < MaxEdits
  /\ AddSearchIndex(n, spec)
  /\ edits' = edits + 1
  /\ UNCHANGED <<store, cache, queue, job, writing, faults>>

EditSpec(n, spec) ==
  /\ edits < MaxEdits
  /\ api[n].phase = "live"
  /\ spec # api[n].spec
  /\ api' = [api EXCEPT ![n] = Bump([@ EXCEPT !.spec = spec])]
  /\ edits' = edits + 1
  /\ UNCHANGED <<store, cache, queue, job, writing, faults>>

\* Only a finalizer keeps a deleted object.
DeleteSearchIndex(n) ==
  /\ edits < MaxEdits
  /\ api[n].phase = "live"
  /\ api' = [api EXCEPT ![n] =
               IF @.finalizer THEN Bump([@ EXCEPT !.phase = "deleting"])
                              ELSE Absent(@.version + 1)]
  /\ edits' = edits + 1
  /\ UNCHANGED <<store, cache, queue, job, writing, faults>>

\* getSearchIndex in the resource controllers: status.indexName is read ...
ReadIndexName(n) ==
  /\ api[n].indexName \notin writing \cup {NoIndex}
  /\ writing' = writing \cup {api[n].indexName}
  /\ UNCHANGED <<store, api, cache, queue, job, edits, faults>>

\* ... and some requests later a document is written to that index.
WriteDocument(x) ==
  /\ x \in writing
  /\ writing' = writing \ {x}
  /\ IF AutoCreateIndex /\ ~IndexExists(x) THEN PutIndex(x, AutoSettings)
                                           ELSE UNCHANGED store
  /\ UNCHANGED <<api, cache, queue, job, edits, faults>>

-----------------------------------------------------------------------------
(* The lifecycle manager around the subroutine                             *)

\* A watch event: the cache catches up and the key is queued.
Observe(n) ==
  /\ cache[n] # api[n]
  /\ cache' = [cache EXCEPT ![n] = api[n]]
  /\ queue' = queue \cup {n}
  /\ UNCHANGED <<store, api, job, writing, edits, faults>>

FirstStep(o) ==
  IF o.phase = "live"
  THEN IF o.finalizer THEN "metadata" ELSE "addFinalizer"
  ELSE IF o.phase = "deleting" /\ o.finalizer THEN "finalize" ELSE "idle"

\* The work queue never hands out a key whose reconcile is still running.
Begin(n) ==
  /\ n \in queue \ Running
  /\ Cardinality(Running) < MaxConcurrentReconciles
  /\ queue' = queue \ {n}
  /\ job' = [job EXCEPT ![n] =
               IF FirstStep(cache[n]) = "idle" THEN Idle
               ELSE [Idle EXCEPT !.step = FirstStep(cache[n]),
                                 !.copy = cache[n]]]
  /\ UNCHANGED <<store, api, cache, writing, edits, faults>>

\* Mutant: a conflict is taken for success.
AddFinalizerIgnoringConflict(n) ==
  /\ job[n].step = "addFinalizer"
  /\ IF Fresh(n)
     THEN api' = [api EXCEPT ![n] = Bump([@ EXCEPT !.finalizer = TRUE])]
     ELSE UNCHANGED api
  /\ Continue(n, "metadata")
  /\ UNCHANGED <<store, cache, writing, edits>>

AddFinalizer(n) ==
  /\ job[n].step = "addFinalizer"
  /\ \/ /\ Fresh(n)
        /\ LET o == Bump([api[n] EXCEPT !.finalizer = TRUE]) IN
             /\ api' = [api EXCEPT ![n] = o]
             /\ \/ /\ job' = [job EXCEPT ![n].step = "metadata", ![n].copy = o]
                   /\ UNCHANGED <<queue, faults>>
                \/ LoseReply(n)
     \/ ~Fresh(n) /\ Retry(n) /\ UNCHANGED api
  /\ UNCHANGED <<store, cache, writing, edits>>

\* LastSyncTime changes with created || replicasUpdated even when the name
\* does not, so the object gets a new version then too.
UpdateStatus(n) ==
  /\ job[n].step = "status"
  /\ \/ /\ job[n].copy.indexName = job[n].use /\ ~job[n].synced
        /\ Done(n) /\ UNCHANGED api
     \/ /\ job[n].copy.indexName # job[n].use \/ job[n].synced
        /\ \/ /\ Fresh(n)
              /\ api' = [api EXCEPT ![n] =
                           Bump([@ EXCEPT !.indexName = job[n].use])]
              /\ Done(n) \/ LoseReply(n)
           \/ ~Fresh(n) /\ Retry(n) /\ UNCHANGED api
  /\ UNCHANGED <<store, cache, writing, edits>>

\* Mutant: the finalizer is removed without optimistic concurrency.
RemoveFinalizerBlind(n) ==
  /\ job[n].step = "removeFinalizer"
  /\ api' = [api EXCEPT ![n] = Absent(@.version + 1)]
  /\ Done(n)
  /\ UNCHANGED <<store, cache, writing, edits>>

\* Finalize returned neither an error nor a requeue: the object is let go.
RemoveFinalizer(n) ==
  /\ job[n].step = "removeFinalizer"
  /\ \/ /\ Fresh(n)
        /\ api' = [api EXCEPT ![n] = Absent(@.version + 1)]
        /\ Done(n) \/ LoseReply(n)
     \/ ~Fresh(n) /\ Retry(n) /\ UNCHANGED api
  /\ UNCHANGED <<store, cache, writing, edits>>

-----------------------------------------------------------------------------
(* Process                                                                 *)

\* ensureSearchIndexMetadata: a merge patch makes a new version of the object
\* only if it changes it.
Labelled(o) == IF o.labelled THEN o ELSE Bump([o EXCEPT !.labelled = TRUE])

\* The patch's reply replaces the controller's copy; a paused SearchIndex
\* stops here.
Proceed(n, o) ==
  /\ job' = [job EXCEPT ![n] =
               IF o.spec.paused THEN Idle
               ELSE [@ EXCEPT !.step = "probeDesired", !.copy = o]]
  /\ UNCHANGED <<queue, faults>>

\* The patch carries no version.  It finds the object: the finalizer holds it.
EnsureMetadata(n) ==
  /\ job[n].step = "metadata"
  /\ \/ /\ job[n].copy.labelled
        /\ Proceed(n, job[n].copy)
        /\ UNCHANGED api
     \/ /\ ~job[n].copy.labelled
        /\ api' = [api EXCEPT ![n] = Labelled(@)]
        /\ Proceed(n, Labelled(api[n])) \/ LoseReply(n)
  /\ UNCHANGED <<store, cache, writing, edits>>

ProbeDesired(n) ==
  /\ job[n].step = "probeDesired"
  /\ job' = [job EXCEPT ![n] =
               IF IndexExists(n)
               THEN [@ EXCEPT !.step = "settings", !.use = n]
               ELSE [@ EXCEPT !.step = "probeLegacy"]]
  /\ UNCHANGED <<store, api, cache, queue, writing, edits, faults>>

\* Mutant: the name of a new index is published before the index is created.
ProbeLegacyPublishingFirst(n) ==
  /\ job[n].step = "probeLegacy"
  /\ job' = [job EXCEPT ![n].step = "status",
                        ![n].use = IF IndexExists(OrgOf[n]) THEN OrgOf[n] ELSE n]
  /\ UNCHANGED <<store, api, cache, queue, writing, edits, faults>>

\* Mutant: the legacy index is not looked for.
ProbeLegacySkipped(n) ==
  /\ job[n].step = "probeLegacy"
  /\ job' = [job EXCEPT ![n] =
               IF @.copy.spec.mappable
               THEN [@ EXCEPT !.step = "createProbe", !.use = n]
               ELSE Idle]
  /\ UNCHANGED <<store, api, cache, queue, writing, edits, faults>>

\* With neither index there, DefaultIndexMapping may refuse the semantic
\* fields: an error that is not retried.
ProbeLegacy(n) ==
  /\ job[n].step = "probeLegacy"
  /\ job' = [job EXCEPT ![n] =
               IF IndexExists(OrgOf[n])
               THEN [@ EXCEPT !.step = "settings", !.use = OrgOf[n]]
               ELSE IF @.copy.spec.mappable
               THEN [@ EXCEPT !.step = "createProbe", !.use = n]
               ELSE Idle]
  /\ UNCHANGED <<store, api, cache, queue, writing, edits, faults>>

\* CreateIndex, first request.
CreateProbe(n) ==
  /\ job[n].step = "createProbe"
  /\ job' = [job EXCEPT
               ![n].step = IF IndexExists(n) THEN "aliasAll" ELSE "create",
               ![n].synced = IndexExists(n)]
  /\ UNCHANGED <<store, api, cache, queue, writing, edits, faults>>

\* CreateIndex, second request; "resource already exists" counts as success.
CreateIndex(n) ==
  LET spec == job[n].copy.spec
      Created == /\ job' = [job EXCEPT ![n].step = "aliasAll",
                                       ![n].synced = TRUE]
                 /\ UNCHANGED <<queue, faults>>
  IN
  /\ job[n].step = "create"
  /\ \/ n \in indices /\ Created /\ UNCHANGED store
     \/ /\ n \notin indices
        /\ PutIndex(n, [shards |-> NumberOfShards(spec),
                        replicas |-> NumberOfReplicas(spec),
                        mapped |-> TRUE])
        /\ Created \/ LoseReply(n)
  /\ UNCHANGED <<api, cache, writing, edits>>

\* Mutant: replicas are never compared.
CheckSettingsIgnoringReplicas(n) ==
  LET x == job[n].use IN
  /\ job[n].step = "settings"
  /\ IF HasIndexSettings(x)
     THEN Continue(n, "aliasAll")
     ELSE Retry(n)
  /\ UNCHANGED <<store, api, cache, writing, edits>>

\* A change of number_of_shards is refused and not retried.
CheckSettings(n) ==
  LET x == job[n].use
      spec == job[n].copy.spec
  IN
  /\ job[n].step = "settings"
  /\ \/ ~HasIndexSettings(x) /\ Retry(n)
     \/ /\ HasIndexSettings(x)
        /\ settings[x].shards # NumberOfShards(spec)
        /\ Done(n)
     \/ /\ HasIndexSettings(x)
        /\ settings[x].shards = NumberOfShards(spec)
        /\ Continue(n, IF settings[x].replicas # NumberOfReplicas(spec)
                       THEN "replicas" ELSE "aliasAll")
  /\ UNCHANGED <<store, api, cache, writing, edits>>

UpdateReplicas(n) ==
  LET x == job[n].use IN
  /\ job[n].step = "replicas"
  /\ \/ /\ x \in indices
        /\ PutReplicas(x, NumberOfReplicas(job[n].copy.spec))
        /\ \/ /\ job' = [job EXCEPT ![n].step = "aliasAll", ![n].synced = TRUE]
              /\ UNCHANGED <<queue, faults>>
           \/ LoseReply(n)
     \/ x \notin indices /\ Retry(n) /\ UNCHANGED store
  /\ UNCHANGED <<api, cache, writing, edits>>

\* Mutant: with aliases built for the index in use, "<prefix>-all" is skipped.
EnsureAllAliasSkipped(n) ==
  /\ job[n].step = "aliasAll"
  /\ Continue(n, "status")
  /\ UNCHANGED <<store, api, cache, writing, edits>>

\* Mutant: alias and index are swapped in the request.
EnsureAllAliasSwapped(n) ==
  LET x == job[n].use IN
  /\ job[n].step = "aliasAll"
  /\ PutAlias(AllAlias, x)
  /\ Continue(n, IF x = n THEN "status" ELSE "aliasCanonical")
  /\ UNCHANGED <<api, cache, writing, edits>>

\* EnsureAliases, first alias: "<prefix>-all".
EnsureAllAlias(n) ==
  LET x == job[n].use IN
  /\ job[n].step = "aliasAll"
  /\ \/ /\ x \in indices
        /\ PutAlias(x, AllAlias)
        /\ ContinueOrLoseReply(n, IF x = n THEN "status" ELSE "aliasCanonical")
     \/ x \notin indices /\ Retry(n) /\ UNCHANGED store
  /\ UNCHANGED <<api, cache, writing, edits>>

\* EnsureAliases, second alias: the canonical name, unless the index bears it.
EnsureCanonicalAlias(n) ==
  LET x == job[n].use IN
  /\ job[n].step = "aliasCanonical"
  /\ \/ /\ x \in indices
        /\ PutAlias(x, n)
        /\ ContinueOrLoseReply(n, "status")
     \/ x \notin indices /\ Retry(n) /\ UNCHANGED store
  /\ UNCHANGED <<api, cache, writing, edits>>

-----------------------------------------------------------------------------
(* Finalize                                                                *)

\* Without a status.indexName nothing is deleted; DeleteIndex probes first.
Finalize(n) ==
  LET x == job[n].copy.indexName IN
  /\ job[n].step = "finalize"
  /\ Continue(n, IF x # NoIndex /\ IndexExists(x) THEN "delete"
                                                   ELSE "removeFinalizer")
  /\ UNCHANGED <<store, api, cache, writing, edits>>

\* Mutant: the error of a deletion is not to be retried.
DeleteIndexUnretried(n) ==
  LET x == job[n].copy.indexName IN
  /\ job[n].step = "delete"
  /\ IF x \in indices
     THEN DropIndex(x) /\ Continue(n, "removeFinalizer")
     ELSE Done(n) /\ UNCHANGED store
  /\ UNCHANGED <<api, cache, writing, edits>>

\* DeleteIndex, second request: an index that has gone meanwhile is an error.
DeleteIndex(n) ==
  LET x == job[n].copy.indexName IN
  /\ job[n].step = "delete"
  /\ \/ /\ x \in indices
        /\ DropIndex(x)
        /\ ContinueOrLoseReply(n, "removeFinalizer")
     \/ x \notin indices /\ Retry(n) /\ UNCHANGED store
  /\ UNCHANGED <<api, cache, writing, edits>>

-----------------------------------------------------------------------------
(* Faults                                                                  *)

\* The step the reconcile is at sends no request.
Silent(n) ==
  LET j == job[n] IN
  \/ j.step = "idle"
  \/ j.step = "metadata" /\ j.copy.labelled
  \/ j.step = "finalize" /\ j.copy.indexName = NoIndex
  \/ j.step = "status" /\ j.copy.indexName = j.use /\ ~j.synced

\* A request fails without effect.  IndexExists then dereferences the nil
\* response; the panic is recovered and the key retried like any error.
RequestFails(n) ==
  /\ ~Silent(n)
  /\ LoseReply(n)
  /\ UNCHANGED <<store, api, cache, writing, edits>>

\* The operator restarts: jobs are lost, the cache is listed anew, and every
\* object is queued.
Restart ==
  /\ faults < MaxFaults
  /\ faults' = faults + 1
  /\ job' = [n \in SearchIndexes |-> Idle]
  /\ cache' = api
  /\ queue' = {n \in SearchIndexes : api[n].phase # "absent"}
  /\ writing' = {}
  /\ UNCHANGED <<store, api, edits>>

-----------------------------------------------------------------------------
(* Specification                                                           *)

Users(n) ==
  \/ \E spec \in Specs : CreateSearchIndex(n, spec) \/ EditSpec(n, spec)
  \/ DeleteSearchIndex(n)

Process(n) ==
  \/ AddFinalizer(n) \/ EnsureMetadata(n) \/ ProbeDesired(n) \/ ProbeLegacy(n)
  \/ CreateProbe(n) \/ CreateIndex(n) \/ CheckSettings(n) \/ UpdateReplicas(n)
  \/ EnsureAllAlias(n) \/ EnsureCanonicalAlias(n) \/ UpdateStatus(n)

Finalization(n) == Finalize(n) \/ DeleteIndex(n) \/ RemoveFinalizer(n)

Next ==
  \/ \E n \in SearchIndexes :
       \/ Users(n) \/ ReadIndexName(n)
       \/ Observe(n) \/ Begin(n) \/ Process(n) \/ Finalization(n)
       \/ RequestFails(n)
  \/ \E x \in IndexNames : WriteDocument(x)
  \/ Restart

Spec == Init /\ [][Next]_vars

\* Watch events arrive and a running reconcile goes on; the work queue is
\* first come first served, so a key that waits while others run gets a
\* worker in the end.  Users, document writes and faults are not fair.
Fairness ==
  \A n \in SearchIndexes :
    /\ WF_vars(Observe(n))
    /\ SF_vars(Begin(n))
    /\ WF_vars(Process(n) \/ Finalization(n))

FairSpec == Spec /\ Fairness

-----------------------------------------------------------------------------
(* Properties                                                              *)

Published(n) == api[n].indexName

(* The resource controllers write documents to status.indexName of a live  *)
(* SearchIndex (getSearchIndex, then IndexDocument) without probing it: it *)
(* must name an index that exists, whatever reconciles, lost replies and   *)
(* restarts came before.                                                   *)
StatusBacked ==
  \A n \in SearchIndexes :
    api[n].phase = "live" /\ Published(n) # NoIndex => Published(n) \in indices

(* Search clients query the alias "<prefix>-all".  Process publishes an    *)
(* index in status only after EnsureAliases, so the documents of a live    *)
(* SearchIndex are found through that alias.                               *)
StatusSearchable ==
  \A n \in SearchIndexes :
    api[n].phase = "live" /\ Published(n) # NoIndex
      => <<AllAlias, Published(n)>> \in aliases

(* Finalize guards the release of a SearchIndex: an object that published  *)
(* an index does not leave the API server while that index still exists,   *)
(* even when the copy Finalize worked on was stale or its reply was lost.  *)
(* What is there at most is an index that OpenSearch made anew of a late   *)
(* document, after Finalize had dropped the one it was meant for.          *)
ReleasedOnlyAfterCleanup ==
  [][\A n \in SearchIndexes :
       /\ api[n].phase = "deleting" /\ api'[n].phase = "absent"
       /\ Published(n) # NoIndex
       => Published(n) \notin Made]_vars

(* The finalizer is written before Process may create the index, so that   *)
(* no index comes into being whose SearchIndex can vanish without Finalize:*)
(* not even when the reconcile works on a copy of an object that has been  *)
(* deleted and created anew meanwhile.                                     *)
CreatedUnderFinalizer ==
  [][\A n \in SearchIndexes :
       n \in Made' \ Made => api[n].finalizer]_vars

(* useIndexName: a SearchIndex whose organization still has the index of a *)
(* former version of the operator keeps to it and never has a second one   *)
(* created beside it, between which its documents would be split.          *)
OneIndex ==
  \A n \in SearchIndexes :
    n # OrgOf[n] => ~(n \in Made /\ OrgOf[n] \in Made)

(* Finalize "handles cleanup when the resource is being deleted": once the *)
(* object is gone, so is the index Process created for it.                 *)
NoOrphanedIndex ==
  \A n \in SearchIndexes : api[n].phase = "absent" => n \notin indices

(* Nothing blocks the deletion of a SearchIndex for ever: conflicts, stale *)
(* copies, lost replies and restarts only delay it.                        *)
DeletionCompletes ==
  \A n \in SearchIndexes : api[n].phase = "deleting" ~> api[n].phase # "deleting"

\* The SearchIndex asks for an index that Process does not refuse.
Wanted(n) ==
  /\ api[n].phase = "live"
  /\ ~api[n].spec.paused /\ api[n].spec.mappable
  /\ n \in indices => settings[n].shards = NumberOfShards(api[n].spec)

Converged(n) ==
  /\ Published(n) \in indices
  /\ settings[Published(n)].replicas = NumberOfReplicas(api[n].spec)

(* Level-triggered reconciliation: a SearchIndex that asks for an index, or*)
(* for another number of replicas, gets it, unless the request changes.    *)
SpecConverges ==
  \A n \in SearchIndexes : Wanted(n) ~> Converged(n) \/ ~Wanted(n)

(* IndexExists "checks if an index exists": the index that the probe of the*)
(* desired name finds is there for GetIndexSettings, which follows.        *)
ProbeFindsAnIndex ==
  [][\A n \in SearchIndexes :
       job[n].step = "probeDesired" /\ job'[n].step = "settings"
         => job'[n].use \in indices]_vars

-----------------------------------------------------------------------------
(* Why the safety properties hold: the invariant the proofs rest on        *)

\* The indices SearchIndex n may be given.
Homes(n) == {n} \cup ({OrgOf[n]} \cap LegacyIndexes)

Names == SearchIndexes \cup LegacyIndexes

\* No SearchIndex bears the cluster ID of another one's organization.
NamesApart ==
  \A m, n \in SearchIndexes : m # n => OrgOf[n] # m

\* ... and no legacy index serves two SearchIndexes.
SoleTenant ==
  /\ NamesApart
  /\ \A m, n \in SearchIndexes :
       m # n /\ OrgOf[m] = OrgOf[n] => OrgOf[n] \notin LegacyIndexes

\* One reconcile per key: a deletion noticed while Process runs is still
\* pending, and what a former incarnation left in the cache or in a running
\* Finalize cannot meet an index name published by the present one.
OneReconcile(n) ==
  /\ job[n].step \in ProcessSteps /\ cache[n].phase = "deleting"
       => api[n].phase = "deleting"
  /\ cache[n].phase = "deleting" /\ api[n].phase = "live"
       => Published(n) = NoIndex
  /\ job[n].step \in FinalizeSteps /\ api[n].phase = "live"
       => Published(n) = NoIndex

\* Versions tell objects apart, and copies only lag behind.
Lags(o, n) == o.version <= api[n].version /\ (o.version = api[n].version => o = api[n])

Versions(n) ==
  /\ Lags(cache[n], n)
  /\ job[n].step # "idle" => Lags(job[n].copy, n)
  /\ job[n].step \in FinalizeSteps => job[n].copy.version <= cache[n].version
  /\ job[n].step \in FinalizeSteps => job[n].copy.phase = "deleting"

\* The finalizer is there whenever Process gets beyond adding it.
Held(n) ==
  /\ api[n].finalizer => api[n].phase # "absent"
  /\ cache[n].phase = "live" /\ cache[n].finalizer => api[n].finalizer
  /\ job[n].step = "addFinalizer" => job[n].copy.phase = "live"
  /\ job[n].step \in ProcessSteps \ {"addFinalizer"} => api[n].finalizer

\* The steps of Process after useIndexName is chosen.
ChosenSteps == {"createProbe", "create", "settings", "replicas", "aliasAll",
                "aliasCanonical", "status"}

\* Every index name in play for n is one of its homes.
AtHome(n) ==
  /\ Published(n) \in Homes(n) \cup {NoIndex}
  /\ cache[n].indexName \in Homes(n) \cup {NoIndex}
  /\ job[n].copy.indexName \in Homes(n) \cup {NoIndex}
  /\ job[n].use \in Homes(n) \cup {NoIndex}
  /\ job[n].step \in ChosenSteps => job[n].use \in Homes(n)

StoreOfNames ==
  /\ indices \subseteq Names
  /\ \A a \in aliases : a[1] \in SearchIndexes \cup {AllAlias}
  /\ writing \subseteq Names

IInv ==
  /\ TypeOK
  /\ StoreOfNames
  /\ \A n \in SearchIndexes :
       OneReconcile(n) /\ Versions(n) /\ Held(n) /\ AtHome(n)

\* What UpdateStatus is about to publish is there and can be searched.
AboutToPublish(n) ==
  job[n].step \in {"aliasCanonical", "status"}
    => job[n].use \in indices /\ <<AllAlias, job[n].use>> \in aliases

\* Once Finalize is through, the index it was told of is gone.
CleanedUp(n) ==
  job[n].step = "removeFinalizer"
    => job[n].copy.indexName \notin Made

\* A name in the status is there only under the finalizer; it is not there
\* for a Finalize that a new incarnation has overtaken; and as long as Process
\* may work on the object, the index it names is there.
Named(n) ==
  Published(n) # NoIndex =>
    /\ api[n].finalizer
    /\ ~(job[n].step \in FinalizeSteps /\ cache[n].phase = "live")
    /\ job[n].step \in ProcessSteps \/ cache[n].phase = "live"
         => Published(n) \in indices

\* Process creates an index only where there was no other to be used, and none
\* of those comes back.
Single(n) ==
  /\ job[n].step \in {"createProbe", "create"} => Made \cap Homes(n) \subseteq {n}
  /\ \A x, y \in Made \cap Homes(n) : x = y

\* Until its legacy index is gone, nothing bears the name of n.
LegacyFirst(n) ==
  n # OrgOf[n] /\ OrgOf[n] \in Made \cap LegacyIndexes =>
    /\ n \notin indices \cup writing
    /\ Published(n) # n
    /\ job[n].step \in ChosenSteps \ {"settings"} => job[n].use # n

\* A reconcile that goes for the legacy index has seen no other; one that
\* creates an index uses it, and no other name is published.
Chosen(n) ==
  /\ \/ job[n].step = "probeLegacy"
     \/ job[n].step \in ChosenSteps /\ job[n].use # n
     => n \notin Made
  /\ job[n].step \in {"createProbe", "create"}
       => job[n].use = n /\ Published(n) \in {n, NoIndex}

\* So the index in the status, there or gone, is the only one.
NoOther(n) ==
  Published(n) # NoIndex => Made \cap Homes(n) \subseteq {Published(n)}

-----------------------------------------------------------------------------
(* What the resource controllers see of all this                           *)

Promise(n) == INSTANCE SearchIndexPromise
  WITH phase <- api[n].phase,
       named <- Published(n) # NoIndex,
       index <- IF Homes(n) \cap Made # {} THEN "made"
                ELSE IF Homes(n) \cap indices # {} THEN "auto" ELSE "none"

(* Seen through status, as the resource controllers see it, a SearchIndex  *)
(* behaves as SearchIndexPromise says: a name appears only with an index   *)
(* behind it, the index stays while a live SearchIndex names it, and the   *)
(* object goes after the index, whatever copies, requests and failures the *)
(* controller works through on the way.                                    *)
PromiseKept ==
  /\ \A n \in SearchIndexes : Promise(n)!Init
  /\ [][\A n \in SearchIndexes : [Promise(n)!Next]_(Promise(n)!vars)]_vars
=============================================================================

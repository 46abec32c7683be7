# Formal models of the search-operator

TLA+ modules, TLC configurations and TLAPS proofs about platform-mesh
`search-operator`: a Kubernetes operator that keeps OpenSearch indices for
kcp workspaces. Paths below are relative to the repository root (`src/` here).

## 1. The system

Three kinds of controllers run in one process under a lifecycle manager
(golang-commons) on top of controller-runtime. They share no memory; they
interact through `SearchIndex` objects in the workspace `root:orgs` and through
OpenSearch.

| part | state it keeps | operations | talks to |
|---|---|---|---|
| APIBinding controller (`internal/subroutine/apibinding_watcher.go`) | none of its own | Process: for each claim of a bound binding get / create / update a SearchIndex; Finalize: nothing | APIBindings (cached read), schemas, SearchIndexes (direct read and write) |
| SearchIndex controller (`internal/subroutine/index_lifecycle.go`) | finalizer, labels and status of the SearchIndex | Process: probe the desired and the legacy index, create or adjust, put aliases, publish the name in status; Finalize: delete the published index | SearchIndex (cached read, conditional writes), OpenSearch |
| resource controllers (`internal/subroutine/indexable_resource_watcher.go`), one per configured resource type | finalizer on the resource | Process: read the SearchIndex and an AccountInfo, write a document; Finalize: delete the document | resources (cached), SearchIndex and Workspace (direct), AccountInfo, OpenSearch |
| OpenSearch client (`internal/opensearch/client.go`) | none | requests on indices, settings, aliases, documents | OpenSearch |
| names, mapping, documents (`org_path.go`, `document.go`) | none | pure functions | |
| lifecycle manager, work queue, informers, kcp, OpenSearch (external) | cache, queue, objects, indices | see "What is assumed of the outside" | |

How it flows: a bound APIBinding makes the first controller create a
SearchIndex; the second gives it an index and publishes `status.indexName`;
the third reads that name and writes documents. Users may edit and delete any of
the objects at any time, and OpenSearch or the API server may fail any request
or lose its reply.

What is hard in it: every reconcile is a sequence of requests based on a copy
that may be stale; several SearchIndexes can share one legacy index; several
bindings share one SearchIndex; a name read early is used late; a deletion may
come between any two steps; the process may stop between any two steps; an
error is retried or not depending on one Boolean argument. `PROJECT.json` lists
these hazards, each at its line with the properties aimed at it.

What makes each part correct:

* SearchIndex controller: a published name is backed by an index that can be
  searched; the finalizer covers the life of the index; the spec converges;
  deletions complete.
* APIBinding controller: each bound binding's SearchIndexes are there with its
  fields; nobody else's edit is lost.
* Resource controllers: a document is current, does not outlive its resource,
  and is written in the end; it carries the right account, parents that other
  documents bear, and the fields that the index is mapped for; deletions complete.
  What makes a document impossible to write delays it, and loses no key.
* Together: what one controller relies on is what another one keeps, and the
  work that a binding starts ends in something a search finds.

## 2. Modules

| module | models |
|---|---|
| `OpenSearch` | the store as the client sees it: indices, settings, aliases, and what each request observes or changes |
| `IndexLifecycle` | the SearchIndex controller on that store; properties; the inductive invariant |
| `IndexLifecycleProofs` | theorems about `IndexLifecycle` |
| `PromiseProofs` | theorems: `IndexLifecycle` implements `SearchIndexPromise`; an organization's legacy index stays the only one |
| `APIBindingWatcher` | the APIBinding controller and the SearchIndexes it writes |
| `APIBindingWatcherProofs` | theorems about `APIBindingWatcher` |
| `SearchIndexPromise` | abstract: what phase, name and index of a SearchIndex do as seen by those who read its status |
| `ResourceWatcher` | the resource controllers and their documents, next to a SearchIndex that does what `SearchIndexPromise` allows |
| `ResourceWatcherProofs` | theorems about `ResourceWatcher` |
| `ResourceDocument` | how one reconcile makes a document: AccountInfo, FGA objects, permissions, fields; and the mapping it should fit |
| `ResourceDocumentProofs` | theorems about `ResourceDocument`: accounts and parents |
| `ResourceFieldsProofs` | theorems about `ResourceDocument`: the semantic fields, from the mapping to the document |
| `SearchOperator` | the three controllers in one process, on one binding kind, one SearchIndex and its resources |
| `SearchOperatorProofs` | theorems about `SearchOperator`, from those of `PromiseProofs` and `ResourceWatcherProofs` |
| `IndexNames` | names of SearchIndexes, indices and aliases, as functions on words; what they keep apart |
| `IndexNamesProofs` | theorems about `IndexNames` |
| `MC...` | small instances for TLC |

**One request is one step.** `job[n].step` names the request a reconcile is about
to send, `job[n].copy` the object it works on. The steps between two requests are
local and are merged into the step before. A client method that sends several
requests (CreateIndex, DeleteIndex, EnsureAliases) takes several steps.

**IndexLifecycle.** `FirstStep` is the lifecycle manager's decision between
Process, adding the finalizer, Finalize and nothing. The actions follow the
code in order: `AddFinalizer`, `EnsureMetadata` (patch; pause ends the reconcile
after it), `ProbeDesired`, `ProbeLegacy`, `CreateProbe` and `CreateIndex` or
`CheckSettings` and `UpdateReplicas`, `EnsureAllAlias`, `EnsureCanonicalAlias`,
`UpdateStatus`; `Finalize`, `DeleteIndex`, `RemoveFinalizer`. `Retry` is an error
with `retry = true`, `Done` success or an error without. `LoseReply` is a request
that took effect and whose reply was lost; `RequestFails` one without effect.
Objects carry a version that counts on through deletion and re-creation, so it
stands for resourceVersion and UID. `ReadIndexName` and `WriteDocument` are the
resource controllers as far as this module needs them: a write may make
OpenSearch create an index (`AutoCreateIndex`: nothing in the repository turns
`action.auto_create_index` off, so it is a parameter). Such an index has neither
mapping nor alias; `Made` are the others, which the operator created on purpose.

**APIBindingWatcher.** A job walks the claims; for each, `Get` decides, `Create` or
`Update` follows. The name is the constant `CanonicalName`, which depends on
organization and resource exactly as `buildCanonicalIndexName` does. The phase
"removed" tells a SearchIndex a user deleted from one that never was.

**IndexNames** is what that constant abstracts from: words are sequences of characters,
and the loop of `sanitizeIndexNamePart` is a function from the characters read to the
word written. Three statements say what the rest relies on: `NamedApart` (different
resources and organizations have different names), `ApartFromAliases` (no name is a
cluster ID or the common alias, and as an alias a name is itself) and `SanitizedStays`.
`MCAPIBindingWatcher` checks them as ASSUMEs over the words of a few characters;
`IndexNamesProofs` proves them for words of any length.

**SearchIndexPromise** has three variables and seven actions: the object comes, an index
is made, by the operator or by OpenSearch, published, dropped, the object is deleted and
released. `IndexLifecycle`
implements it for every SearchIndex that shares no legacy index, under the refinement
mapping `Promise(n)`: the phase is the API server's, `named` is whether status names
an index, `index` whether under one of the names that can be its index there is one that
the operator made ("made"), only one that OpenSearch made ("auto"), or "none". Finalizer,
cache, jobs, aliases and settings are hidden; most steps are stutters. The mapping is
checked as `PromiseKept` in `legacy` (where a name may be the legacy index's), `live`
and, for the composition, `operator`.

**ResourceWatcher.** `GetSearchIndex`, `GetAccountInfo`, `IndexDocument`;
`FindIndex`, `DeleteDocument`, `RemoveFinalizer`. A RequeueAfter and a retried
error are the same (`Retry`): the key is back in the queue, time is left out. The
SearchIndex around it takes any step of `SearchIndexPromise`
(`ChangeSearchIndex`), unbounded and unfair; dropping its index turns a document
into `LostDoc`. A document remembers whether its index was named by the SearchIndex
when it was written. `unfit` are the resources of which, as they and the SearchIndex are,
no document can be written: `buildPayload` or `buildDocumentSource` fails, or OpenSearch
refuses what they made. Any edit of a resource, of the SemanticFields or of the mapping
may make a resource unfit or fit; `GetSearchIndex` reads how it is, and `IndexDocument`
then ends in an error that is retried, as often as it comes.

**ResourceDocument** opens up what `ResourceWatcher` takes for two steps. Each lookup of
an AccountInfo is a step (`LookUpPath`; `LookUp` and, after "not found", `LookUpAgain`
per candidate cluster), and may find something, nothing, or fail, while
`ProvideAccountInfo` fills the AccountInfos in. `SetField` is one turn of the loop over
a Go map, any field next. Trees are functions from paths; field paths are sequences of
segments, blank ones included, because both splitters drop those.

**SearchOperator** instantiates the three controllers on one set of variables. A step
of one is a step of its module and says what it leaves alone of the others:
`BindingCreate` is `APIBindingWatcher!Create` and `IndexLifecycle!AddSearchIndex` at
once, a `SearchIndexStep` takes documents with their index, and a document written to an
index that is not there brings it back in the store of the SearchIndex controller. What was environment in
one module (`Promise` in `ResourceWatcher`, `EditSearchIndex` in `APIBindingWatcher`,
`WriteDocument` in `IndexLifecycle`) is here another controller. Users' edits and
faults are counted together, and `Restart` hits all. Legacy indices and unfit resources
are left to the modules of the single controllers.

Operators marked "Mutant" are slips a change of the code could make. They are
used in no specification; putting one in place of the definition that follows
it must break the property it is listed with in `PROJECT.json`.

## 3. Runs

All configurations but `documents` say `CHECK_DEADLOCK FALSE`: when users have spent
their edits and nothing is left to reconcile, the system rests. `MaxEdits` and
`MaxFaults` bound what users and the network do, never the controllers.

| run | instance | shows |
|---|---|---|
| `legacy` | one SearchIndex, a legacy index, automatic index creation, five specs (normalised, other shards, paused, unmappable), 4 edits, 2 faults | `StatusBacked`, `ReleasedOnlyAfterCleanup`, `CreatedUnderFinalizer`, the refinement `PromiseKept`, no second index beside a legacy one (`OneIndex`), and the invariant `IInv` |
| `shared` | two SearchIndexes on one legacy index, two workers, 4 edits, fair | `IInv` and `ReleasedOnlyAfterCleanup` with sharing; `DeletionCompletes` although deletions of one index meet |
| `live` | one SearchIndex, automatic index creation, two specs (one with shards and replicas that are normalised), 4 edits, 2 faults, fair | `SpecConverges`, `DeletionCompletes`, `StatusBacked`, `StatusSearchable`, `PromiseKept` |
| `bindings` | two bindings of one organization, one name in common, fields of another one change, two workers, 4 edits, 1 fault, fair | `IInv` (stale reads only lag), `Settled`, `UserEditsKept`, `BindingServed` |
| `resources` | two resources, fit or unfit, one worker, a SearchIndex that does all it may, automatic index creation, 2 edits, 1 fault, fair | `IInv` (stale copies, finalizers and document IDs), `DocumentsHeld`, `DocumentsFresh`, `ResourceIndexed` |
| `operator` | one binding, SearchIndex and resource, no legacy index, automatic index creation, 3 edits and 1 fault of all sorts, fair | `DocumentsReachable`, `DocumentsHeld`, `DocumentsFresh`, `PromiseKept`, `EndToEnd` |
| `documents` | an organization and an account, 7 resources (namespaced, cluster-scoped, Namespace, Account, Workspace, Account and Organization of the search group), lists of up to 2 of 9 semantic fields | `IInv` (what a document is built from), `FieldsIInv` (what each of its nodes is there for), `AccountOfWorkspace`, `ParentsAreDocuments`, `FieldsBuild`, `FieldsCarried` |
| `orphan`, `probe`, `sibling`, `fields`, `stuck` | the smallest instances that show it | each refutes one thing the repository says; see section 6 |

Why the bounds are enough. Four user requests are create, edit or delete, create
again, and one more, so that two incarnations of an object meet in one stale
copy. In `resources` the SearchIndex is not counted, it comes and goes as often as it
likes; two edits create both resources, one of which may be retried for ever while the
other waits for the worker, or create one and change it, make it fit or unfit, or delete
it. That a resource is created again takes a third edit, with which TLC needs too long
there: it is left to the proofs, which cover all the safety properties of that run. In
`operator` three edits are a binding, a resource, and one more, which interferes with the
controllers' own writes; that SearchIndex and resource are both deleted takes a fourth,
and is left to `resources` and to the proofs. Automatic index creation is off only in
`shared` and the runs that refute; the theorems cover both values. Two fields
that meet (one in the other, two spellings of one, one in the document's own) are all
that the order of the loop in `buildDocumentSource` can tell apart. Two
faults give a lost reply followed by a failure of the retry, or by a restart.
Two SearchIndexes (bindings, resources) are the most that share anything
pairwise: no step looks at three. One alias, one legacy index and two replica
counts are all the code can tell apart. Most of the safety properties do not rest
on bounds: they are proved (section 4).

**Fairness.** Weak fairness of `Observe`: informers deliver or re-list. Weak
fairness of a running reconcile: it is a goroutine that waits for nothing but
replies, and a request that never returns ends as a failure. Strong fairness of
`Begin`: the work queue hands keys out in order, so a key that stays queued gets a
worker although others take it first. Users, faults, restarts, AccountInfos and
(in `ResourceWatcher`) the SearchIndex are not fair. `SearchOperator` asks for weak
fairness only: with one key per controller a queued key that is not running can
always begin, so strong fairness would add nothing but time. The periodic resync of the
informers is not used: it is ten hours away, and with it the liveness properties
would say little about retries.

## 4. What is proved

TLAPS checks each theorem for any value of the constants: any number of SearchIndexes,
bindings, resources, accounts and clusters, any specs and names, any number of
workers, edits and faults. What is assumed besides is in the last column; the modules'
own named assumptions say what type a constant has, and TLC evaluates them on every
run.

| theorem | statement | assuming |
|---|---|---|
| **IndexLifecycleProofs** | | |
| `TypeCorrect` | `Spec => []TypeOK` | |
| `Invariance` | `Spec => []IInv` | `NamesApart` |
| `StatusIsBacked` | `Spec => []StatusBacked` | `SoleTenant` |
| `StatusIsSearchable` | `Spec => []StatusSearchable` | `SoleTenant` |
| `CreationIsGuarded` | `Spec => CreatedUnderFinalizer` | |
| `ReleaseIsGuarded` | `Spec => ReleasedOnlyAfterCleanup` | `NamesApart` |
| **PromiseProofs** | | |
| `OneIndexAtATime` | `Spec => []OneIndex` | `NamesApart` |
| `PromiseIsKept` | `Spec => PromiseKept` (refinement) | `SoleTenant` |
| **APIBindingWatcherProofs** | | |
| `TypeCorrect` | `Spec => []TypeOK` | |
| `Invariance` | `Spec => []IInv` | |
| `EditsOfUsersAreKept` | `Spec => UserEditsKept` | |
| `WhatIsClaimedIsServed` | `Spec => []Settled` | `Agreeing` |
| **ResourceWatcherProofs** | | |
| `TypeCorrect` | `Spec => []TypeOK` | |
| `Invariance` | `Spec => []IInv` | |
| `NoDocumentOutlives` | `Spec => []DocumentsHeld` | |
| `DocumentsAreFresh` | `Spec => []DocumentsFresh` | `DistinctIds` |
| **ResourceDocumentProofs** | | |
| `Invariance` | `Spec => []IInv` | |
| `AccountIsOfWorkspace` | `Spec => []AccountOfWorkspace` | |
| `ParentsExist` | `Spec => []ParentsAreDocuments` | |
| **ResourceFieldsProofs** | | |
| `FieldsInvariance` | `Spec => []FieldsIInv` | |
| `AcceptedFieldsBuild` | `Spec => []FieldsBuild` | |
| `AcceptedFieldsCarried` | `Spec => []FieldsCarried` | |
| **IndexNamesProofs** | | |
| `WordsStay` | `SanitizedStays` for all words | |
| `ResourcesAreNamedApart` | `NamedApart` for all prefixes, cluster IDs without a dash, resources and lengths | |
| `NamesAreApartFromAliases` | `ApartFromAliases` for the same | a prefix that is not empty and needs no sanitizing |
| **SearchOperatorProofs** | | |
| `PromiseIsKept` | `Spec => PromiseKept` (refinement) | |
| `DocumentsAreReachable` | `Spec => []DocumentsReachable` | |
| `NoDocumentOutlives` | `Spec => []DocumentsHeld` | |
| `DocumentsAreFresh` | `Spec => []DocumentsFresh` | `DistinctIds` |

**The assumptions.** Each is there because the property is false without it, or
because the outside grants it.

* `NamesApart`: no SearchIndex bears the cluster ID of an organization of another one.
  The names `ensureSearchIndex` builds start with the prefix and end in the resource;
  a cluster ID is a hash. `NamesAreApartFromAliases` proves it of names that are not cut.
* `SoleTenant` adds that no legacy index serves two SearchIndexes; without it
  `StatusBacked` is false (run `sibling`).
* No theorem assumes that `AutoCreateIndex` is on or off. What automatic index creation
  takes away is said in the properties: `CreatedUnderFinalizer`,
  `ReleasedOnlyAfterCleanup` and `OneIndex` speak of the indices that are `Made`,
  `DocumentsHeld` and `DocumentsReachable` except documents in an index that OpenSearch
  made anew (section 6).
* `Agreeing`: bindings that share a SearchIndex have the same fields in all the
  statuses they go through; without it `Settled` is false (run `fields`). It speaks of
  constants only, and `bindings` is an instance of it.
* `DistinctIds`: no two resources share a document ID. `buildDocumentID` leaves the API
  group out, so two resources can; then the last writer has the document.
* The prefix of `NamesAreApartFromAliases`: names are built with the prefix as it is
  configured, aliases with the sanitized one. With the prefix "a.b" the name "a.b-id-res"
  has the alias "a-b-id-res"; with an empty one the organization "pm" and the resource
  "all" make the name "pm-all", which is the common alias. That a name is not cut is no
  assumption of the theorems but part of `NamedApart` and `ApartFromAliases`, because a
  name that is cut loses its resource.

**The argument for the SearchIndex controller.** None of the properties is inductive,
because all of them depend on what a stale copy can and cannot say:

* `Versions` (with `Lags`): cache and job hold an earlier version of the object or
  the present one, and equal versions are equal objects. So a conditional write
  that succeeds acts on what the reconcile has seen.
* `OneReconcile`: the queue never runs a key twice at a time, so a deletion that
  is observed while Process runs is still pending, and what an earlier incarnation
  left in the cache or in a running Finalize meets no published name of the
  present one.
* `Held`: from `AddFinalizer` on, the API server's object has the finalizer. This
  gives `CreatedUnderFinalizer`.
* `AtHome` and `StoreOfNames`: the only index names in play for a SearchIndex are its
  own and its organization's legacy index, which are disjoint from those of others
  under `SoleTenant`. So nobody else drops the index it is about to publish.
* On top of `IInv`: `AboutToPublish` (what `UpdateStatus` writes exists and has its
  alias) gives `StatusBacked` and `StatusSearchable`; `CleanedUp` (Finalize's index is
  gone until the object is) gives `ReleasedOnlyAfterCleanup`.
* `OneIndex` rests on what a probe still says when it is used (`Single`): a reconcile gets
  to `CreateIndex` only after it saw that there is no legacy index, and nobody brings that
  one back: only `CreateIndex` makes indices, and never under a legacy name; what OpenSearch
  brings back is not `Made`.

The lemmas follow the same order: who can create an index (`WhoCreates`), add an
alias (`WhoAliases`), drop an index (`WhoDrops`), publish a name (`WhoPublishes`), and
that every other step leaves the parts of an invariant alone (`QuietSteps`).

**The refinement.** `PromiseIsKept` shows that the initial states of `IndexLifecycle`
are initial states of `SearchIndexPromise` under `Promise(n)`, and that each step is
one of its six actions or a stutter. What carries it beyond `IInv`: a name in the status
is there only under the finalizer, and the index it names exists as long as Process may
work on the object (`Named`). `Release` promises that the index the operator made is gone:
that takes `CleanedUp`, and that a SearchIndex never has two of them (`Single`), so that
the one in the status, there or gone, is the only one (`NoOther`). With a legacy index and
late writes about this needs two more parts: until the legacy index is gone nothing bears
the SearchIndex's own name (`LegacyFirst`), and a reconcile that has gone for the legacy
index, or is about to create one, has no other made index behind it (`Chosen`). Automatic
index creation is a parameter of both modules, and the theorem covers both values.
`NoDocumentOutlives` and `DocumentsAreFresh` of `ResourceWatcherProofs` are proved against
anything `SearchIndexPromise` allows; the composition puts the two together.

**The argument for the APIBinding controller.** `ReadLags`: what Get returned is the
SearchIndex as it is or an older version of it, so an update that is not refused writes
back the rest of the spec as it stands: `UserEditsKept`. `Sourced`: the claims and fields
of a running reconcile come from one status its binding had, so under `Agreeing` every
write to a shared SearchIndex writes the same fields. `Noted` says what has been done so
far: unless the key is queued, each name the cached binding claims is served, removed, or
still pending in the running reconcile; and this gives `Settled` when nothing is pending.

**The argument for the resource controllers.** `Versions` and `Held` as above, and
`InPlace`: a document stands under the ID where Finalize of its resource looks. For
`DocumentsHeld` the invariant is `HeldInv`: a document is in an index that exists, and if
the operator made that index, one that was written under a published name still sees that
name published (`Backed`), so Finalize cannot take the way "no index name" around it, and a
reconcile that is about to remove the finalizer has left none behind (`Cleaned`).
`DocumentsFresh` adds `NotForgotten`: whatever came in since a reconcile began, or since
the document was written, has put the key into the queue.

**The argument for documents.** `OwnFirst` and `FoundInOwn`: the resource's own cluster is
asked before any other, and an AccountInfo describes the account of the workspace it was
found in, but for a cluster ID that the account operator may not have filled in yet;
`Built`: only a complete one becomes a document, and the document keeps what was found then.
`ParentsExist` unfolds FGA names on both sides: the account's part holds whichever
AccountInfo was found, because each describes some account whole but for that cluster ID;
the namespace's part needs the own workspace's. Its lemmas say that the missing cluster
ID gets into no parent, and that account and namespace share no object.

**The argument for fields.** `DefaultIndexMapping` takes a semantic field only if no other
mapped field lies on its way or behind it, so `Accepted` fields never meet: no one is an
ancestor of another, and none runs through a field of the document's own that is mapped
(`Mappings` only grows along the list, each field in it "semantic" and what lies on the way
to it "object"). The loop of `buildDocumentSource` can then go wrong only where it
meets something. `FieldsIInv` says what it can meet: every node of the document is a field of
its own, lies under `custom_fields`, is an object on the way to a semantic field, or belongs
to the value of one (`Placed`); and what has been set stays (`Carried`). A conflict
would be a node that is none of these, which is `FieldsBuild`; when the loop is through,
`Carried` is `FieldsCarried`. `FieldsBuild` has one exception, and needs it: a resource
with a field `custom_fields` of its own (section 6).

`Mappings` is a recursive function of the list's length. What it does for lists of any
length is shown by `InductiveSet`: the set of lengths for which it holds has 0 and with
each number the next, so it is all of `Nat`. That takes no operator as a parameter, so
the provers can use it; it follows from the library's `WFMin` and
`NatLessThanWellFounded`.

**The argument for names.** The loop never writes two dashes in a row (`WrittenIsSingle`), so
what `TrimDashes` leaves is clean: alphanumerics in between single dashes
(`SanitizedIsClean`), and a clean word is written as it is (`CleanStays`); hence
`WordsStay`. A name is prefix, dash, cluster ID, dash, sanitized resource
(`JoinedIsComposed`), trimmed; two names that are equal have lost the same dashes in
front (`TrimmedApart`), so the same prefix ends in the same place, the first dash behind
it ends the cluster ID, and the rest is the resource (`ComposedApart`). The prefix may
have dashes, and so may the resource; the cluster ID may not.

**The argument for the composition.** `SearchOperatorProofs` instantiates `PromiseProofs` on
the operator's variables. Its conditions are met there: one SearchIndex shares with no
other, and there is no legacy index. `NextLifecycle` shows that each step
of the operator either is a step of the SearchIndex controller or is `Foreign` to it: it
creates the SearchIndex as `ensureSearchIndex` does, bumps its version, makes OpenSearch
bring the index back with a document (`AutoMade`), or leaves it alone, and touches nothing
else in OpenSearch and neither cache, queue nor job of the controller. The last section
of `PromiseProofs` shows that a `Foreign` step keeps all the promise rests on and is a
step of the promise or a stutter; that gives `PromiseIsKept`. `DocumentsAreReachable` adds
`DocumentsInv`: the name in the status has the common alias while the object is live, and
while it is being deleted as long as the index is the one the operator made
(`PublishedIsReachable`); documents are in an index
that exists (`Stored`); and an index loses its aliases only by being dropped
(`AliasesStay`), which takes the documents along (`HowDocumentsChange`).

`NoDocumentOutlives` and `DocumentsAreFresh` go the other way round. `NextDocuments` shows that
each step of the operator is a step of `ResourceWatcher` or, in the sense of the last
section of `ResourceWatcherProofs`, `Foreign` to it: it takes the SearchIndex one step of
`SearchIndexPromise` further or leaves it (`NextPromise` gives that), takes documents with
their index, and leaves resources, their cache, queue and jobs alone. Such a step keeps
`IInv`, `HeldInv` and `NotForgotten`. So the resource controllers keep their documents right
next to the real SearchIndex controller and `ensureSearchIndex`, not only next to the
promise that stands for them. The composition has no unfit resources; those are in
`ResourceWatcher` and its theorems.

**Only model-checked.**

* All liveness (`SpecConverges`, `DeletionCompletes`, `BindingServed`,
  `ResourceIndexed`, `EndToEnd`): out of the prover's reach, as is ENABLED.

Every invariant and action property of the passing runs, and the refinement, is stated
by a theorem.

## 5. What is assumed of the outside

* One active operator (`--leader-elect` in the deployment). A restart loses jobs,
  queue and cache.
* The lifecycle manager adds the finalizers of a live object before Process, calls
  Finalize for a deleted object that has them, and removes them when Finalize
  returns neither an error nor a requeue. It writes status after Process when it
  changed. All these writes are conditional on the version; the metadata patch is not.
* A key is never reconciled twice at the same time; a panic is recovered and
  retried like an error.
* A Get in the SearchIndex and APIBinding controllers' Reconcile comes from the
  informer cache; `orgsClient` reads past it.
* OpenSearch: HEAD of a name answers for aliases; settings are keyed by concrete
  index; deleting an index deletes its aliases; putting an alias is idempotent;
  deleting a document that is not there is a 404, which the client library returns
  as an error; a write to a missing index creates it if so configured.

## 6. Where code and words disagree

Each of these is a run that TLC refutes; `PROJECT.json` quotes the lines.

* `orphan`: delete a SearchIndex after `CreateIndex` and before its status is
  written: Finalize finds no name, the index stays.
* `probe`: a legacy index gets the canonical name as an alias in the first
  reconcile. In the second the probe of that name answers for the alias, the
  settings of that name are not found, and the reconcile fails for ever.
* `sibling`: deleting one SearchIndex on a shared legacy index drops it under the
  others.
* `fields`: bindings of two workspaces share a SearchIndex, and overwrite each
  other's DefaultFields when their schemas differ.
* `stuck`: a resource deleted before its first document was written keeps its
  finalizer for ever, because deleting the missing document is an error.

Other places where code and words part, which no run refutes by itself:

* `getAccountInfo` "Returns the AccountInfo for the given resource if it is an Account
  or Organization" (`indexable_resource_watcher.go:281`), but compares with the group
  `search.platform-mesh.io`, while the default searchable resource and the account
  operator's Accounts are in `core.platform-mesh.io`. Their documents take the way of
  all other resources and carry the account their workspace belongs to; the same goes
  for `mapResourceToFGAObject`. `ResourceDocument` has both groups.
* A Workspace is mapped to the FGA object of an Account, with the cluster of the
  AccountInfo that was found first, that of the parent's, so it differs from the FGA
  object of the Account the workspace belongs to.
* Semantic fields that are edited after the index was made are not added to its
  mapping; when they run through a field of the document, indexing fails for ever.
* An index that OpenSearch made of a late document, after Finalize had dropped the one it
  was meant for, belongs to nobody until a SearchIndex of that name comes; that one finds
  it, takes it for its own and publishes it, aliases and replicas put right, but without
  the mapping of `DefaultIndexMapping`, and with the document in it.
* "Paused stops all indexing when true" (`searchindex_types.go:38`), but the resource
  controllers do not look at it: documents are written whatever it says.
* `custom_fields` is a field of the document but not of the mapping, so a semantic field
  of that name is accepted and replaces the custom fields. A semantic field
  `custom_fields.x.y` of a resource that has such a field runs into the default fields when
  one of them is called `x`, and indexing fails for ever: the exception in `FieldsBuild`.

Properties that hold only where these do not interfere say so: `Settled` and
`BindingServed` in the run where bindings with a name in common agree on the fields;
`SpecConverges` where there is no legacy index; `PromiseKept` where no two SearchIndexes
share a legacy index. `DocumentsHeld` excuses a document whose index name was read from
an earlier SearchIndex and which reached the index of a new one before its status named
it: if its resource is deleted just then, Finalize finds no name, and the document stays.
It also excuses documents in an index that OpenSearch made anew after Finalize had dropped
the SearchIndex's: the SearchIndex may go, a new one has no name yet, and the same happens.
`DocumentsReachable` excuses documents in such an index, too, until a live SearchIndex
publishes it: it has no alias. `ResourceIndexed` leaves out resources of which no document
can be written (`unfit`) as long as they are so, and documents that went with a deleted
SearchIndex. `EndToEnd` leaves those out, too (in `SearchOperator` every resource is fit),
and SearchIndexes that users delete, which nobody creates again until a binding changes.
`AccountOfWorkspace` excuses documents for which a lookup in the resource's own workspace
failed or came too early: the account of another candidate cluster is then kept until the
resource changes. In such a document the account in the permissions is still one whose
document bears that object, but the namespace may be none's: `ParentsAreDocuments` leaves
that namespace out, and Organizations.

## 7. Not modelled

* The payload text, timestamps and the character-level form of FGA names and document
  IDs; `fgamodel` (external) is modelled by what Process uses of it.
* Semantic model IDs and the shape of OpenSearch's answers.
* Of `cmd/main.go` the flags and connections; configuration, metrics, generated code,
  manifests: wiring without state of its own. `WorkspaceDocument` and `GetAllClient` have no part in a reconcile.
* Time: RequeueAfter and back-off are "later".
* A request that OpenSearch applies after the client has given up on it and sent
  the next one.
* In `SearchOperator`: legacy indices, paused or refused Specs, unfit resources.
* Which semantic fields, mappings and contents make a resource unfit, in
  `ResourceWatcher`: `ResourceDocument` looks at that, for one reconcile.

## 8. Plan

1. Done: the controllers one by one, what lies between them (`SearchIndexPromise`,
   `SearchOperator`), the functions (`ResourceDocument`, `IndexNames`); proofs of the
   safety of each controller, and that the SearchIndex controller implements
   `SearchIndexPromise`.
2. Done: the composition. `PromiseKept`, `DocumentsReachable`, `DocumentsHeld` and
   `DocumentsFresh` of `SearchOperator`.
3. Done: the fields and the names, for lists and words of any length.
4. Open: `UserEditsKept` next to the SearchIndex controller, whose status and metadata
   writes make the conflicts there. `Settled` does not carry over as it stands: in
   `SearchOperator` a user may delete the SearchIndex and create it again without fields,
   and no event of a binding follows that would put them in. It would have to leave out
   SearchIndexes that did not come from `ensureSearchIndex`, and so needs a history.
5. Open: liveness, which stays with TLC.

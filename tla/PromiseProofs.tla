--------------------------- MODULE PromiseProofs ---------------------------
(***************************************************************************)
(* Proof that the SearchIndex controller keeps its promise: IndexLifecycle *)
(* implements SearchIndexPromise, seen through the status of each          *)
(* SearchIndex, with automatic creation of indices or without.             *)
(***************************************************************************)
EXTENDS IndexLifecycleProofs

-----------------------------------------------------------------------------
(* What each step does to one object                                       *)

\* The object changes, but neither its phase nor its index name, and it does
\* not lose the finalizer.
Touched(n) ==
  /\ api'[n].phase = api[n].phase
  /\ Published(n)' = Published(n)
  /\ api[n].finalizer => api'[n].finalizer

Created(n) ==
  /\ api[n].phase = "absent" /\ api'[n].phase = "live"
  /\ Published(n)' = NoIndex

Deleted(n) ==
  /\ api[n].phase = "live"
  /\ \/ api[n].finalizer /\ api'[n].phase = "deleting" /\ api'[n].finalizer
        /\ Published(n)' = Published(n)
     \/ ~api[n].finalizer /\ api'[n].phase = "absent" /\ Published(n)' = NoIndex

StatusSet(n) ==
  /\ job[n].step = "status"
  /\ api'[n].phase = api[n].phase /\ api'[n].finalizer = api[n].finalizer
  /\ Published(n)' = job[n].use
  /\ job'[n] = Idle

Released(n) ==
  /\ RemoveFinalizer(n) /\ Fresh(n)
  /\ api'[n].phase = "absent" /\ Published(n)' = NoIndex
  /\ job'[n] = Idle

(* An object changes in one of five ways, and no index with it.            *)
LEMMA HowObjectsChange ==
  ASSUME TypeOK, [Next]_vars, NEW n \in SearchIndexes
  PROVE  \/ api'[n] = api[n]
         \/ /\ UNCHANGED <<indices, settings, cache>>
            /\ \/ Touched(n) \/ Created(n) \/ Deleted(n) \/ StatusSet(n) \/ Released(n)
<1>0. /\ api \in [SearchIndexes -> Objects]
      /\ job \in [SearchIndexes -> Jobs]
      /\ \A k \in SearchIndexes : api[k] \in Objects
  BY DEF TypeOK
<1> USE DEF store
<1>1. ASSUME NEW m \in SearchIndexes, m # n,
             \/ Users(m) \/ AddFinalizer(m) \/ EnsureMetadata(m)
             \/ UpdateStatus(m) \/ RemoveFinalizer(m)
      PROVE  api'[n] = api[n]
  BY <1>0, <1>1 DEF Users, CreateSearchIndex, AddSearchIndex, EditSpec,
       DeleteSearchIndex, AddFinalizer, EnsureMetadata, UpdateStatus, RemoveFinalizer
<1>2. ASSUME NEW spec \in Specs, CreateSearchIndex(n, spec)
      PROVE  Created(n) /\ UNCHANGED <<indices, settings, cache>>
  <2>1. api'[n] = [Absent(api[n].version + 1) EXCEPT !.phase = "live", !.spec = spec]
    BY <1>0, <1>2 DEF CreateSearchIndex, AddSearchIndex
  <2> QED
    BY <1>2, <2>1 DEF CreateSearchIndex, AddSearchIndex, Absent, Created, Published
<1>3. ASSUME NEW spec \in Specs, EditSpec(n, spec)
      PROVE  Touched(n) /\ UNCHANGED <<indices, settings, cache>>
  <2>1. api'[n] = Bump([api[n] EXCEPT !.spec = spec])
    BY <1>0, <1>3 DEF EditSpec
  <2> QED
    BY <1>0, <1>3, <2>1 DEF EditSpec, Bump, Objects, ObjectOf, Published, Touched
<1>4. ASSUME DeleteSearchIndex(n)
      PROVE  Deleted(n) /\ UNCHANGED <<indices, settings, cache>>
  <2>1. CASE api[n].finalizer
    <3>1. api'[n] = Bump([api[n] EXCEPT !.phase = "deleting"])
      BY <1>0, <1>4, <2>1 DEF DeleteSearchIndex
    <3> QED
      BY <1>0, <1>4, <2>1, <3>1
         DEF DeleteSearchIndex, Bump, Objects, ObjectOf, Published, Deleted
  <2>2. CASE ~api[n].finalizer
    <3>1. api'[n] = Absent(api[n].version + 1)
      BY <1>0, <1>4, <2>2 DEF DeleteSearchIndex
    <3> QED
      BY <1>4, <2>2, <3>1 DEF DeleteSearchIndex, Absent, Published, Deleted
  <2> QED
    BY <2>1, <2>2
<1>5. ASSUME AddFinalizer(n)
      PROVE  Touched(n) /\ UNCHANGED <<indices, settings, cache>>
  <2>1. api'[n] \in {api[n], Bump([api[n] EXCEPT !.finalizer = TRUE])}
    BY <1>0, <1>5 DEF AddFinalizer
  <2> QED
    BY <1>0, <1>5, <2>1 DEF AddFinalizer, Bump, Objects, ObjectOf, Published, Touched
<1>6. ASSUME EnsureMetadata(n)
      PROVE  Touched(n) /\ UNCHANGED <<indices, settings, cache>>
  <2>1. api'[n] \in {api[n], Labelled(api[n])}
    BY <1>0, <1>6 DEF EnsureMetadata
  <2> QED
    BY <1>0, <1>6, <2>1
       DEF EnsureMetadata, Labelled, Bump, Objects, ObjectOf, Published, Touched
<1>7. ASSUME UpdateStatus(n), api'[n] # api[n]
      PROVE  StatusSet(n) /\ UNCHANGED <<indices, settings, cache>>
  <2>1. /\ api'[n] = Bump([api[n] EXCEPT !.indexName = job[n].use])
        /\ job[n].step = "status" /\ job'[n] = Idle
        /\ UNCHANGED <<indices, settings, cache>>
    BY <1>0, <1>7 DEF UpdateStatus, Done, LoseReply
  <2> QED
    BY <1>0, <2>1 DEF Bump, Objects, ObjectOf, Published, StatusSet
<1>8. ASSUME RemoveFinalizer(n), api'[n] # api[n]
      PROVE  Released(n) /\ UNCHANGED <<indices, settings, cache>>
  <2>1. /\ api'[n] = Absent(api[n].version + 1) /\ Fresh(n) /\ job'[n] = Idle
        /\ UNCHANGED <<indices, settings, cache>>
    BY <1>0, <1>8 DEF RemoveFinalizer, Done, LoseReply
  <2> QED
    BY <1>8, <2>1 DEF Absent, Published, Released
<1>9. ASSUME NEW m \in SearchIndexes,
             ReadIndexName(m) \/ Observe(m) \/ Begin(m) \/ QuietStep(m)
      PROVE  UNCHANGED api
  BY <1>9, QuietSteps DEF Quiet, ReadIndexName, Observe, Begin
<1>10. ASSUME Restart \/ (\E x \in IndexNames : WriteDocument(x)) \/ UNCHANGED vars
       PROVE  UNCHANGED api
  BY <1>10 DEF Restart, WriteDocument, vars
<1> QED
  BY <1>1, <1>2, <1>3, <1>4, <1>5, <1>6, <1>7, <1>8, <1>9, <1>10
     DEF Next, Users, Process, Finalization, QuietStep

-----------------------------------------------------------------------------
(* What each step does to one reconcile                                    *)

Probing == {"createProbe", "create"}

\* The reconcile of n does not get from Process to Finalize or back, and gets
\* to the creation of an index only past the probe of the legacy index.
GoesOn(n) ==
  /\ cache'[n] = cache[n]
  /\ job'[n].step \in ProcessSteps => job[n].step \in ProcessSteps
  /\ job'[n].step \in FinalizeSteps => job[n].step \in FinalizeSteps
  /\ job'[n].step \in Probing =>
       \/ job[n].step \in Probing
       \/ job[n].step = "probeLegacy" /\ ~IndexExists(OrgOf[n]) /\ UNCHANGED indices

\* It begins on a cached copy that is live, or that is being deleted.
Begins(n) ==
  /\ UNCHANGED <<api, cache, indices>>
  /\ job'[n].step \notin Probing
  /\ job'[n].step \in ProcessSteps => cache[n].phase = "live"
  /\ job'[n].step \in FinalizeSteps => cache[n].phase = "deleting"

\* The cache catches up.
CatchesUp(n) ==
  /\ UNCHANGED <<api, indices>>
  /\ cache'[n] = api[n]
  /\ job'[n] = job[n] \/ job'[n] = Idle

(* A reconcile goes on, begins, or the cache catches up.                   *)
LEMMA HowReconcilesGo ==
  ASSUME TypeOK, [Next]_vars, NEW n \in SearchIndexes
  PROVE  GoesOn(n) \/ Begins(n) \/ CatchesUp(n)
<1> USE DEF ProcessSteps, FinalizeSteps, Probing, store
<1>0. job \in [SearchIndexes -> Jobs] /\ cache \in [SearchIndexes -> Objects]
  BY DEF TypeOK
<1>1. ASSUME cache'[n] = cache[n], job'[n] = job[n] \/ job'[n] = Idle PROVE GoesOn(n)
  BY <1>1 DEF GoesOn, Idle
<1>2. ASSUME NEW m \in SearchIndexes, m # n, Process(m) \/ Finalization(m) \/ RequestFails(m)
      PROVE  job'[n] = job[n] /\ cache'[n] = cache[n]
  <2>1. CASE QuietStep(m)
    BY <1>2, <2>1, QuietSteps DEF Quiet
  <2>2. CASE AddFinalizer(m)
    BY <1>0, <1>2, <2>2 DEF AddFinalizer, LoseReply, Retry
  <2>3. CASE EnsureMetadata(m)
    BY <1>0, <1>2, <2>3 DEF EnsureMetadata, Proceed, LoseReply
  <2>4. CASE UpdateStatus(m) \/ RemoveFinalizer(m)
    BY <1>0, <1>2, <2>4 DEF UpdateStatus, RemoveFinalizer, Done, LoseReply, Retry
  <2> QED
    BY <1>2, <2>1, <2>2, <2>3, <2>4 DEF Process, Finalization, QuietStep
<1>3. ASSUME NEW m \in SearchIndexes, Users(m) \/ ReadIndexName(m)
      PROVE  job'[n] = job[n] /\ cache'[n] = cache[n]
  BY <1>3 DEF Users, CreateSearchIndex, AddSearchIndex, EditSpec, DeleteSearchIndex,
       ReadIndexName
<1>4. ASSUME (\E x \in IndexNames : WriteDocument(x)) \/ UNCHANGED vars
      PROVE  job'[n] = job[n] /\ cache'[n] = cache[n]
  BY <1>4 DEF WriteDocument, vars
<1>5. ASSUME Restart PROVE CatchesUp(n)
  BY <1>5 DEF Restart, CatchesUp
<1>6. ASSUME NEW m \in SearchIndexes, Observe(m) PROVE GoesOn(n) \/ CatchesUp(n)
  BY <1>0, <1>1, <1>6 DEF Observe, CatchesUp
<1>7. ASSUME NEW m \in SearchIndexes, Begin(m) PROVE GoesOn(n) \/ Begins(n)
  <2>1. CASE m = n
    <3>1. UNCHANGED <<api, cache, indices>>
      BY <1>7 DEF Begin
    <3>2. job'[n].step = FirstStep(cache[n])
      BY <1>0, <1>7, <2>1 DEF Begin, Idle
    <3> QED
      BY <3>1, <3>2 DEF FirstStep, Begins
  <2>2. CASE m # n
    BY <1>0, <1>1, <1>7, <2>2 DEF Begin
  <2> QED
    BY <2>1, <2>2
<1>8. ASSUME AddFinalizer(n) \/ EnsureMetadata(n) PROVE GoesOn(n)
  <2>1. CASE AddFinalizer(n)
    BY <1>0, <2>1 DEF AddFinalizer, LoseReply, Retry, GoesOn, Idle, Jobs
  <2>2. ASSUME EnsureMetadata(n), NEW o, Proceed(n, o) PROVE GoesOn(n)
    <3>1. job' = [job EXCEPT ![n] = IF o.spec.paused THEN Idle
                    ELSE [job[n] EXCEPT !.step = "probeDesired", !.copy = o]]
      BY <2>2 DEF Proceed
    <3>2. job'[n].step \in {"idle", "probeDesired"}
      <4>1. CASE o.spec.paused
        BY <1>0, <3>1, <4>1 DEF Idle
      <4>2. CASE ~o.spec.paused
        BY <1>0, <3>1, <4>2 DEF Jobs
      <4> QED
        BY <4>1, <4>2
    <3> QED
      BY <2>2, <3>2 DEF EnsureMetadata, GoesOn
  <2>3. CASE EnsureMetadata(n) /\ LoseReply(n)
    BY <1>0, <1>1, <2>3 DEF EnsureMetadata, LoseReply
  <2> QED
    BY <1>8, <2>1, <2>2, <2>3 DEF EnsureMetadata
<1>9. ASSUME ProbeLegacy(n) PROVE GoesOn(n)
  <2>1. CASE IndexExists(OrgOf[n])
    BY <1>0, <1>9, <2>1 DEF ProbeLegacy, GoesOn, Jobs
  <2>2. CASE ~IndexExists(OrgOf[n])
    BY <1>0, <1>9, <2>2 DEF ProbeLegacy, GoesOn, Jobs, Idle
  <2> QED
    BY <2>1, <2>2
<1>10. ASSUME ProbeDesired(n) \/ CreateProbe(n) \/ CreateIndex(n) PROVE GoesOn(n)
  <2>1. CASE ProbeDesired(n)
    BY <1>0, <2>1 DEF ProbeDesired, GoesOn, Jobs
  <2>2. CASE CreateProbe(n)
    BY <1>0, <2>2 DEF CreateProbe, GoesOn, Jobs
  <2>3. CASE CreateIndex(n)
    BY <1>0, <2>3 DEF CreateIndex, LoseReply, GoesOn, Jobs, Idle
  <2> QED
    BY <1>10, <2>1, <2>2, <2>3
<1>11. ASSUME \/ CheckSettings(n) \/ UpdateReplicas(n)
              \/ EnsureAllAlias(n) \/ EnsureCanonicalAlias(n)
       PROVE  GoesOn(n)
  BY <1>0, <1>11 DEF CheckSettings, UpdateReplicas, EnsureAllAlias, EnsureCanonicalAlias,
       Continue, ContinueOrLoseReply, Done, Retry, LoseReply, GoesOn, Jobs, Idle
<1>12. ASSUME Finalize(n) \/ DeleteIndex(n) PROVE GoesOn(n)
  BY <1>0, <1>12 DEF Finalize, DeleteIndex, Continue, ContinueOrLoseReply, Retry,
       LoseReply, GoesOn, Jobs, Idle
<1>13. ASSUME UpdateStatus(n) \/ RemoveFinalizer(n) \/ RequestFails(n) PROVE GoesOn(n)
  BY <1>0, <1>1, <1>13 DEF UpdateStatus, RemoveFinalizer, RequestFails, Done, Retry,
       LoseReply
<1> QED
  BY <1>1, <1>2, <1>3, <1>4, <1>5, <1>6, <1>7, <1>8, <1>9, <1>10, <1>11, <1>12, <1>13
     DEF Next, Process, Finalization

-----------------------------------------------------------------------------
(* One index at a time                                                     *)

(* The only home of a SearchIndex that is made is the one of its own name, *)
(* and CreateIndex makes it.                                               *)
LEMMA WhichHomeIsMade ==
  ASSUME NamesApart, TypeOK, [Next]_vars,
         NEW n \in SearchIndexes, NEW x \in Homes(n), x \in Made' \ Made
  PROVE  x = n /\ CreateIndex(n) /\ n \notin indices
<1>1. x \in SearchIndexes /\ CreateIndex(x) /\ x \notin indices
  BY WhoMakes
<1> QED
  BY <1>1 DEF NamesApart, Homes

(* Every step leaves a SearchIndex with one index at most that was made    *)
(* for it.                                                                 *)
LEMMA NextSingle ==
  ASSUME NamesApart, TypeOK, [Next]_vars, NEW n \in SearchIndexes, Single(n)
  PROVE  Single(n)'
<1>1. ASSUME job'[n].step \in Probing, NEW x \in Made' \cap Homes(n)
      PROVE  x = n
  <2>1. CASE x \notin Made
    BY <2>1, WhichHomeIsMade
  <2>2. CASE x \in Made /\ job[n].step \in Probing
    BY <2>2 DEF Single, Probing
  <2>3. CASE x \in Made /\ ~IndexExists(OrgOf[n])
    BY <2>3 DEF IndexExists, Homes, Made
  <2>4. job[n].step \in Probing \/ ~IndexExists(OrgOf[n])
    BY <1>1, HowReconcilesGo DEF GoesOn, Begins, CatchesUp, Probing, Idle
  <2> QED
    BY <2>1, <2>2, <2>3, <2>4
<1>2. ASSUME NEW x \in Made' \cap Homes(n), NEW y \in Made' \cap Homes(n),
             x \notin Made
      PROVE  x = y
  <2>1. x = n /\ job[n].step = "create"
    BY <1>2, WhichHomeIsMade DEF CreateIndex
  <2>2. CASE y \in Made
    BY <2>1, <2>2 DEF Single
  <2>3. CASE y \notin Made
    BY <2>1, <2>3, WhichHomeIsMade
  <2> QED
    BY <2>2, <2>3
<1>3. \A x, y \in Made' \cap Homes(n) : x = y
  BY <1>2 DEF Single
<1>4. Homes(n)' = Homes(n)
  BY DEF Homes
<1> QED
  BY <1>1, <1>3, <1>4 DEF Single, Probing

AllSingle == \A n \in SearchIndexes : Single(n)

(* It starts with one at most: its organization's.                         *)
LEMMA InitSingle ==
  ASSUME NamesApart
  PROVE  Init => AllSingle
<1> SUFFICES ASSUME Init, NEW n \in SearchIndexes PROVE Single(n)
  BY DEF AllSingle
<1>1. n \in LegacyIndexes => OrgOf[n] = n
  BY NamesAssumption DEF NamesAssumption, NamesApart
<1> QED
  BY <1>1 DEF Init, Single, Homes, Idle, Made

(* An organization keeps to its legacy index: no index is ever created     *)
(* beside it, whatever OpenSearch makes of late documents.                 *)
THEOREM OneIndexAtATime ==
  ASSUME NamesApart
  PROVE  Spec => []OneIndex
<1>1. Init => AllSingle
  BY InitSingle
<1>2. IInv /\ AllSingle /\ [Next]_vars => AllSingle'
  <2> SUFFICES ASSUME IInv, AllSingle, [Next]_vars, NEW n \in SearchIndexes
               PROVE  Single(n)'
    BY DEF AllSingle
  <2> QED
    BY NextSingle DEF IInv, AllSingle
<1>3. IInv /\ AllSingle => OneIndex
  <2> SUFFICES ASSUME IInv, AllSingle, NEW n \in SearchIndexes,
                      n \in Made, OrgOf[n] \in Made
               PROVE  n = OrgOf[n]
    BY DEF OneIndex
  <2>1. CASE OrgOf[n] \in SearchIndexes
    BY <2>1 DEF NamesApart
  <2>2. CASE OrgOf[n] \in LegacyIndexes
    BY <2>2 DEF AllSingle, Single, Homes
  <2>3. OrgOf[n] \in Names
    BY DEF IInv, StoreOfNames, Made
  <2> QED
    BY <2>1, <2>2, <2>3 DEF Names
<1>4. Spec => []IInv
  BY Invariance
<1> QED
  BY <1>1, <1>2, <1>3, <1>4, PTL DEF Spec

-----------------------------------------------------------------------------
(* What a name in the status stands for                                    *)

(* An index of n goes only in a Finalize of n.                             *)
LEMMA HomeStays ==
  ASSUME SoleTenant, IInv, [Next]_vars, NEW n \in SearchIndexes,
         job[n].step \notin FinalizeSteps, NEW x \in Homes(n) \cap indices
  PROVE  x \in indices'
<1> SUFFICES ASSUME NEW m \in SearchIndexes, DeleteIndex(m),
                    DropIndex(job[m].copy.indexName),
                    job[m].copy.indexName \in indices
             PROVE  x \in indices'
  BY WhoDrops DEF IInv
<1>1. job[m].copy.indexName # NoIndex
  BY NamesAssumption DEF NamesAssumption, IInv, TypeOK, StoreTypeOK
<1>2. job[m].copy.indexName \in Homes(m)
  BY <1>1 DEF IInv, AtHome
<1>3. m # n
  BY DEF DeleteIndex, FinalizeSteps
<1>4. x # job[m].copy.indexName
  BY <1>2, <1>3, HomesDisjoint
<1> QED
  BY <1>4 DEF DropIndex

(* The step that publishes a name finds the index there.                   *)
LEMMA PublishesAHome ==
  ASSUME IInv, StatusOK, NEW n \in SearchIndexes, StatusSet(n)
  PROVE  /\ api[n].finalizer
         /\ Published(n)' \in Homes(n) \cap indices
<1>1. api[n].finalizer
  BY DEF IInv, Held, StatusSet, ProcessSteps
<1>2. job[n].use \in Homes(n) \cap indices
  BY DEF IInv, AtHome, ChosenSteps, StatusSet, StatusOK, AboutToPublish
<1> QED
  BY <1>1, <1>2 DEF StatusSet

(* The name of a SearchIndex goes with it, stays, or is set by a reconcile *)
(* that ends.                                                              *)
LEMMA HowNamesChange ==
  ASSUME TypeOK, [Next]_vars, NEW n \in SearchIndexes, Published(n)' # NoIndex
  PROVE  \/ /\ Published(n)' = Published(n)
            /\ api[n].finalizer => api'[n].finalizer
         \/ /\ StatusSet(n)
            /\ UNCHANGED <<indices, settings, cache>>
BY HowObjectsChange DEF Touched, Created, Deleted, Released, Published

(* Every step keeps what a name in the status stands for.                  *)
LEMMA NextNamed ==
  ASSUME SoleTenant, IInv, StatusOK, [Next]_vars, NEW n \in SearchIndexes, Named(n)
  PROVE  Named(n)'
<1> SUFFICES ASSUME Published(n)' # NoIndex
             PROVE  /\ api'[n].finalizer
                    /\ ~(job'[n].step \in FinalizeSteps /\ cache'[n].phase = "live")
                    /\ job'[n].step \in ProcessSteps \/ cache'[n].phase = "live"
                         => Published(n)' \in indices'
  BY DEF Named
<1>0. /\ TypeOK /\ OneReconcile(n) /\ AtHome(n)
      /\ ProcessSteps \cap FinalizeSteps = {}
  BY DEF IInv, ProcessSteps, FinalizeSteps
<1>1. CASE StatusSet(n) /\ UNCHANGED <<indices, settings, cache>>
  <2>1. api[n].finalizer /\ Published(n)' \in Homes(n) \cap indices
    BY <1>1, PublishesAHome
  <2> QED
    BY <1>1, <2>1 DEF StatusSet, Idle, FinalizeSteps, ProcessSteps
<1>2. CASE Published(n)' = Published(n) /\ (api[n].finalizer => api'[n].finalizer)
  <2>1. /\ api[n].finalizer
        /\ ~(job[n].step \in FinalizeSteps /\ cache[n].phase = "live")
        /\ job[n].step \in ProcessSteps \/ cache[n].phase = "live"
             => Published(n) \in indices
    BY <1>2 DEF Named
  <2>2. ASSUME job'[n].step \in FinalizeSteps, cache'[n].phase = "live" PROVE FALSE
    <3>1. CASE GoesOn(n)
      BY <2>1, <2>2, <3>1 DEF GoesOn
    <3>2. CASE Begins(n)
      BY <2>2, <3>2 DEF Begins
    <3>3. CASE CatchesUp(n)
      <4>1. job[n].step \in FinalizeSteps /\ api[n].phase = "live"
        BY <2>2, <3>3 DEF CatchesUp, Idle, FinalizeSteps
      <4> QED
        BY <1>0, <1>2, <4>1 DEF OneReconcile
    <3> QED
      BY <1>0, <3>1, <3>2, <3>3, HowReconcilesGo
  <2>3. ASSUME job'[n].step \in ProcessSteps \/ cache'[n].phase = "live"
        PROVE  Published(n) \in indices'
    <3>1. CASE GoesOn(n)
      <4>1. job[n].step \notin FinalizeSteps /\ Published(n) \in indices
        BY <1>0, <2>1, <2>3, <3>1 DEF GoesOn
      <4>2. Published(n) \in Homes(n)
        BY <1>0, <1>2 DEF AtHome
      <4> QED
        BY <4>1, <4>2, HomeStays
    <3>2. CASE Begins(n)
      BY <2>1, <2>3, <3>2 DEF Begins
    <3>3. CASE CatchesUp(n)
      <4>1. job[n].step \in ProcessSteps \/ api[n].phase = "live"
        BY <2>3, <3>3 DEF CatchesUp, Idle, ProcessSteps
      <4> QED
        BY <1>2, <2>1, <3>3, <4>1 DEF CatchesUp, StatusOK
    <3> QED
      BY <1>0, <3>1, <3>2, <3>3, HowReconcilesGo
  <2> QED
    BY <1>2, <2>1, <2>2, <2>3
<1> QED
  BY <1>0, <1>1, <1>2, HowNamesChange

\* The reconcile of n, if it is at the probe of the legacy index or past the
\* choice of an index, has come there in one of these ways.
Chooses(n) ==
  \/ job'[n].step \notin ChosenSteps \cup {"probeLegacy"}
  \/ /\ job'[n].step = "probeLegacy"
     /\ job[n].step = "probeLegacy" \/ (n \notin indices /\ UNCHANGED indices)
  \/ /\ job'[n].step \in ChosenSteps /\ job[n].step \in ChosenSteps
     /\ job'[n].use = job[n].use
     /\ job[n].step = "settings" /\ job'[n].step # "settings" => job[n].use \in indices
     /\ job'[n].step \in Probing => job[n].step \in Probing
  \/ job'[n].step = "settings" /\ job'[n].use = n
  \/ /\ job'[n].step = "settings" /\ job'[n].use = OrgOf[n]
     /\ job[n].step = "probeLegacy"
  \/ /\ job'[n].step = "createProbe" /\ job'[n].use = n
     /\ job[n].step = "probeLegacy" /\ ~IndexExists(OrgOf[n])

(* The choice is made by the two probes, and kept.                         *)
LEMMA HowReconcilesChoose ==
  ASSUME TypeOK, [Next]_vars, NEW n \in SearchIndexes
  PROVE  Chooses(n)
<1> USE DEF ChosenSteps, Probing
<1>0. job \in [SearchIndexes -> Jobs]
  BY DEF TypeOK
<1>1. ASSUME job'[n] = job[n] \/ job'[n] = Idle PROVE Chooses(n)
  BY <1>1 DEF Chooses, Idle
<1>2. ASSUME NEW m \in SearchIndexes, m # n,
             Process(m) \/ Finalization(m) \/ RequestFails(m) \/ Begin(m)
      PROVE  job'[n] = job[n]
  <2>1. CASE QuietStep(m)
    BY <1>2, <2>1, QuietSteps DEF Quiet
  <2>2. CASE AddFinalizer(m)
    BY <1>0, <1>2, <2>2 DEF AddFinalizer, LoseReply, Retry
  <2>3. CASE EnsureMetadata(m)
    BY <1>0, <1>2, <2>3 DEF EnsureMetadata, Proceed, LoseReply
  <2>4. CASE UpdateStatus(m) \/ RemoveFinalizer(m) \/ Begin(m)
    BY <1>0, <1>2, <2>4 DEF UpdateStatus, RemoveFinalizer, Begin, Done, LoseReply, Retry
  <2> QED
    BY <1>2, <2>1, <2>2, <2>3, <2>4 DEF Process, Finalization, QuietStep
<1>3. ASSUME NEW m \in SearchIndexes, Users(m) \/ ReadIndexName(m) \/ Observe(m)
      PROVE  job' = job
  BY <1>3 DEF Users, CreateSearchIndex, AddSearchIndex, EditSpec, DeleteSearchIndex,
       ReadIndexName, Observe
<1>4. ASSUME (\E x \in IndexNames : WriteDocument(x)) \/ Restart \/ UNCHANGED vars
      PROVE  job'[n] = job[n] \/ job'[n] = Idle
  BY <1>4 DEF WriteDocument, Restart, vars
<1>5. ASSUME Begin(n) PROVE Chooses(n)
  <2>1. job'[n].step = FirstStep(cache[n])
    BY <1>0, <1>5 DEF Begin, Idle
  <2> QED
    BY <2>1 DEF FirstStep, Chooses
<1>6. ASSUME AddFinalizer(n) PROVE Chooses(n)
  BY <1>0, <1>6 DEF AddFinalizer, LoseReply, Retry, Chooses, Idle, Jobs
<1>7. ASSUME EnsureMetadata(n) PROVE Chooses(n)
  <2>1. ASSUME NEW o, Proceed(n, o) PROVE job'[n].step \in {"idle", "probeDesired"}
    <3>1. job' = [job EXCEPT ![n] = IF o.spec.paused THEN Idle
                    ELSE [job[n] EXCEPT !.step = "probeDesired", !.copy = o]]
      BY <2>1 DEF Proceed
    <3>2. CASE o.spec.paused
      BY <1>0, <3>1, <3>2 DEF Idle
    <3>3. CASE ~o.spec.paused
      BY <1>0, <3>1, <3>3 DEF Jobs
    <3> QED
      BY <3>2, <3>3
  <2>2. job'[n].step \in {"idle", "probeDesired"}
    BY <1>0, <1>7, <2>1 DEF EnsureMetadata, LoseReply, Idle
  <2> QED
    BY <2>2 DEF Chooses
<1>8. ASSUME ProbeDesired(n) PROVE Chooses(n)
  <2>1. CASE IndexExists(n)
    BY <1>0, <1>8, <2>1 DEF ProbeDesired, Chooses, Jobs
  <2>2. CASE ~IndexExists(n)
    BY <1>0, <1>8, <2>2 DEF ProbeDesired, Chooses, IndexExists, store, Jobs
  <2> QED
    BY <2>1, <2>2
<1>9. ASSUME ProbeLegacy(n) PROVE Chooses(n)
  <2>1. CASE IndexExists(OrgOf[n])
    BY <1>0, <1>9, <2>1 DEF ProbeLegacy, Chooses, Jobs
  <2>2. CASE ~IndexExists(OrgOf[n])
    BY <1>0, <1>9, <2>2 DEF ProbeLegacy, Chooses, Jobs, Idle
  <2> QED
    BY <2>1, <2>2
<1>10. ASSUME CreateProbe(n) PROVE Chooses(n)
  <2>1. /\ job'[n].step \in {"aliasAll", "create"} /\ job'[n].use = job[n].use
        /\ job[n].step = "createProbe"
    BY <1>0, <1>10 DEF CreateProbe, Jobs
  <2> QED
    BY <2>1 DEF Chooses
<1>11. ASSUME CreateIndex(n) PROVE Chooses(n)
  BY <1>0, <1>11 DEF CreateIndex, LoseReply, Chooses, Jobs, Idle
<1>12. ASSUME \/ CheckSettings(n) \/ UpdateReplicas(n)
              \/ EnsureAllAlias(n) \/ EnsureCanonicalAlias(n)
       PROVE  Chooses(n)
  BY <1>0, <1>12 DEF CheckSettings, UpdateReplicas, EnsureAllAlias, EnsureCanonicalAlias,
       Continue, ContinueOrLoseReply, Done, Retry, LoseReply, Chooses, Jobs, Idle,
       HasIndexSettings
<1>13. ASSUME Finalize(n) \/ DeleteIndex(n) PROVE Chooses(n)
  BY <1>0, <1>13 DEF Finalize, DeleteIndex, Continue, ContinueOrLoseReply, Retry,
       LoseReply, Chooses, Jobs, Idle
<1>14. ASSUME UpdateStatus(n) \/ RemoveFinalizer(n) \/ RequestFails(n)
       PROVE  job'[n] = Idle
  BY <1>0, <1>14 DEF UpdateStatus, RemoveFinalizer, RequestFails, Done, Retry, LoseReply
<1> QED
  BY <1>1, <1>2, <1>3, <1>4, <1>5, <1>6, <1>7, <1>8, <1>9, <1>10, <1>11, <1>12, <1>13,
     <1>14
     DEF Next, Process, Finalization

(* Who writes a document has read the name of its index in a status.       *)
LEMMA WhoReads ==
  ASSUME [Next]_vars, NEW x \in writing' \ writing
  PROVE  \E m \in SearchIndexes : x = Published(m)
<1>1. ASSUME NEW m \in SearchIndexes, ReadIndexName(m) PROVE x = Published(m)
  BY <1>1 DEF ReadIndexName, Published
<1>2. CASE ~\E m \in SearchIndexes : ReadIndexName(m)
  BY <1>2 DEF Next, Users, Process, Finalization, CreateSearchIndex, AddSearchIndex,
       EditSpec, DeleteSearchIndex, WriteDocument, Observe, Begin,
       AddFinalizer, EnsureMetadata, ProbeDesired, ProbeLegacy,
       CreateProbe, CreateIndex, CheckSettings, UpdateReplicas,
       EnsureAllAlias, EnsureCanonicalAlias, UpdateStatus, Finalize,
       DeleteIndex, RemoveFinalizer, RequestFails, Restart, vars
<1> QED
  BY <1>1, <1>2

(* Every step leaves a legacy index without one of the SearchIndex's name. *)
LEMMA NextLegacyFirst ==
  ASSUME NamesApart, IInv, [Next]_vars, NEW n \in SearchIndexes,
         Single(n), LegacyFirst(n)
  PROVE  LegacyFirst(n)'
<1> SUFFICES ASSUME n # OrgOf[n], OrgOf[n] \in Made' \cap LegacyIndexes
             PROVE  /\ n \notin indices' \cup writing'
                    /\ Published(n)' # n
                    /\ job'[n].step \in ChosenSteps \ {"settings"} => job'[n].use # n
  BY DEF LegacyFirst
<1>0. TypeOK /\ n \in IndexNames /\ n # NoIndex /\ OrgOf[n] \in Homes(n)
  BY NamesAssumption DEF NamesAssumption, IInv, Homes
<1>1. OrgOf[n] \in Made
  BY <1>0, WhichHomeIsMade
<1>2. /\ n \notin indices /\ n \notin writing
      /\ Published(n) # n
      /\ job[n].step \in ChosenSteps \ {"settings"} => job[n].use # n
  BY <1>1 DEF LegacyFirst
<1>3. job[n].step \notin Probing
  BY <1>0, <1>1 DEF Single, Probing
<1>4. n \notin indices'
  <2>1. n \in indices' \ indices => CreateIndex(n) \/ n \in writing
    BY <1>0, WhoCreates
  <2> QED
    BY <1>2, <1>3, <2>1 DEF CreateIndex, Probing
<1>5. n \notin writing'
  <2> SUFFICES ASSUME n \in writing' PROVE FALSE
    OBVIOUS
  <2>1. PICK m \in SearchIndexes : n = Published(m)
    BY <1>2, WhoReads
  <2>2. n \in Homes(m)
    BY <1>0, <2>1 DEF IInv, AtHome
  <2> QED
    BY <1>2, <2>1, <2>2 DEF NamesApart, Homes
<1>6. Published(n)' # n
  <2> SUFFICES ASSUME Published(n)' = n PROVE FALSE
    OBVIOUS
  <2> QED
    BY <1>0, <1>2, HowNamesChange DEF StatusSet, ChosenSteps
<1>7. ASSUME job'[n].step \in ChosenSteps \ {"settings"} PROVE job'[n].use # n
  BY <1>0, <1>1, <1>2, <1>7, HowReconcilesChoose
     DEF Chooses, ChosenSteps, IndexExists, Made
<1> QED
  BY <1>4, <1>5, <1>6, <1>7

(* ... and a reconcile with the index it has chosen.                       *)
LEMMA NextChosen ==
  ASSUME NamesApart, IInv, [Next]_vars, NEW n \in SearchIndexes, Named(n), Chosen(n)
  PROVE  Chosen(n)'
<1> USE DEF ChosenSteps, Probing
<1>0. TypeOK /\ AtHome(n)
  BY DEF IInv
<1>1. ASSUME job'[n].step \in Probing
      PROVE  job'[n].use = n /\ Published(n)' \in {n, NoIndex}
  <2>1. CASE job[n].step \in Probing /\ job'[n].use = job[n].use
    BY <1>0, <1>1, <2>1, HowNamesChange DEF Chosen, StatusSet, Idle
  <2>2. CASE /\ job'[n].step = "createProbe" /\ job'[n].use = n
             /\ job[n].step = "probeLegacy" /\ ~IndexExists(OrgOf[n])
    <3>1. Published(n) \in {n, NoIndex}
      BY <1>0, <2>2 DEF Named, ProcessSteps, AtHome, Homes, IndexExists
    <3> QED
      BY <1>0, <1>1, <2>2, <3>1, HowNamesChange DEF StatusSet, Idle
  <2> QED
    BY <1>0, <1>1, <2>1, <2>2, HowReconcilesChoose DEF Chooses
<1>2. ASSUME \/ job'[n].step = "probeLegacy"
             \/ job'[n].step \in ChosenSteps /\ job'[n].use # n
      PROVE  n \notin Made'
  <2>1. n \notin Made
    BY <1>0, <1>2, HowReconcilesChoose DEF Chooses, Chosen, Made
  <2>2. ASSUME n \in Made' PROVE FALSE
    <3>1. CreateIndex(n) /\ job[n].step = "create"
      BY <1>0, <2>1, <2>2, WhichHomeIsMade DEF Homes, CreateIndex
    <3>2. job[n].use = n
      BY <3>1 DEF Chosen
    <3> QED
      BY <1>0, <1>2, <2>2, <3>1, <3>2, HowReconcilesChoose DEF Chooses, Made
  <2> QED
    BY <2>2
<1> QED
  BY <1>1, <1>2 DEF Chosen

(* Every step leaves the index in the status, if there is one, alone.      *)
LEMMA NextNoOther ==
  ASSUME NamesApart, IInv, StatusOK, [Next]_vars, NEW n \in SearchIndexes,
         Named(n), Single(n), LegacyFirst(n), Chosen(n), NoOther(n)
  PROVE  NoOther(n)'
<1> SUFFICES ASSUME Published(n)' # NoIndex, NEW x \in Made' \cap Homes(n)
             PROVE  x = Published(n)'
  BY DEF NoOther, Homes
<1>0. TypeOK /\ AtHome(n)
  BY DEF IInv
<1>1. CASE StatusSet(n) /\ UNCHANGED <<indices, settings, cache>>
  <2>1. /\ Published(n)' = job[n].use /\ job[n].use \in Homes(n)
        /\ job[n].step = "status"
    BY <1>0, <1>1 DEF StatusSet, AtHome, ChosenSteps
  <2>2. x \in Made
    BY <1>0, <1>1, WhichHomeIsMade DEF StatusSet, CreateIndex
  <2> QED
    BY <2>1, <2>2 DEF Homes, LegacyFirst, Chosen, ChosenSteps
<1>2. CASE Published(n)' = Published(n) /\ x \in Made
  BY <1>2 DEF NoOther
\* A name that is there when CreateIndex makes the index is not that of another.
<1>3. CASE Published(n)' = Published(n) /\ x \notin Made
  <2>1. x = n /\ job[n].step = "create" /\ n \notin indices
    BY <1>0, <1>3, WhichHomeIsMade DEF CreateIndex
  <2> QED
    BY <1>3, <2>1 DEF Chosen
<1> QED
  BY <1>0, <1>1, <1>2, <1>3, HowNamesChange

-----------------------------------------------------------------------------
(* The promise                                                             *)

\* The index that was made for n is found, named and dropped as the only one.
Sole(n) == Single(n) /\ LegacyFirst(n) /\ Chosen(n) /\ NoOther(n) /\ CleanedUp(n)

AllMade == AutoCreateIndex \/ indices \subseteq Made

PromiseInv ==
  /\ IInv
  /\ StatusOK
  /\ AllMade
  /\ \A n \in SearchIndexes : Named(n) /\ Sole(n)

(* The new index of a CreateIndex is made.                                 *)
LEMMA CreatedIsMade ==
  ASSUME TypeOK, NEW n \in SearchIndexes, CreateIndex(n), n \notin indices
  PROVE  n \in Made'
<1>1. n \in IndexNames /\ settings \in [IndexNames -> Settings]
  BY NamesAssumption DEF NamesAssumption, TypeOK, StoreTypeOK
<1> QED
  BY <1>1 DEF CreateIndex, PutIndex, Made

(* Without automatic creation, every index is made.                        *)
LEMMA NextAllMade ==
  ASSUME TypeOK, AllMade, [Next]_vars
  PROVE  AllMade'
<1> SUFFICES ASSUME ~AutoCreateIndex, NEW x \in indices' PROVE x \in Made'
  BY DEF AllMade
<1>1. CASE x \in indices
  BY <1>1, WhoMakes DEF AllMade
<1>2. CASE x \notin indices
  BY <1>2, WhoCreates, CreatedIsMade
<1> QED
  BY <1>1, <1>2

(* Every step keeps it.                                                    *)
LEMMA NextPromiseInv ==
  ASSUME SoleTenant
  PROVE  PromiseInv /\ [Next]_vars => PromiseInv'
<1> SUFFICES ASSUME PromiseInv, [Next]_vars PROVE PromiseInv'
  OBVIOUS
<1>0. IInv /\ StatusOK /\ TypeOK /\ NamesApart
  BY DEF PromiseInv, IInv, SoleTenant
<1>1. IInv' /\ StatusOK' /\ AllMade'
  BY <1>0, NextIInv, NextStatusOK, NextAllMade DEF PromiseInv
<1>2. ASSUME NEW n \in SearchIndexes PROVE Named(n)'
  BY <1>0, NextNamed DEF PromiseInv
<1>3. ASSUME NEW n \in SearchIndexes PROVE Sole(n)'
  <2>0. Named(n) /\ Single(n) /\ LegacyFirst(n) /\ Chosen(n) /\ NoOther(n)
    BY DEF PromiseInv, Sole
  <2>1. Single(n)'
    BY <1>0, <2>0, NextSingle
  <2>2. LegacyFirst(n)'
    BY <1>0, <2>0, NextLegacyFirst
  <2>3. Chosen(n)'
    BY <1>0, <2>0, NextChosen
  <2>4. NoOther(n)'
    BY <1>0, <2>0, NextNoOther
  <2>5. CleanedUp(n)'
    BY <1>0, NextCleanedUp DEF PromiseInv, Sole
  <2> QED
    BY <2>1, <2>2, <2>3, <2>4, <2>5 DEF Sole
<1> QED
  BY <1>1, <1>2, <1>3 DEF PromiseInv

(* It holds initially.                                                     *)
LEMMA InitPromiseInv ==
  ASSUME NamesApart
  PROVE  Init => PromiseInv
<1> SUFFICES ASSUME Init PROVE PromiseInv
  OBVIOUS
<1>1. StatusOK
  BY DEF Init, StatusOK, AboutToPublish, Published, Absent, Idle
<1>2. \A n \in SearchIndexes : Named(n) /\ NoOther(n) /\ CleanedUp(n) /\ Chosen(n)
  BY DEF Init, Named, NoOther, CleanedUp, Chosen, ChosenSteps, Published, Absent, Idle
<1>3. \A n \in SearchIndexes : LegacyFirst(n)
  <2> SUFFICES ASSUME NEW n \in SearchIndexes, n # OrgOf[n] PROVE LegacyFirst(n)
    BY DEF LegacyFirst
  <2>1. n \notin LegacyIndexes /\ n # NoIndex
    BY NamesAssumption DEF NamesAssumption, NamesApart
  <2> QED
    BY <2>1 DEF Init, LegacyFirst, ChosenSteps, Published, Absent, Idle
<1>4. AllMade
  BY NamesAssumption DEF NamesAssumption, Init, AllMade, Made
<1> QED
  BY <1>1, <1>2, <1>3, <1>4, InitIInv, InitSingle DEF PromiseInv, AllSingle, Sole

(* Seen through its status, every SearchIndex starts as promised.          *)
LEMMA InitPromise == Init => \A n \in SearchIndexes : Promise(n)!Init
<1> SUFFICES ASSUME Init, NEW n \in SearchIndexes PROVE Promise(n)!Init
  OBVIOUS
<1>1. \A x \in indices : x \in Made
  BY NamesAssumption DEF NamesAssumption, Init, Made
<1> QED
  BY <1>1 DEF Init, Promise!Init, Published, Absent

(* Every step is a step of the promise, or no step of it.                  *)
LEMMA NextPromise ==
  ASSUME NamesApart, PromiseInv, PromiseInv', [Next]_vars, NEW n \in SearchIndexes
  PROVE  [Promise(n)!Next]_(Promise(n)!vars)
<1> USE DEF Promise!Next, Promise!vars
<1> DEFINE MadeHome == Homes(n) \cap Made # {}
           AnyHome == Homes(n) \cap indices # {}
<1>0. /\ TypeOK /\ AtHome(n) /\ AtHome(n)' /\ Held(n) /\ Versions(n) /\ Named(n)
      /\ StatusOK /\ StatusOK' /\ IInv /\ AllMade /\ NoOther(n) /\ CleanedUp(n)
      /\ NoIndex \notin Homes(n)
  BY NamesAssumption DEF NamesAssumption, PromiseInv, Sole, IInv, Homes
<1>h. Homes(n)' = Homes(n)
  BY DEF Homes
<1>n. Published(n) # NoIndex => api[n].finalizer /\ api[n].phase # "absent"
  BY <1>0 DEF Named, Held
<1>m. /\ Made \subseteq indices /\ Made' \subseteq indices'
      /\ MadeHome => AnyHome
      /\ MadeHome' => AnyHome'
  BY DEF Made
<1>u. ASSUME UNCHANGED <<indices, settings>>
      PROVE  MadeHome' = MadeHome /\ AnyHome' = AnyHome
  BY <1>h, <1>u DEF Made
<1>1. CASE api'[n] = api[n]
  <2>0. Published(n)' = Published(n)
    BY <1>1 DEF Published
  <2>1. CASE MadeHome' /\ ~MadeHome
    <3>1. PICK x \in Homes(n) : x \in Made' \ Made
      BY <1>h, <2>1
    <3>2. api[n].phase # "absent"
      BY <1>0, <3>1, WhichHomeIsMade DEF CreateIndex, Held, ProcessSteps
    <3> QED
      BY <1>1, <2>0, <2>1, <3>2 DEF Promise!MakeIndex
  <2>2. CASE ~MadeHome' /\ ~MadeHome /\ AnyHome' /\ ~AnyHome
    <3>1. PICK x \in Homes(n) : x \in indices' \ indices
      BY <1>h, <2>2
    <3>2. x \notin Made'
      BY <1>h, <2>2, <3>1
    <3>3. AutoCreateIndex
      BY <1>0, <3>1, <3>2, WhoCreates, CreatedIsMade
    <3> QED
      BY <1>1, <2>0, <2>2, <3>3 DEF Promise!AutoMakeIndex
  <2>3. CASE \/ MadeHome /\ ~MadeHome'
             \/ ~MadeHome /\ ~MadeHome' /\ AnyHome /\ ~AnyHome'
    <3>1. ~(api[n].phase = "live" /\ Published(n) # NoIndex)
      <4> SUFFICES ASSUME api[n].phase = "live", Published(n) # NoIndex PROVE FALSE
        OBVIOUS
      <4>1. Published(n) \in indices' /\ Published(n) \in Homes(n)
        BY <1>0, <1>1, <2>0 DEF StatusOK, AtHome
      <4>2. AnyHome'
        BY <1>h, <4>1
      <4>3. PICK x \in Homes(n) : x \in Made /\ x \notin Made'
        BY <1>h, <2>3, <4>2
      <4>4. x = Published(n)
        BY <4>3, <1>0 DEF NoOther
      <4> QED
        BY <1>0, <4>1, <4>3, <4>4, WhoMakes
    <3>2. AnyHome' => AutoCreateIndex
      <4> SUFFICES ASSUME AnyHome', ~AutoCreateIndex PROVE FALSE
        OBVIOUS
      <4>1. PICK x \in Homes(n) : x \in indices'
        BY <1>h
      <4>2. AllMade'
        BY <1>0, NextAllMade
      <4>3. x \in Made'
        BY <4>1, <4>2 DEF AllMade
      <4> QED
        BY <1>h, <2>3, <4>1, <4>3
    <3> QED
      BY <1>1, <1>m, <2>0, <2>3, <3>1, <3>2 DEF Promise!DropIndex
  <2>4. CASE MadeHome' = MadeHome /\ AnyHome' = AnyHome
    BY <1>1, <2>0, <2>4
  <2> QED
    BY <1>m, <2>1, <2>2, <2>3, <2>4
<1>2. CASE Touched(n) /\ UNCHANGED <<indices, settings>>
  BY <1>2, <1>u DEF Touched
<1>3. CASE Created(n) /\ UNCHANGED <<indices, settings>>
  BY <1>3, <1>u, <1>n DEF Created, Promise!Create
<1>4. CASE Deleted(n) /\ UNCHANGED <<indices, settings>>
  BY <1>4, <1>u, <1>n DEF Deleted, Promise!Delete
<1>5. CASE StatusSet(n) /\ UNCHANGED <<indices, settings>>
  <2>1. api[n].phase # "absent" /\ Published(n)' \in Homes(n) \cap indices
    BY <1>0, <1>5, PublishesAHome DEF Held
  <2> QED
    BY <1>0, <1>5, <1>u, <2>1 DEF StatusSet, Promise!Publish
<1>6. CASE Released(n) /\ UNCHANGED <<indices, settings>>
  <2>1. /\ job[n].step = "removeFinalizer"
        /\ api[n] = job[n].copy
        /\ api[n].phase = "deleting"
    BY <1>0, <1>6
       DEF Released, RemoveFinalizer, Fresh, Versions, Lags, FinalizeSteps
  <2>2. ASSUME Published(n) # NoIndex
        PROVE  Homes(n) \cap Made = {}
    <3>1. Published(n) \notin Made
      BY <1>0, <2>1, <2>2 DEF CleanedUp, Published
    <3> QED
      BY <1>0, <2>2, <3>1 DEF NoOther
  <2> QED
    BY <1>6, <1>u, <2>1, <2>2 DEF Released, Promise!Release
<1> QED
  BY <1>0, <1>1, <1>2, <1>3, <1>4, <1>5, <1>6, HowObjectsChange

(* When no legacy index serves two SearchIndexes, the controller keeps its *)
(* promise to those who write documents, with automatic creation of        *)
(* indices or without.                                                     *)
THEOREM PromiseIsKept ==
  ASSUME SoleTenant
  PROVE  Spec => PromiseKept
<1>0. NamesApart
  BY DEF SoleTenant
<1>1. Init => PromiseInv
  BY <1>0, InitPromiseInv
<1>2. PromiseInv /\ [Next]_vars => PromiseInv'
  BY NextPromiseInv
<1>3. Init => \A n \in SearchIndexes : Promise(n)!Init
  BY InitPromise
<1>4. PromiseInv /\ PromiseInv' /\ [Next]_vars
        => [\A n \in SearchIndexes : [Promise(n)!Next]_(Promise(n)!vars)]_vars
  BY <1>0, NextPromise
<1> QED
  BY <1>1, <1>2, <1>3, <1>4, PTL DEF Spec, PromiseKept
-----------------------------------------------------------------------------

\* A document write of theirs finds no index n, and OpenSearch makes one.
AutoMade(n) ==
  /\ AutoCreateIndex /\ LegacyIndexes = {}
  /\ n \notin indices
  /\ PutIndex(n, AutoSettings)

\* What others do: ensureSearchIndex creates the SearchIndex n or writes to what
\* the SearchIndex controller does not read, documents are written, or edits and
\* faults are spent on something else.
Foreign(n) ==
  /\ \/ UNCHANGED <<store, api>>
     \/ UNCHANGED store /\ AddSearchIndex(n, CreatedSpec)
     \/ UNCHANGED store /\ api' = [api EXCEPT ![n] = Bump(@)]
     \/ UNCHANGED api /\ AutoMade(n)
  /\ UNCHANGED <<cache, queue, job, writing>>
  /\ edits' \in 0 .. MaxEdits
  /\ faults' \in 0 .. MaxFaults

(* To the SearchIndex controller it is as if a user had come.              *)
LEMMA ForeignObjects ==
  ASSUME TypeOK, NEW n \in SearchIndexes, Foreign(n)
  PROVE  /\ api' \in [SearchIndexes -> Objects]
         /\ \A k \in SearchIndexes \ {n} : api'[k] = api[k]
         /\ \/ api'[n] = api[n]
            \/ api'[n] = Bump(api[n]) /\ UNCHANGED store
            \/ /\ api[n].phase = "absent" /\ UNCHANGED store
               /\ api'[n] = [Absent(api[n].version + 1) EXCEPT
                               !.phase = "live", !.spec = CreatedSpec]
<1>0. api \in [SearchIndexes -> Objects] /\ api[n] \in Objects /\ api[n].version + 1 \in Nat
  BY TypedParts DEF TypeOK
<1>1. CASE UNCHANGED api
  BY <1>0, <1>1
<1>2. CASE UNCHANGED store /\ AddSearchIndex(n, CreatedSpec)
  <2> DEFINE o == [Absent(api[n].version + 1) EXCEPT !.phase = "live", !.spec = CreatedSpec]
  <2>1. o \in Objects
    BY <1>0, ParametersAssumption DEF ParametersAssumption, Absent, Objects, ObjectOf, Phases
  <2>2. api' = [api EXCEPT ![n] = o] /\ api[n].phase = "absent"
    BY <1>0, <1>2 DEF AddSearchIndex
  <2> QED
    BY <1>0, <1>2, <2>1, <2>2
<1>3. CASE UNCHANGED store /\ api' = [api EXCEPT ![n] = Bump(@)]
  <2>1. Bump(api[n]) \in Objects
    BY <1>0, ObjectsClosed
  <2> QED
    BY <1>0, <1>3, <2>1
<1> QED
  BY <1>1, <1>2, <1>3 DEF Foreign

(* What the controller and its predecessor made is untouched.              *)
LEMMA ForeignStore ==
  ASSUME TypeOK, NEW n \in SearchIndexes, Foreign(n)
  PROVE  /\ StoreTypeOK' /\ Made' = Made /\ UNCHANGED aliases
         /\ \/ UNCHANGED indices
            \/ /\ indices' = indices \cup {n} /\ n \notin indices
               /\ AutoCreateIndex /\ LegacyIndexes = {} /\ UNCHANGED api
<1>0. n \in IndexNames /\ settings \in [IndexNames -> Settings] /\ StoreTypeOK
  BY NamesAssumption DEF NamesAssumption, TypeOK, StoreTypeOK
<1>1. CASE UNCHANGED store
  BY <1>0, <1>1, StoreUnchanged DEF store, Made
<1>2. CASE UNCHANGED api /\ AutoMade(n)
  <2>1. /\ indices' = indices \cup {n} /\ n \notin indices /\ UNCHANGED aliases
        /\ settings' = [settings EXCEPT ![n] = AutoSettings]
    BY <1>2 DEF AutoMade, PutIndex
  <2>2. StoreTypeOK'
    BY <1>0, <2>1 DEF StoreTypeOK, AutoSettings, Settings, AliasNames
  <2>3. Made' = Made
    BY <1>0, <2>1 DEF Made, AutoSettings, StoreTypeOK
  <2> QED
    BY <1>2, <2>1, <2>2, <2>3 DEF AutoMade
<1> QED
  BY <1>1, <1>2 DEF Foreign

(* The object changes as it does for its own controller.                   *)
LEMMA ForeignChanges ==
  ASSUME TypeOK, NEW n \in SearchIndexes, Foreign(n), NEW k \in SearchIndexes
  PROVE  api'[k] = api[k] \/ (UNCHANGED store /\ (Touched(k) \/ Created(k)))
<1>0. api[k] \in Objects
  BY DEF TypeOK
<1>1. CASE api'[k] = Bump(api[k]) /\ UNCHANGED store
  BY <1>0, <1>1 DEF Bump, Touched, Published, Objects, ObjectOf
<1>2. CASE /\ api[k].phase = "absent" /\ UNCHANGED store
           /\ api'[k] = [Absent(api[k].version + 1) EXCEPT
                           !.phase = "live", !.spec = CreatedSpec]
  BY <1>2 DEF Absent, Created, Published
<1> QED
  BY <1>1, <1>2, ForeignObjects

(* Copies still lag behind, and hold what they held.                       *)
LEMMA ForeignLocal ==
  ASSUME TypeOK, NEW n \in SearchIndexes, Foreign(n), AllLocal
  PROVE  AllLocal'
<1> SUFFICES ASSUME NEW k \in SearchIndexes PROVE Local(k)'
  BY DEF AllLocal
<1>0. /\ Local(k) /\ UNCHANGED <<cache, job>>
      /\ api[k] \in Objects /\ cache[k] \in Objects /\ job[k] \in Jobs
  BY DEF AllLocal, Foreign, TypeOK
<1>t. /\ api[k].version \in Nat /\ cache[k].version \in Nat /\ job[k].copy.version \in Nat
      /\ api[k].finalizer \in BOOLEAN
  BY <1>0 DEF Jobs, Objects, ObjectOf
<1>1. CASE api'[k] = api[k]
  BY <1>0, <1>1, LocalFrame
<1>2. CASE api'[k] = Bump(api[k])
  <2>1. /\ api'[k].version = api[k].version + 1 /\ api'[k].phase = api[k].phase
        /\ api'[k].finalizer = api[k].finalizer /\ Published(k)' = Published(k)
    BY <1>0, <1>2 DEF Bump, Published, Objects, ObjectOf
  <2> QED
    BY <1>0, <1>t, <2>1 DEF Local, OneReconcile, Versions, Held, Lags
<1>3. CASE /\ api[k].phase = "absent"
           /\ api'[k] = [Absent(api[k].version + 1) EXCEPT
                           !.phase = "live", !.spec = CreatedSpec]
  <2>1. /\ api'[k].version = api[k].version + 1 /\ api'[k].phase = "live"
        /\ api'[k].finalizer = FALSE /\ Published(k)' = NoIndex
    BY <1>3 DEF Absent, Published
  <2> QED
    BY <1>0, <1>t, <1>3, <2>1 DEF Local, OneReconcile, Versions, Held, Lags
<1> QED
  BY <1>1, <1>2, <1>3, ForeignObjects

(* All that the promise rests on stays.                                    *)
LEMMA ForeignPromiseInv ==
  ASSUME PromiseInv, NEW n \in SearchIndexes, Foreign(n)
  PROVE  PromiseInv'
<1>0. TypeOK /\ IInv /\ StatusOK /\ AllLocal /\ UNCHANGED <<cache, queue, job, writing>>
  BY DEF PromiseInv, IInv, AllLocal, Local, Foreign
<1>s. /\ Made' = Made /\ UNCHANGED aliases /\ indices \subseteq indices'
      /\ indices' \subseteq indices \cup {n} /\ StoreTypeOK'
      /\ AutoCreateIndex \/ UNCHANGED indices
      /\ LegacyIndexes = {} \/ UNCHANGED indices
  BY <1>0, ForeignStore
<1>1. TypeOK'
  BY <1>0, <1>s, ForeignObjects DEF TypeOK, Foreign
<1>2. AllLocal'
  BY <1>0, ForeignLocal
<1>3. ASSUME NEW k \in SearchIndexes
      PROVE  /\ Published(k)' \in {Published(k), NoIndex}
             /\ Published(k)' # NoIndex /\ api[k].finalizer => api'[k].finalizer
             /\ api'[k].phase = "live" /\ Published(k)' # NoIndex => api[k].phase = "live"
  BY <1>0, ForeignChanges DEF Touched, Created, Published
<1>4. IInv'
  <2>1. StoreOfNames'
    BY <1>0, <1>s DEF IInv, StoreOfNames, Names
  <2>2. \A k \in SearchIndexes : AtHome(k)'
    BY <1>0, <1>3 DEF IInv, AtHome, Homes
  <2> QED
    BY <1>1, <1>2, <2>1, <2>2 DEF IInv, AllLocal, Local
<1>5. StatusOK'
  BY <1>0, <1>s, <1>3 DEF StatusOK, AboutToPublish
<1>6. AllMade'
  BY <1>s DEF PromiseInv, AllMade
<1>7. \A k \in SearchIndexes : Named(k)'
  BY <1>0, <1>s, <1>3 DEF PromiseInv, Named
<1>8. ASSUME NEW k \in SearchIndexes PROVE Sole(k)'
  <2>0. /\ Single(k) /\ LegacyFirst(k) /\ Chosen(k) /\ NoOther(k) /\ CleanedUp(k)
        /\ Homes(k)' = Homes(k) /\ k # NoIndex
    BY NamesAssumption DEF NamesAssumption, PromiseInv, Sole, Homes
  <2>1. Single(k)' /\ CleanedUp(k)'
    BY <1>0, <1>s, <2>0 DEF Single, CleanedUp
  <2>2. NoOther(k)'
    BY <1>0, <1>s, <1>3, <2>0 DEF NoOther
  <2>3. Chosen(k)'
    BY <1>0, <1>s, <1>3, <2>0 DEF Chosen
  <2>4. LegacyFirst(k)'
    BY <1>0, <1>s, <1>3, <2>0 DEF LegacyFirst
  <2> QED
    BY <2>1, <2>2, <2>3, <2>4 DEF Sole
<1> QED
  BY <1>4, <1>5, <1>6, <1>7, <1>8 DEF PromiseInv

(* Such a step is a step of the promise, or no step of it.                 *)
LEMMA ForeignPromise ==
  ASSUME PromiseInv, NEW n \in SearchIndexes, Foreign(n), NEW k \in SearchIndexes
  PROVE  [Promise(k)!Next]_(Promise(k)!vars)
<1>0. TypeOK /\ Made' = Made /\ Homes(k)' = Homes(k) /\ Named(k) /\ Held(k)
  BY ForeignStore DEF PromiseInv, IInv, Homes
<1>1. CASE UNCHANGED indices /\ (api'[k] = api[k] \/ Touched(k))
  BY <1>0, <1>1 DEF Promise!vars, Touched, Published
<1>2. CASE UNCHANGED indices /\ Created(k)
  BY <1>0, <1>2 DEF Promise!Next, Promise!Create, Created, Named, Held
<1>3. CASE /\ indices' = indices \cup {n} /\ n \notin indices
           /\ AutoCreateIndex /\ LegacyIndexes = {} /\ UNCHANGED api
  <2>0. Homes(k) = {k} /\ Published(k)' = Published(k) /\ Made \subseteq indices
    BY <1>3 DEF Homes, Published, Made
  <2>1. CASE k = n
    BY <1>0, <1>3, <2>0, <2>1 DEF Promise!Next, Promise!AutoMakeIndex
  <2>2. CASE k # n
    BY <1>0, <1>3, <2>0, <2>2 DEF Promise!vars
  <2> QED
    BY <2>1, <2>2
<1> QED
  BY <1>0, <1>1, <1>2, <1>3, ForeignChanges, ForeignStore DEF store

\* A published index that was made on purpose can be searched, when its
\* SearchIndex is being deleted, too.
Reachable(n) == Published(n) \in Made => <<AllAlias, Published(n)>> \in aliases

(* Every step of the SearchIndex controller keeps it so.                   *)
LEMMA NextReachable ==
  ASSUME NamesApart, PromiseInv, [Next]_vars, NEW n \in SearchIndexes, Reachable(n)
  PROVE  Reachable(n)'
<1> SUFFICES ASSUME Published(n)' \in Made'
             PROVE  <<AllAlias, Published(n)'>> \in aliases'
  BY DEF Reachable
<1>0. TypeOK /\ TypeOK' /\ IInv /\ AtHome(n) /\ StatusOK /\ Named(n)
  BY NextTypeOK DEF PromiseInv, IInv
<1>n. NoIndex \notin Made' /\ Made' \subseteq indices' /\ Made \subseteq indices
  BY <1>0, NamesAssumption DEF NamesAssumption, TypeOK, StoreTypeOK, Made
<1> DEFINE x == Published(n)'
<1>1. x \in indices /\ <<AllAlias, x>> \in aliases
  <2>1. CASE StatusSet(n) /\ UNCHANGED <<indices, settings, cache>>
    BY <1>0, <2>1 DEF StatusSet, StatusOK, AboutToPublish
  <2>2. CASE x = Published(n) /\ x \in Made
    BY <1>n, <2>2 DEF Reachable
  <2>3. CASE x = Published(n) /\ x \notin Made
    <3>1. x \in Homes(n)
      BY <1>0, <1>n, <2>3 DEF AtHome
    <3>2. x = n /\ CreateIndex(n) /\ n \notin indices
      BY <1>0, <2>3, <3>1, WhichHomeIsMade
    <3> QED
      BY <1>0, <1>n, <2>3, <3>2 DEF CreateIndex, Named, ProcessSteps
  <2> QED
    BY <1>0, <1>n, <2>1, <2>2, <2>3, HowNamesChange
<1>2. CASE indices \subseteq indices' /\ aliases \subseteq aliases'
  BY <1>1, <1>2
<1>3. ASSUME NEW m \in SearchIndexes, DropIndex(job[m].copy.indexName)
      PROVE  <<AllAlias, x>> \in aliases'
  BY <1>1, <1>3, <1>n DEF DropIndex
<1> QED
  BY <1>0, <1>2, <1>3, WhoDrops

(* So do those of others.                                                  *)
LEMMA ForeignReachable ==
  ASSUME TypeOK, NEW n \in SearchIndexes, Foreign(n), NEW k \in SearchIndexes,
         Reachable(k)
  PROVE  Reachable(k)'
<1>1. Published(k)' \in {Published(k), NoIndex} /\ Made' = Made /\ UNCHANGED aliases
  BY ForeignChanges, ForeignStore DEF Touched, Created, Published
<1>2. NoIndex \notin Made
  BY NamesAssumption DEF NamesAssumption, TypeOK, StoreTypeOK, Made
<1> QED
  BY <1>1, <1>2 DEF Reachable
=============================================================================

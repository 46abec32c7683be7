------------------------ MODULE ResourceWatcherProofs ------------------------
(***************************************************************************)
(* Proofs about ResourceWatcher, for every set of resources and document   *)
(* IDs, every bound, and a SearchIndex that does all it may.               *)
(***************************************************************************)
EXTENDS ResourceWatcher, TLAPS

-----------------------------------------------------------------------------
(* Objects and jobs                                                        *)

(* The object operators stay within the objects of the API server.         *)
LEMMA ObjectsClosed ==
  /\ \A v \in Nat : Absent(v) \in Objects /\ [Absent(v) EXCEPT !.phase = "live"] \in Objects
  /\ \A o \in Objects : Bump(o) \in Objects /\ o.version + 1 \in Nat
  /\ \A o \in Objects : [o EXCEPT !.phase = "deleting"] \in Objects
  /\ \A o \in Objects : [o EXCEPT !.finalizer = TRUE] \in Objects
<1> USE DEF Objects
<1>1. \A v \in Nat : Absent(v) \in Objects /\ [Absent(v) EXCEPT !.phase = "live"] \in Objects
  BY DEF Absent
<1>2. \A o \in Objects : Bump(o) \in Objects /\ o.version + 1 \in Nat
  BY DEF Bump
<1>3. \A o \in Objects : [o EXCEPT !.phase = "deleting"] \in Objects
  OBVIOUS
<1>4. \A o \in Objects : [o EXCEPT !.finalizer = TRUE] \in Objects
  OBVIOUS
<1> QED
  BY <1>1, <1>2, <1>3, <1>4

(* An idle worker is a job.                                                *)
LEMMA IdleIsJob == Idle \in Jobs
BY ObjectsClosed DEF Idle, Jobs, Steps

(* Whatever way a step ends, jobs, queue and fault count stay well typed.  *)
LEMMA EndsStayTyped ==
  ASSUME TypeOK, NEW r \in Resources
  PROVE  LET Typed == /\ job' \in [Resources -> Jobs]
                      /\ queue' \subseteq Resources
                      /\ faults' \in 0 .. MaxFaults
         IN /\ \A s \in Steps : Continue(r, s) => Typed
            /\ Done(r) => Typed
            /\ Retry(r) => Typed
            /\ LoseReply(r) => Typed
<1> DEFINE Typed == /\ job' \in [Resources -> Jobs]
                    /\ queue' \subseteq Resources
                    /\ faults' \in 0 .. MaxFaults
<1>1. ASSUME NEW s \in Steps, Continue(r, s) PROVE Typed
  BY <1>1 DEF Continue, TypeOK, Jobs
<1>2. ASSUME Done(r) PROVE Typed
  BY <1>2, IdleIsJob DEF Done, TypeOK
<1>3. ASSUME Retry(r) PROVE Typed
  BY <1>3, IdleIsJob DEF Retry, TypeOK
<1>4. ASSUME LoseReply(r) PROVE Typed
  BY <1>4, IdleIsJob, ResourcesAssumption DEF ResourcesAssumption, LoseReply, TypeOK
<1> QED
  BY <1>1, <1>2, <1>3, <1>4

-----------------------------------------------------------------------------
(* Type correctness                                                        *)

(* The initial state is well typed.                                        *)
LEMMA InitTypeOK == Init => TypeOK
<1> SUFFICES ASSUME Init PROVE TypeOK
  OBVIOUS
<1>1. api \in [Resources -> Objects] /\ cache \in [Resources -> Objects]
  BY ObjectsClosed DEF Init
<1>2. job \in [Resources -> Jobs]
  BY IdleIsJob DEF Init
<1>3. 0 \in 0 .. MaxEdits /\ 0 \in 0 .. MaxFaults
  BY ResourcesAssumption DEF ResourcesAssumption
<1> QED
  BY <1>1, <1>2, <1>3 DEF Init, TypeOK, SearchIndex!Init

(* Every action keeps the state well typed.                                *)
LEMMA NextTypeOK == TypeOK /\ [Next]_vars => TypeOK'
<1> SUFFICES ASSUME TypeOK, [Next]_vars PROVE TypeOK'
  OBVIOUS
<1> USE ResourcesAssumption DEF ResourcesAssumption, world
<1>0. /\ api \in [Resources -> Objects] /\ cache \in [Resources -> Objects]
      /\ job \in [Resources -> Jobs]
      /\ \A r \in Resources : api[r] \in Objects /\ job[r].copy \in Objects
  BY DEF TypeOK, Jobs
<1>1. ASSUME NEW r \in Resources, Users(r) PROVE TypeOK'
  <2>1. \E o \in Objects : api' = [api EXCEPT ![r] = o]
    <3>1. CASE CreateResource(r)
      BY <1>0, <3>1, ObjectsClosed DEF CreateResource
    <3>2. CASE EditResource(r)
      BY <1>0, <3>2, ObjectsClosed DEF EditResource
    <3>3. CASE DeleteResource(r)
      BY <1>0, <3>3, ObjectsClosed DEF DeleteResource
    <3> QED
      BY <1>1, <3>1, <3>2, <3>3 DEF Users
  <2>2. edits' \in 0 .. MaxEdits /\ unfit' \subseteq Resources
    BY <1>1 DEF Users, CreateResource, EditResource, DeleteResource, SetContent, TypeOK
  <2> QED
    BY <1>1, <2>1, <2>2
       DEF Users, CreateResource, EditResource, DeleteResource, SetContent, TypeOK
<1>2. ASSUME (\E r \in Resources : ProvideAccountInfo(r)) \/ ChangeFields PROVE TypeOK'
  BY <1>2 DEF ProvideAccountInfo, ChangeFields, TypeOK
<1>3. ASSUME ChangeSearchIndex PROVE TypeOK'
  <2>1. /\ phase' \in {"absent", "live", "deleting"}
        /\ named' \in BOOLEAN /\ index' \in {"none", "made", "auto"}
    BY <1>3 DEF ChangeSearchIndex, TypeOK, SearchIndex!Next, SearchIndex!Create,
         SearchIndex!MakeIndex, SearchIndex!AutoMakeIndex, SearchIndex!Publish,
         SearchIndex!Delete, SearchIndex!DropIndex, SearchIndex!Release
  <2> QED
    BY <1>3, <2>1 DEF ChangeSearchIndex, FollowIndex, TypeOK
<1>4. ASSUME NEW r \in Resources, Observe(r) PROVE TypeOK'
  BY <1>4 DEF Observe, TypeOK
<1>5. ASSUME NEW r \in Resources, Begin(r) PROVE TypeOK'
  <2>1. [Idle EXCEPT !.step = FirstStep(cache[r]), !.copy = cache[r]] \in Jobs
    BY <1>0, IdleIsJob DEF Jobs, FirstStep, Steps
  <2> QED
    BY <1>5, <2>1, IdleIsJob DEF Begin, TypeOK
<1>6. ASSUME NEW r \in Resources, AddFinalizer(r) PROVE TypeOK'
  <2> DEFINE o == Bump([api[r] EXCEPT !.finalizer = TRUE])
  <2>1. o \in Objects
    BY <1>0, ObjectsClosed
  <2>2. [job EXCEPT ![r].step = "getSearchIndex", ![r].copy = o] \in [Resources -> Jobs]
    BY <1>0, <2>1 DEF Jobs, Steps
  <2>3. api' \in [Resources -> Objects]
    BY <1>0, <1>6, <2>1 DEF AddFinalizer
  <2> HIDE DEF o
  <2>4. /\ job' \in [Resources -> Jobs]
        /\ queue' \subseteq Resources
        /\ faults' \in 0 .. MaxFaults
    BY <1>6, <2>2, EndsStayTyped DEF AddFinalizer, TypeOK, o
  <2> QED
    BY <1>6, <2>3, <2>4 DEF AddFinalizer, TypeOK
<1>7. ASSUME NEW r \in Resources, RemoveFinalizer(r) PROVE TypeOK'
  <2>0. Absent(api[r].version + 1) \in Objects
    BY <1>0, ObjectsClosed
  <2>1. api' \in [Resources -> Objects]
    BY <1>0, <1>7, <2>0 DEF RemoveFinalizer
  <2> QED
    BY <1>7, <2>1, EndsStayTyped DEF RemoveFinalizer, TypeOK
<1>8. ASSUME NEW r \in Resources, GetSearchIndex(r) \/ GetAccountInfo(r) \/ FindIndex(r)
      PROVE  TypeOK'
  <2>1. CASE GetSearchIndex(r) /\ ~Retry(r)
    <3>1. /\ job' \in [Resources -> Jobs]
          /\ UNCHANGED <<world, api, cache, edits, queue, faults>>
      BY <1>0, <2>1 DEF GetSearchIndex, Jobs, Steps
    <3> QED
      BY <3>1 DEF TypeOK
  <2>2. CASE GetSearchIndex(r) /\ Retry(r)
    BY <2>2, EndsStayTyped DEF GetSearchIndex, TypeOK
  <2>3. CASE GetAccountInfo(r) \/ FindIndex(r)
    BY <2>3, EndsStayTyped DEF GetAccountInfo, FindIndex, TypeOK, Steps
  <2> QED
    BY <1>8, <2>1, <2>2, <2>3
<1>9. ASSUME NEW r \in Resources, IndexDocument(r) PROVE TypeOK'
  <2>1. NewDocument(r) \in Docs
    BY <1>0 DEF NewDocument, Docs, TypeOK, Objects
  <2> QED
    BY <1>9, <2>1, EndsStayTyped DEF IndexDocument, TypeOK
<1>10. ASSUME NEW r \in Resources, DeleteDocument(r) PROVE TypeOK'
  BY <1>10, EndsStayTyped DEF DeleteDocument, TypeOK, Steps
<1>11. ASSUME NEW r \in Resources, RequestFails(r) PROVE TypeOK'
  BY <1>11, EndsStayTyped DEF RequestFails, TypeOK
<1>12. ASSUME Restart PROVE TypeOK'
  BY <1>12, IdleIsJob DEF Restart, TypeOK
<1>13. ASSUME UNCHANGED vars PROVE TypeOK'
  BY <1>13 DEF vars, TypeOK
<1> QED
  BY <1>1, <1>2, <1>3, <1>4, <1>5, <1>6, <1>7, <1>8, <1>9, <1>10, <1>11, <1>12, <1>13
     DEF Next, Reconcile, World

(* Every reachable state is well typed.                                    *)
THEOREM TypeCorrect == Spec => []TypeOK
<1>1. Init => TypeOK
  BY InitTypeOK
<1>2. TypeOK /\ [Next]_vars => TypeOK'
  BY NextTypeOK
<1> QED
  BY <1>1, <1>2, PTL DEF Spec

-----------------------------------------------------------------------------
(* Versions and finalizers                                                 *)

Local(r) == Versions(r) /\ Held(r)

AllLocal == \A r \in Resources : Local(r)

\* What most steps of a reconcile leave alone: the objects, their cached
\* copies, the other reconciles, and the copy this one works on.
Plain(r) ==
  /\ UNCHANGED <<api, cache>>
  /\ \A k \in Resources \ {r} : job'[k] = job[k]
  /\ \/ job'[r] = Idle
     \/ /\ job'[r].copy = job[r].copy
        /\ \/ job[r].step \in ProcessSteps /\ job'[r].step \in ProcessSteps
           \/ job[r].step \in FinalizeSteps /\ job'[r].step \in FinalizeSteps

PlainStep(r) ==
  \/ GetSearchIndex(r) \/ GetAccountInfo(r) \/ IndexDocument(r)
  \/ FindIndex(r) \/ DeleteDocument(r) \/ RequestFails(r)

(* The steps between the two finalizer requests are plain.                 *)
LEMMA PlainSteps ==
  ASSUME TypeOK, NEW r \in Resources, PlainStep(r)
  PROVE  Plain(r)
<1> USE DEF ProcessSteps, FinalizeSteps, Plain, Continue, Done, Retry, LoseReply, Jobs
<1>0. job \in [Resources -> Jobs]
  BY DEF TypeOK
<1>1. CASE GetSearchIndex(r)
  BY <1>0, <1>1 DEF GetSearchIndex
<1>2. CASE GetAccountInfo(r)
  BY <1>0, <1>2 DEF GetAccountInfo
<1>3. CASE IndexDocument(r)
  BY <1>0, <1>3 DEF IndexDocument
<1>4. CASE FindIndex(r)
  BY <1>0, <1>4 DEF FindIndex
<1>5. CASE DeleteDocument(r)
  BY <1>0, <1>5 DEF DeleteDocument
<1>6. CASE RequestFails(r)
  BY <1>0, <1>6 DEF RequestFails
<1> QED
  BY <1>1, <1>2, <1>3, <1>4, <1>5, <1>6 DEF PlainStep

(* A resource that a step does not touch keeps its invariants.             *)
LEMMA LocalFrame ==
  ASSUME NEW r \in Resources, Local(r),
         api'[r] = api[r], cache'[r] = cache[r], job'[r] = job[r]
  PROVE  Local(r)'
BY DEF Local, Versions, Held, Lags, Running

(* A worker that becomes idle keeps them too.                              *)
LEMMA LocalIdle ==
  ASSUME NEW r \in Resources, Local(r),
         api'[r] = api[r], cache'[r] = cache[r], job'[r] = Idle
  PROVE  Local(r)'
BY DEF Local, Versions, Held, Lags, Running, Idle, ProcessSteps, FinalizeSteps

(* Plain steps keep them.                                                  *)
LEMMA LocalPlain ==
  ASSUME AllLocal, NEW r \in Resources, Plain(r)
  PROVE  AllLocal'
<1>1. ASSUME NEW k \in Resources \ {r} PROVE Local(k)'
  BY <1>1, LocalFrame DEF Plain, AllLocal
<1>2. CASE job'[r] = Idle
  BY <1>1, <1>2, LocalIdle DEF Plain, AllLocal
<1>3. CASE job'[r] # Idle
  <2>1. Local(r)'
    BY <1>3 DEF Plain, AllLocal, Local, Versions, Held, Lags, Running,
                ProcessSteps, FinalizeSteps
  <2> QED
    BY <1>1, <2>1 DEF AllLocal
<1> QED
  BY <1>2, <1>3

(* Every step keeps the invariants of every resource.                      *)
LEMMA NextLocal == TypeOK /\ AllLocal /\ [Next]_vars => AllLocal'
<1> SUFFICES ASSUME TypeOK, AllLocal, [Next]_vars PROVE AllLocal'
  OBVIOUS
<1> USE DEF ProcessSteps, FinalizeSteps
<1> DEFINE Untouched(k) == api'[k] = api[k] /\ cache'[k] = cache[k] /\ job'[k] = job[k]
<1>0. /\ api \in [Resources -> Objects]
      /\ cache \in [Resources -> Objects]
      /\ job \in [Resources -> Jobs]
  BY DEF TypeOK
<1>v. \A r \in Resources :
        /\ Local(r)
        /\ api[r] \in Objects /\ api[r].version \in Nat
        /\ cache[r] \in Objects /\ cache[r].version \in Nat
        /\ job[r].copy \in Objects /\ job[r].copy.version \in Nat
  BY <1>0 DEF AllLocal, Jobs, Objects
\* It is enough to look at the resource that the step is about.
<1>f. ASSUME NEW r \in Resources, Local(r)',
             \A k \in Resources \ {r} : Untouched(k)
      PROVE  AllLocal'
  <2>1. ASSUME NEW k \in Resources \ {r} PROVE Local(k)'
    BY <1>v, <1>f, LocalFrame
  <2> QED
    BY <1>f, <2>1 DEF AllLocal
<1>1. ASSUME NEW r \in Resources, Users(r) PROVE AllLocal'
  <2> DEFINE o == api'[r]
  <2>1. /\ o.version = api[r].version + 1
        /\ \/ o.finalizer = api[r].finalizer /\ o.phase # "absent"
           \/ ~api[r].finalizer /\ ~o.finalizer
        /\ UNCHANGED <<cache, job>>
        /\ \A k \in Resources \ {r} : api'[k] = api[k]
    <3>1. CASE CreateResource(r)
      BY <1>0, <1>v, <3>1 DEF CreateResource, Absent, Local, Held, Objects
    <3>2. CASE EditResource(r)
      BY <1>0, <1>v, <3>2 DEF EditResource, Bump, Objects
    <3>3. CASE DeleteResource(r)
      BY <1>0, <1>v, <3>3 DEF DeleteResource, Bump, Absent, Objects
    <3> QED
      BY <1>1, <3>1, <3>2, <3>3 DEF Users
  <2>2. Local(r)'
    BY <1>v, <2>1 DEF Local, Versions, Held, Lags, Running
  <2> QED
    BY <1>f, <2>1, <2>2
<1>2. ASSUME UNCHANGED <<api, cache, job>> PROVE AllLocal'
  BY <1>v, <1>2, LocalFrame DEF AllLocal
<1>3. ASSUME NEW r \in Resources, Observe(r) PROVE AllLocal'
  <2>1. Local(r)'
    BY <1>0, <1>v, <1>3 DEF Observe, Local, Versions, Held, Lags, Running
  <2> QED
    BY <1>0, <1>f, <1>3, <2>1 DEF Observe
<1>4. ASSUME NEW r \in Resources, Begin(r) PROVE AllLocal'
  <2>1. CASE FirstStep(cache[r]) = "idle"
    BY <1>0, <1>v, <1>4, <2>1, LocalIdle, <1>f DEF Begin
  <2>2. CASE FirstStep(cache[r]) # "idle"
    <3>1. job'[r].copy = cache[r] /\ job'[r].step = FirstStep(cache[r])
      BY <1>0, <1>4, <2>2 DEF Begin, Idle
    <3>2. Local(r)'
      BY <1>v, <1>4, <2>2, <3>1
         DEF Begin, FirstStep, Local, Versions, Held, Lags, Running
    <3> QED
      BY <1>0, <1>f, <1>4, <3>2 DEF Begin
  <2> QED
    BY <2>1, <2>2
<1>5. ASSUME NEW r \in Resources, AddFinalizer(r) PROVE AllLocal'
  <2>1. CASE Fresh(r)
    <3> DEFINE o == Bump([api[r] EXCEPT !.finalizer = TRUE])
    <3>1. /\ api'[r] = o /\ cache' = cache
          /\ \/ job'[r] = Idle
             \/ job'[r].copy = o /\ job'[r].step = "getSearchIndex"
      BY <1>0, <1>5, <2>1 DEF AddFinalizer, LoseReply, Jobs
    <3>2. o.phase = api[r].phase /\ o.version = api[r].version + 1 /\ o.finalizer
      BY <1>v DEF Bump, Objects
    <3>3. api[r].phase = "live"
      BY <1>v, <1>5, <2>1 DEF AddFinalizer, Fresh, Local, Versions, Held, Lags, Running
    <3> HIDE DEF o
    <3>4. Local(r)'
      BY <1>v, <1>5, <3>1, <3>2, <3>3
         DEF AddFinalizer, Idle, Local, Versions, Held, Lags, Running
    <3> QED
      BY <1>0, <1>f, <1>5, <3>4 DEF AddFinalizer, LoseReply, Retry
  <2>2. CASE ~Fresh(r)
    BY <1>0, <1>v, <1>5, <2>2, <1>f, LocalIdle DEF AddFinalizer, Retry
  <2> QED
    BY <2>1, <2>2
<1>6. ASSUME NEW r \in Resources, RemoveFinalizer(r) PROVE AllLocal'
  <2>1. CASE Fresh(r)
    \* The copy is the object, and the cache cannot have moved on either.
    <3>1. cache[r] = api[r] /\ api[r].phase = "deleting"
      BY <1>v, <1>6, <2>1 DEF RemoveFinalizer, Fresh, Local, Versions, Held, Lags, Running
    <3>2. /\ api'[r] = Absent(api[r].version + 1)
          /\ job'[r] = Idle /\ cache' = cache
      BY <1>0, <1>6, <2>1 DEF RemoveFinalizer, Done, LoseReply
    <3>3. Local(r)'
      BY <1>v, <3>1, <3>2 DEF Idle, Absent, Local, Versions, Held, Lags, Running
    <3> QED
      BY <1>0, <1>f, <1>6, <3>3 DEF RemoveFinalizer, Done, LoseReply, Retry
  <2>2. CASE ~Fresh(r)
    BY <1>0, <1>v, <1>6, <2>2, <1>f, LocalIdle DEF RemoveFinalizer, Retry
  <2> QED
    BY <2>1, <2>2
<1>7. ASSUME NEW r \in Resources, PlainStep(r) PROVE AllLocal'
  BY <1>7, PlainSteps, LocalPlain
<1>8. ASSUME Restart PROVE AllLocal'
  BY <1>0, <1>v, <1>8
     DEF Restart, AllLocal, Idle, Local, Versions, Held, Lags, Running
<1>9. ASSUME World PROVE AllLocal'
  BY <1>2, <1>9 DEF World, ProvideAccountInfo, ChangeFields, ChangeSearchIndex
<1> QED
  BY <1>1, <1>2, <1>3, <1>4, <1>5, <1>6, <1>7, <1>8, <1>9
     DEF Next, Reconcile, PlainStep, vars

-----------------------------------------------------------------------------
(* Documents                                                               *)

(* A document is where it was, in the index where it was, or IndexDocument *)
(* has just written it.                                                    *)
LEMMA WhoWrites ==
  ASSUME TypeOK, [Next]_vars, NEW d \in DocIds, IsDoc(docs'[d])
  PROVE  \/ docs'[d] = docs[d] /\ index' \in {index, IF index = "none" THEN "auto" ELSE index}
         \/ \E r \in Resources :
              /\ IndexDocument(r)
              /\ d = DocIdOf[r] /\ docs'[d] = NewDocument(r)
              /\ index' # "none" /\ UNCHANGED <<api, cache, phase, named>>
<1> USE DEF world
<1>0. docs \in [DocIds -> Docs \cup {NoDoc, LostDoc}] /\ DocIdOf \in [Resources -> DocIds]
  BY ResourcesAssumption DEF ResourcesAssumption, TypeOK
<1>1. ASSUME ChangeSearchIndex PROVE docs'[d] = docs[d] /\ index' = index
  BY <1>0, <1>1 DEF ChangeSearchIndex, FollowIndex, IsDoc
<1>2. ASSUME NEW r \in Resources, IndexDocument(r)
      PROVE  /\ index' \in {index, IF index = "none" THEN "auto" ELSE index}
             /\ docs'[d] # docs[d] =>
                  /\ d = DocIdOf[r] /\ docs'[d] = NewDocument(r)
                  /\ index' # "none" /\ UNCHANGED <<api, cache, phase, named>>
  BY <1>0, <1>2 DEF IndexDocument
<1>3. ASSUME NEW r \in Resources, DeleteDocument(r)
      PROVE  docs'[d] = docs[d] /\ index' = index
  BY <1>0, <1>3 DEF DeleteDocument, IsDoc
<1>4. ASSUME NEW r \in Resources,
             \/ Users(r) \/ Observe(r) \/ Begin(r) \/ RequestFails(r)
             \/ AddFinalizer(r) \/ GetSearchIndex(r) \/ GetAccountInfo(r)
             \/ FindIndex(r) \/ RemoveFinalizer(r) \/ ProvideAccountInfo(r)
      PROVE  docs' = docs /\ index' = index
  BY <1>4 DEF Users, CreateResource, EditResource, DeleteResource, SetContent, Observe,
       Begin, RequestFails, AddFinalizer, GetSearchIndex, GetAccountInfo, FindIndex,
       RemoveFinalizer, ProvideAccountInfo
<1>5. ASSUME Restart \/ ChangeFields \/ UNCHANGED vars PROVE docs' = docs /\ index' = index
  BY <1>5 DEF Restart, ChangeFields, vars
<1> QED
  BY <1>1, <1>2, <1>3, <1>4, <1>5 DEF Next, Reconcile, World

(* Objects change under a new version, or not at all; and a finalizer goes *)
(* by RemoveFinalizer only.                                                *)
LEMMA WhoChanges ==
  ASSUME TypeOK, AllLocal, [Next]_vars, NEW r \in Resources
  PROVE  /\ api'[r] = api[r] \/ api'[r].version > api[r].version
         /\ api[r].finalizer /\ ~api'[r].finalizer => RemoveFinalizer(r) /\ docs' = docs
<1> USE DEF world
<1> DEFINE Goal == /\ api'[r] = api[r] \/ api'[r].version > api[r].version
                   /\ api[r].finalizer /\ ~api'[r].finalizer
                        => RemoveFinalizer(r) /\ docs' = docs
<1>0. /\ api \in [Resources -> Objects]
      /\ api[r] \in Objects /\ api[r].version \in Nat
      /\ Held(r)
  BY DEF TypeOK, Objects, AllLocal, Local
<1>1. ASSUME NEW k \in Resources, Users(k) PROVE Goal
  <2>1. CASE CreateResource(k)
    BY <1>0, <2>1 DEF CreateResource, Absent, Held
  <2>2. CASE EditResource(k)
    BY <1>0, <2>2 DEF EditResource, Bump, Objects
  <2>3. CASE DeleteResource(k)
    BY <1>0, <2>3 DEF DeleteResource, Bump, Absent, Objects
  <2> QED
    BY <1>1, <2>1, <2>2, <2>3 DEF Users
<1>2. ASSUME NEW k \in Resources, AddFinalizer(k) PROVE Goal
  <2> DEFINE o == Bump([api[r] EXCEPT !.finalizer = TRUE])
  <2>1. api'[r] \in {api[r], o}
    BY <1>0, <1>2 DEF AddFinalizer
  <2>2. o.version = api[r].version + 1 /\ o.finalizer
    BY <1>0 DEF Bump, Objects
  <2> QED
    BY <1>0, <2>1, <2>2
<1>3. ASSUME NEW k \in Resources, RemoveFinalizer(k) PROVE Goal
  BY <1>0, <1>3 DEF RemoveFinalizer, Absent
<1>4. ASSUME NEW k \in Resources, Observe(k) \/ Begin(k) \/ PlainStep(k) PROVE api' = api
  BY <1>4, PlainSteps DEF Observe, Begin, Plain
<1>5. ASSUME Restart \/ World \/ UNCHANGED vars PROVE api' = api
  BY <1>5 DEF Restart, World, ProvideAccountInfo, ChangeFields, ChangeSearchIndex, vars
<1> QED
  BY <1>1, <1>2, <1>3, <1>4, <1>5 DEF Next, Reconcile, PlainStep

(* Documents stay in place, and no object falls behind its document.       *)
LEMMA NextInPlace ==
  ASSUME IInv, [Next]_vars, NEW d \in DocIds
  PROVE  InPlace(d)'
<1> SUFFICES ASSUME IsDoc(docs'[d])
             PROVE  /\ DocIdOf[docs'[d].of] = d
                    /\ docs'[d].version <= api'[docs'[d].of].version
  BY DEF InPlace
<1>0. TypeOK /\ AllLocal /\ InPlace(d)
  BY DEF IInv, AllLocal, Local
<1>v. \A r \in Resources : /\ api[r].version \in Nat /\ job[r].copy.version \in Nat
                           /\ api'[r].version \in Nat
  <2>1. TypeOK'
    BY <1>0, NextTypeOK
  <2> QED
    BY <1>0, <2>1 DEF TypeOK, Jobs, Objects
<1>1. CASE docs'[d] = docs[d]
  <2>1. docs[d].of \in Resources /\ docs[d].version \in Nat
    BY <1>0, <1>1 DEF TypeOK, Docs, IsDoc
  <2> QED
    BY <1>0, <1>1, <1>v, <2>1, WhoChanges DEF InPlace, IsDoc
<1>2. ASSUME NEW r \in Resources, IndexDocument(r), api' = api,
             d = DocIdOf[r], docs'[d] = NewDocument(r)
      PROVE  docs'[d].of = r /\ docs'[d].version <= api[r].version
  <2>1. job[r].copy.version <= api[r].version
    BY <1>0, <1>2 DEF IndexDocument, AllLocal, Local, Versions, Lags, Running
  <2> QED
    BY <1>2, <2>1 DEF NewDocument
<1> QED
  BY <1>0, <1>1, <1>2, WhoWrites

(* All of it holds at the start ...                                        *)
LEMMA InitIInv == Init => IInv
<1>1. Init => TypeOK
  BY InitTypeOK
<1>2. ASSUME Init, NEW r \in Resources PROVE Versions(r) /\ Held(r)
  BY <1>2 DEF Init, Versions, Held, Lags, Running, Absent, Idle, ProcessSteps, FinalizeSteps
<1>3. ASSUME Init, NEW d \in DocIds PROVE InPlace(d)
  BY <1>3 DEF Init, InPlace, IsDoc
<1> QED
  BY <1>1, <1>2, <1>3 DEF IInv

(* ... and is kept by every step.                                          *)
LEMMA NextIInv == IInv /\ [Next]_vars => IInv'
<1> SUFFICES ASSUME IInv, [Next]_vars PROVE IInv'
  OBVIOUS
<1>1. TypeOK'
  BY NextTypeOK DEF IInv
<1>2. AllLocal'
  BY NextLocal DEF IInv, AllLocal, Local
<1>3. \A d \in DocIds : InPlace(d)'
  BY NextInPlace
<1> QED
  BY <1>1, <1>2, <1>3 DEF IInv, AllLocal, Local

(* Copies only lag behind, finalizers are held while Process runs, and     *)
(* documents stand where Finalize looks for them, in every reachable state.*)
THEOREM Invariance == Spec => []IInv
BY InitIInv, NextIInv, PTL DEF Spec

-----------------------------------------------------------------------------
(* No document outlives its resource                                       *)

(* Finalize gets to the release of r past a SearchIndex without a name, or *)
(* past the deletion of the document.                                      *)
LEMMA WhoReleases ==
  ASSUME TypeOK, [Next]_vars, NEW r \in Resources, job'[r].step = "removeFinalizer"
  PROVE  \/ job'[r] = job[r]
         \/ ~named /\ UNCHANGED <<docs, named>>
         \/ docs'[DocIdOf[r]] = NoDoc
<1> USE DEF world, Continue, Done, Retry, LoseReply, Jobs
<1>0. /\ job \in [Resources -> Jobs]
      /\ docs \in [DocIds -> Docs \cup {NoDoc, LostDoc}] /\ DocIdOf \in [Resources -> DocIds]
  BY ResourcesAssumption DEF ResourcesAssumption, TypeOK
<1>1. ASSUME NEW k \in Resources, k # r, PlainStep(k) PROVE job'[r] = job[r]
  BY <1>1, PlainSteps DEF Plain
<1>2. ASSUME NEW k \in Resources, k # r, AddFinalizer(k) \/ RemoveFinalizer(k)
      PROVE  job'[r] = job[r]
  BY <1>0, <1>2 DEF AddFinalizer, RemoveFinalizer
<1>3. ASSUME NEW k \in Resources, Users(k) \/ Observe(k) PROVE job'[r] = job[r]
  BY <1>3 DEF Users, CreateResource, EditResource, DeleteResource, Observe
<1>4. ASSUME NEW k \in Resources, Begin(k) PROVE job'[r] = job[r]
  BY <1>0, <1>4 DEF Begin, Idle, FirstStep
<1>5. ASSUME World \/ UNCHANGED vars PROVE job'[r] = job[r]
  BY <1>5 DEF World, ProvideAccountInfo, ChangeFields, ChangeSearchIndex, vars
<1>6. ASSUME Restart \/ RequestFails(r) \/ AddFinalizer(r) \/ RemoveFinalizer(r)
      PROVE  FALSE
  BY <1>0, <1>6 DEF Restart, RequestFails, AddFinalizer, RemoveFinalizer, Idle
<1>7. ASSUME GetSearchIndex(r) \/ GetAccountInfo(r) \/ IndexDocument(r) PROVE FALSE
  BY <1>0, <1>7 DEF GetSearchIndex, GetAccountInfo, IndexDocument, Idle
<1>8. ASSUME FindIndex(r) PROVE ~named /\ UNCHANGED <<docs, named>>
  BY <1>0, <1>8 DEF FindIndex, Idle
<1>9. ASSUME DeleteDocument(r) PROVE docs'[DocIdOf[r]] = NoDoc
  BY <1>0, <1>9 DEF DeleteDocument, Idle
<1> QED
  BY <1>1, <1>2, <1>3, <1>4, <1>5, <1>6, <1>7, <1>8, <1>9
     DEF Next, Reconcile, PlainStep

(* What DocumentsHeld rests on is kept by every step.                      *)
LEMMA NextHeldInv == IInv /\ HeldInv /\ [Next]_vars => HeldInv'
<1> SUFFICES ASSUME IInv, HeldInv, [Next]_vars PROVE HeldInv'
  OBVIOUS
<1>0. TypeOK /\ AllLocal
  BY DEF IInv, AllLocal, Local
\* A document that stays is in the index where it was.
<1>s. ASSUME NEW d \in DocIds, IsDoc(docs'[d]), docs'[d] = docs[d]
      PROVE  IsDoc(docs[d]) /\ index # "none"
  BY <1>s DEF HeldInv, Backed, IsDoc
<1>1. ASSUME NEW d \in DocIds, IsDoc(docs'[d]), docs'[d].named, index' = "made"
      PROVE  api'[docs'[d].of].finalizer
  <2>1. CASE docs'[d] = docs[d] /\ index = "made"
    <3> DEFINE r == docs[d].of
    <3>1. IsDoc(docs[d]) /\ docs[d].named
      BY <1>1, <2>1 DEF IsDoc
    <3>2. r \in Resources /\ api[r].finalizer /\ DocIdOf[r] = d
      BY <1>0, <2>1, <3>1 DEF HeldInv, DocumentsHeld, IInv, InPlace, TypeOK, Docs, IsDoc
    <3>3. ~RemoveFinalizer(r)
      BY <2>1, <3>1, <3>2 DEF HeldInv, Cleaned, DocumentOf, RemoveFinalizer
    <3> QED
      BY <1>0, <2>1, <3>2, <3>3, WhoChanges
  <2>2. ASSUME NEW r \in Resources, IndexDocument(r), docs'[d] = NewDocument(r),
               UNCHANGED api
        PROVE  api'[docs'[d].of].finalizer
    BY <1>0, <2>2 DEF IndexDocument, AllLocal, Local, Held, ProcessSteps, NewDocument
  <2> QED
    BY <1>0, <1>s, <1>1, <2>1, <2>2, WhoWrites
<1>2. ASSUME NEW d \in DocIds, IsDoc(docs'[d])
      PROVE  index' # "none" /\ (docs'[d].named /\ index' = "made" => named')
  <2>1. CASE docs'[d] = docs[d] /\ index' = index
    <3>1. index # "none" /\ (docs[d].named /\ index = "made" => named)
      BY <1>2, <2>1 DEF HeldInv, Backed, IsDoc
    <3>2. index = "made" /\ named => named'
      <4>1. CASE ChangeSearchIndex
        BY <4>1 DEF ChangeSearchIndex, SearchIndex!Next, SearchIndex!Create,
             SearchIndex!MakeIndex, SearchIndex!AutoMakeIndex, SearchIndex!Publish,
             SearchIndex!Delete, SearchIndex!DropIndex, SearchIndex!Release
      <4>2. CASE ~ChangeSearchIndex
        BY <4>2 DEF Next, vars, world, Users, CreateResource, EditResource,
             DeleteResource, SetContent, Observe, Begin, Reconcile, AddFinalizer,
             GetSearchIndex, GetAccountInfo, IndexDocument, FindIndex, DeleteDocument,
             RemoveFinalizer, RequestFails, World, ProvideAccountInfo, ChangeFields, Restart
      <4> QED
        BY <4>1, <4>2
    <3> QED
      BY <2>1, <3>1, <3>2
  <2>2. ASSUME NEW r \in Resources, docs'[d] = NewDocument(r),
               index' # "none", UNCHANGED named
        PROVE  index' # "none" /\ (docs'[d].named => named')
    BY <2>2 DEF NewDocument
  <2> QED
    BY <1>0, <1>s, <1>2, <2>1, <2>2, WhoWrites
<1>3. ASSUME NEW r \in Resources, job'[r].step = "removeFinalizer", index' = "made",
             NEW d \in DocIds, d = DocIdOf[r],
             IsDoc(docs'[d]), docs'[d].of = r, docs'[d].named
      PROVE  FALSE
  <2>1. CASE job'[r] = job[r]
    <3>1. ~(docs'[d] = docs[d] /\ index = "made")
      BY <1>3, <2>1 DEF HeldInv, Cleaned, DocumentOf, IsDoc
    <3>2. PICK s \in Resources : IndexDocument(s) /\ docs'[d] = NewDocument(s)
      BY <1>0, <1>s, <1>3, <3>1, WhoWrites
    <3>3. s = r
      BY <1>3, <3>2 DEF NewDocument
    <3> QED
      BY <1>3, <2>1, <3>2, <3>3 DEF IndexDocument
  <2>2. CASE ~named /\ UNCHANGED <<docs, named>>
    BY <1>2, <1>3, <2>2
  <2>3. CASE docs'[d] = NoDoc
    BY <1>3, <2>3 DEF IsDoc
  <2> QED
    BY <1>0, <1>3, <2>1, <2>2, <2>3, WhoReleases
<1>4. \A r \in Resources : DocIdOf[r] \in DocIds
  BY ResourcesAssumption DEF ResourcesAssumption
<1> QED
  BY <1>1, <1>2, <1>3, <1>4 DEF HeldInv, DocumentsHeld, Backed, Cleaned, DocumentOf, IsDoc

(* It holds at the start.                                                  *)
LEMMA InitHeldInv == Init => HeldInv
BY ResourcesAssumption
   DEF ResourcesAssumption, Init, HeldInv, DocumentsHeld, Backed, Cleaned, DocumentOf,
       IsDoc, Idle

(* A document in the index that the operator made, and that the SearchIndex*)
(* named when the document was written, belongs to a resource that is held *)
(* by the finalizer, for any number of resources, even such as share an ID,*)
(* and whether OpenSearch creates indices upon writes or not.              *)
THEOREM NoDocumentOutlives == Spec => []DocumentsHeld
<1>1. Init => HeldInv
  BY InitHeldInv
<1>2. IInv /\ HeldInv /\ [Next]_vars => HeldInv'
  BY NextHeldInv
<1>3. HeldInv => DocumentsHeld
  BY DEF HeldInv
<1> QED
  BY <1>1, <1>2, <1>3, Invariance, PTL DEF Spec

-----------------------------------------------------------------------------
(* Documents are current                                                   *)

AllNoted == \A r \in Resources : NotForgotten(r)

(* A step that adds to the queue at most, and takes a document at most,    *)
(* forgets nothing about r.                                                *)
LEMMA NotedFrame ==
  ASSUME NEW r \in Resources, NotForgotten(r),
         cache'[r] = cache[r], job'[r] = job[r], r \in queue => r \in queue',
         DocumentOf(r)' = DocumentOf(r) \/ ~IsDoc(DocumentOf(r)')
  PROVE  NotForgotten(r)'
<1>1. IsDoc(DocumentOf(r)') => IsDoc(DocumentOf(r))
                                /\ DocumentOf(r)' = DocumentOf(r)
  BY DEF IsDoc
<1>2. r \in Running' <=> r \in Running
  BY DEF Running
<1> QED
  BY <1>1, <1>2 DEF NotForgotten, IsDoc

(* Nor does a step that leaves the key in the queue.                       *)
LEMMA NotedQueued ==
  ASSUME NEW r \in Resources, r \in queue'
  PROVE  NotForgotten(r)'
BY DEF NotForgotten

(* Every step remembers what has yet to get into a document.               *)
LEMMA NextNoted ==
  ASSUME DistinctIds
  PROVE  IInv /\ AllNoted /\ [Next]_vars => AllNoted'
<1> SUFFICES ASSUME IInv, AllNoted, [Next]_vars, NEW r \in Resources
             PROVE  NotForgotten(r)'
  BY DEF AllNoted
<1> USE DEF world
<1>0. /\ TypeOK /\ AllLocal /\ Versions(r) /\ Held(r) /\ NotForgotten(r)
      /\ job \in [Resources -> Jobs]
      /\ docs \in [DocIds -> Docs \cup {NoDoc, LostDoc}] /\ DocIdOf[r] \in DocIds
      /\ api[r] \in Objects /\ api[r].version \in Nat
      /\ cache[r].version \in Nat /\ job[r].copy.version \in Nat
  BY ResourcesAssumption
     DEF ResourcesAssumption, IInv, AllLocal, Local, AllNoted, TypeOK, Jobs, Objects
<1>1. ASSUME NEW k \in Resources, Users(k) PROVE NotForgotten(r)'
  BY <1>0, <1>1, NotedFrame
     DEF Users, CreateResource, EditResource, DeleteResource, SetContent, DocumentOf
<1>2. ASSUME World PROVE NotForgotten(r)'
  <2>1. DocumentOf(r)' = DocumentOf(r) \/ ~IsDoc(DocumentOf(r)')
    BY <1>0, <1>2 DEF World, ProvideAccountInfo, ChangeFields, ChangeSearchIndex,
         FollowIndex, DocumentOf, IsDoc
  <2> QED
    BY <1>0, <1>2, <2>1, NotedFrame
       DEF World, ProvideAccountInfo, ChangeFields, ChangeSearchIndex
<1>3. ASSUME NEW k \in Resources, Observe(k) PROVE NotForgotten(r)'
  <2>1. CASE k = r
    BY <1>3, <2>1, NotedQueued DEF Observe
  <2>2. CASE k # r
    BY <1>0, <1>3, <2>2, NotedFrame DEF Observe, DocumentOf, TypeOK
  <2> QED
    BY <2>1, <2>2
<1>4. ASSUME NEW k \in Resources, Begin(k) PROVE NotForgotten(r)'
  <2>1. CASE k # r
    BY <1>0, <1>4, <2>1, NotedFrame DEF Begin, DocumentOf
  <2>2. CASE k = r /\ FirstStep(cache[r]) = "idle"
    <3>1. job'[r] = Idle /\ cache[r].phase # "live" /\ UNCHANGED cache
      BY <1>0, <1>4, <2>2 DEF Begin, FirstStep
    <3> QED
      BY <3>1 DEF NotForgotten, Running, Idle
  <2>3. CASE k = r /\ FirstStep(cache[r]) # "idle"
    <3>1. job'[r].copy = cache[r] /\ job'[r].step # "idle" /\ UNCHANGED cache
      BY <1>0, <1>4, <2>3 DEF Begin, Idle
    <3> QED
      BY <1>0, <3>1 DEF NotForgotten, Running
  <2> QED
    BY <2>1, <2>2, <2>3
\* The requests of other reconciles: none of them writes to the document of r.
<1>5. ASSUME NEW k \in Resources, k # r, Reconcile(k) \/ RequestFails(k)
      PROVE  NotForgotten(r)'
  <2>1. DocumentOf(r)' = DocumentOf(r)
    <3>1. DocIdOf[k] # DocIdOf[r]
      BY <1>5 DEF DistinctIds
    <3> QED
      BY <1>0, <1>5, <3>1 DEF Reconcile, AddFinalizer, GetSearchIndex, GetAccountInfo,
           IndexDocument, FindIndex, DeleteDocument, RemoveFinalizer, RequestFails, DocumentOf
  <2>2. /\ job'[r] = job[r] /\ UNCHANGED cache /\ queue \subseteq queue'
    BY <1>0, <1>5 DEF Reconcile, AddFinalizer, GetSearchIndex, GetAccountInfo,
         IndexDocument, FindIndex, DeleteDocument, RemoveFinalizer, RequestFails,
         Continue, Done, Retry, LoseReply
  <2> QED
    BY <1>0, <2>1, <2>2, NotedFrame
<1>6. ASSUME Retry(r) \/ LoseReply(r) PROVE NotForgotten(r)'
  BY <1>6, NotedQueued DEF Retry, LoseReply
\* r itself goes on, with the copy it has.
<1>7. ASSUME NEW step \in Steps \ {"idle"}, Continue(r, step), r \in Running, UNCHANGED cache
      PROVE  NotForgotten(r)'
  <2>1. job'[r].copy = job[r].copy /\ job'[r].step # "idle" /\ queue' = queue
    BY <1>0, <1>7 DEF Continue, Jobs
  <2> QED
    BY <1>0, <1>7, <2>1 DEF NotForgotten, Running
<1>8. ASSUME AddFinalizer(r) PROVE NotForgotten(r)'
  <2> DEFINE o == Bump([api[r] EXCEPT !.finalizer = TRUE])
  <2>1. CASE ~Retry(r) /\ ~LoseReply(r)
    <3>1. job'[r].copy = o /\ job'[r].step # "idle" /\ UNCHANGED cache
      BY <1>0, <1>8, <2>1 DEF AddFinalizer, Jobs
    <3>2. o.version = api[r].version + 1
      BY <1>0 DEF Bump, Objects
    <3>3. cache[r].version <= api[r].version
      BY <1>0 DEF Versions, Lags
    <3> QED
      BY <1>0, <3>1, <3>2, <3>3 DEF NotForgotten, Running
  <2> QED
    BY <1>6, <2>1
<1>9. ASSUME RemoveFinalizer(r) PROVE NotForgotten(r)'
  <2>1. CASE ~Retry(r) /\ ~LoseReply(r)
    <3>1. Fresh(r) /\ job'[r] = Idle /\ UNCHANGED cache
      BY <1>0, <1>9, <2>1 DEF RemoveFinalizer, Done
    <3>2. cache[r].phase = "deleting"
      BY <1>0, <1>9, <3>1
         DEF RemoveFinalizer, Fresh, Versions, Lags, Running, FinalizeSteps
    <3> QED
      BY <3>1, <3>2 DEF NotForgotten, Running, Idle
  <2> QED
    BY <1>6, <2>1
<1>g. ASSUME GetSearchIndex(r) PROVE NotForgotten(r)'
  <2>1. CASE ~Retry(r)
    <3>1. /\ job'[r].copy = job[r].copy /\ job'[r].step # "idle" /\ queue' = queue
          /\ r \in Running /\ UNCHANGED <<cache, docs>>
      BY <1>0, <1>g, <2>1 DEF GetSearchIndex, Running, Jobs
    <3> QED
      BY <1>0, <3>1 DEF NotForgotten, Running
  <2> QED
    BY <1>6, <2>1
<1>10. ASSUME GetAccountInfo(r) \/ FindIndex(r) \/ DeleteDocument(r)
             \/ RequestFails(r)
       PROVE  NotForgotten(r)'
  BY <1>6, <1>7, <1>10
     DEF GetAccountInfo, FindIndex, DeleteDocument, RequestFails, Running, Steps
<1>11. ASSUME IndexDocument(r) PROVE NotForgotten(r)'
  <2>1. CASE ~Retry(r) /\ ~LoseReply(r)
    <3>1. /\ job'[r] = Idle /\ UNCHANGED <<cache, queue>>
          /\ DocumentOf(r)' = NewDocument(r)
      BY <1>0, <1>11, <2>1 DEF IndexDocument, Done, DocumentOf
    <3>2. r \in queue \/ NewDocument(r).version >= cache[r].version
      BY <1>0, <1>11 DEF IndexDocument, NotForgotten, Running, NewDocument
    <3> QED
      BY <3>1, <3>2 DEF NotForgotten, Running, Idle
  <2> QED
    BY <1>6, <2>1
<1>12. ASSUME Restart PROVE NotForgotten(r)'
  <2>1. job'[r] = Idle /\ cache'[r].phase = "live" => r \in queue'
    BY <1>12 DEF Restart
  <2> QED
    BY <1>12, <2>1 DEF Restart, NotForgotten, Running, Idle
<1>13. ASSUME UNCHANGED vars PROVE NotForgotten(r)'
  BY <1>0, <1>13, NotedFrame DEF vars, DocumentOf
<1> QED
  BY <1>1, <1>2, <1>3, <1>4, <1>5, <1>8, <1>9, <1>g, <1>10, <1>11, <1>12, <1>13
     DEF Next, Reconcile

(* It holds at the start ...                                               *)
LEMMA InitNoted == Init => AllNoted
BY DEF Init, AllNoted, NotForgotten, Running, Idle, Absent

(* ... and leaves nothing to do for a resource the controller is done with.*)
LEMMA NotedIsFresh ==
  ASSUME DistinctIds, IInv, AllNoted
  PROVE  DocumentsFresh
<1> SUFFICES ASSUME NEW r \in Resources,
                    Quiet(r), api[r].phase = "live", IsDoc(DocumentOf(r))
             PROVE  DocumentOf(r).of = r /\ DocumentOf(r).version = api[r].version
  BY DEF DocumentsFresh
<1>1. /\ DocIdOf[r] \in DocIds
      /\ DocumentOf(r).of \in Resources /\ DocumentOf(r).version \in Nat
      /\ api[r].version \in Nat
  BY ResourcesAssumption
     DEF ResourcesAssumption, IInv, TypeOK, DocumentOf, IsDoc, Docs, Objects
<1>2. DocumentOf(r).of = r /\ DocumentOf(r).version <= api[r].version
  BY <1>1 DEF IInv, InPlace, DistinctIds, DocumentOf
<1>3. DocumentOf(r).version >= api[r].version
  BY DEF AllNoted, NotForgotten, Quiet
<1> QED
  BY <1>1, <1>2, <1>3

(* When no two resources share a document ID, the document about a resource*)
(* that the controller is done with is its own and made from its present   *)
(* content, whatever was lost, retried or restarted on the way.            *)
THEOREM DocumentsAreFresh ==
  ASSUME DistinctIds
  PROVE  Spec => []DocumentsFresh
<1>1. Init => AllNoted
  BY InitNoted
<1>2. IInv /\ AllNoted /\ [Next]_vars => AllNoted'
  BY NextNoted
<1>3. IInv /\ AllNoted => DocumentsFresh
  BY NotedIsFresh
<1> QED
  BY <1>1, <1>2, <1>3, Invariance, PTL DEF Spec

-----------------------------------------------------------------------------
(* Next to the other controllers                                           *)

\* What others do: the SearchIndex goes on and takes documents with its index,
\* and edits and faults are spent on something else.
Foreign ==
  /\ [SearchIndex!Next]_(SearchIndex!vars)
  /\ FollowIndex
  /\ UNCHANGED <<api, cache, queue, job, accountInfos, unfit>>
  /\ edits' \in 0 .. MaxEdits
  /\ faults' \in 0 .. MaxFaults

(* Documents stay, or go with the index.                                   *)
LEMMA ForeignDocuments ==
  ASSUME TypeOK, Foreign, NEW d \in DocIds, IsDoc(docs'[d])
  PROVE  docs'[d] = docs[d] /\ index' = index
BY DEF Foreign, FollowIndex, TypeOK, IsDoc

(* The invariant of the resource controllers stays.                        *)
LEMMA ForeignIInv ==
  ASSUME IInv, Foreign
  PROVE  IInv'
<1>1. TypeOK'
  <2>1. /\ phase' \in {"absent", "live", "deleting"}
        /\ named' \in BOOLEAN /\ index' \in {"none", "made", "auto"}
    BY DEF Foreign, IInv, TypeOK, SearchIndex!vars, SearchIndex!Next, SearchIndex!Create,
         SearchIndex!MakeIndex, SearchIndex!AutoMakeIndex, SearchIndex!Publish,
         SearchIndex!Delete, SearchIndex!DropIndex, SearchIndex!Release
  <2>2. docs' \in [DocIds -> Docs \cup {NoDoc, LostDoc}]
    BY DEF Foreign, FollowIndex, IInv, TypeOK
  <2> QED
    BY <2>1, <2>2 DEF Foreign, IInv, TypeOK
<1>2. ASSUME NEW r \in Resources PROVE Local(r)'
  BY LocalFrame DEF IInv, Local, Foreign
<1>3. ASSUME NEW d \in DocIds PROVE InPlace(d)'
  BY ForeignDocuments DEF IInv, InPlace, Foreign, IsDoc
<1> QED
  BY <1>1, <1>2, <1>3 DEF IInv, Local

(* So does what DocumentsHeld rests on.                                    *)
LEMMA ForeignHeldInv ==
  ASSUME IInv, HeldInv, Foreign
  PROVE  HeldInv'
<1>0. TypeOK /\ UNCHANGED <<api, job>>
  BY DEF IInv, Foreign
<1>1. ASSUME NEW d \in DocIds, IsDoc(docs'[d])
      PROVE  /\ docs'[d] = docs[d] /\ index' = index /\ index # "none"
             /\ docs[d].named /\ index = "made" => named'
  <2>1. /\ docs'[d] = docs[d] /\ index' = index /\ index # "none"
        /\ docs[d].named /\ index = "made" => named
    BY <1>0, <1>1, ForeignDocuments DEF HeldInv, Backed, IsDoc
  <2>2. named /\ index = "made" => named'
    BY <2>1 DEF Foreign, SearchIndex!vars, SearchIndex!Next, SearchIndex!Create,
         SearchIndex!MakeIndex, SearchIndex!AutoMakeIndex, SearchIndex!Publish,
         SearchIndex!Delete, SearchIndex!DropIndex, SearchIndex!Release
  <2> QED
    BY <2>1, <2>2
<1>2. \A r \in Resources : DocIdOf[r] \in DocIds
  BY ResourcesAssumption DEF ResourcesAssumption
<1>3. DocumentsHeld' /\ \A d \in DocIds : Backed(d)'
  BY <1>0, <1>1 DEF HeldInv, DocumentsHeld, Backed, IsDoc
<1>4. ASSUME NEW r \in Resources PROVE Cleaned(r)'
  BY <1>0, <1>1, <1>2 DEF HeldInv, Cleaned, DocumentOf, IsDoc
<1> QED
  BY <1>3, <1>4 DEF HeldInv

(* And what DocumentsFresh rests on.                                       *)
LEMMA ForeignNoted ==
  ASSUME IInv, AllNoted, Foreign
  PROVE  AllNoted'
<1> SUFFICES ASSUME NEW r \in Resources PROVE NotForgotten(r)'
  BY DEF AllNoted
<1>1. DocumentOf(r)' = DocumentOf(r) \/ ~IsDoc(DocumentOf(r)')
  BY ForeignDocuments, ResourcesAssumption
     DEF ResourcesAssumption, IInv, DocumentOf
<1> QED
  BY <1>1, NotedFrame DEF AllNoted, Foreign
=============================================================================

------------------------ MODULE IndexLifecycleProofs ------------------------
(***************************************************************************)
(* Proofs about IndexLifecycle, for every set of SearchIndexes, every spec *)
(* users may set and every bound.                                          *)
(***************************************************************************)
EXTENDS IndexLifecycle, TLAPS

-----------------------------------------------------------------------------
(* Objects and jobs                                                        *)

(* The object operators stay within the objects of the API server.         *)
LEMMA ObjectsClosed ==
  /\ \A v \in Nat : Absent(v) \in Objects
  /\ \A o \in Objects : Bump(o) \in Objects
  /\ \A o \in Objects, s \in Specs : [o EXCEPT !.spec = s] \in Objects
  /\ \A o \in Objects, p \in Phases : [o EXCEPT !.phase = p] \in Objects
  /\ \A o \in Objects : [o EXCEPT !.finalizer = TRUE] \in Objects
  /\ \A o \in Objects : [o EXCEPT !.labelled = TRUE] \in Objects
  /\ \A o \in Objects, x \in IndexNames \cup {NoIndex} :
       [o EXCEPT !.indexName = x] \in Objects
<1> USE DEF Objects, ObjectOf
<1>1. \A v \in Nat : Absent(v) \in Objects
  BY ParametersAssumption DEF ParametersAssumption, Absent, Phases
<1>2. \A o \in Objects : Bump(o) \in Objects
  BY DEF Bump
<1>3. \A o \in Objects, s \in Specs : [o EXCEPT !.spec = s] \in Objects
  OBVIOUS
<1>4. \A o \in Objects, p \in Phases : [o EXCEPT !.phase = p] \in Objects
  OBVIOUS
<1>5. \A o \in Objects : [o EXCEPT !.finalizer = TRUE] \in Objects
  OBVIOUS
<1>6. \A o \in Objects : [o EXCEPT !.labelled = TRUE] \in Objects
  OBVIOUS
<1>7. \A o \in Objects, x \in IndexNames \cup {NoIndex} :
        [o EXCEPT !.indexName = x] \in Objects
  OBVIOUS
<1> QED
  BY <1>1, <1>2, <1>3, <1>4, <1>5, <1>6, <1>7

(* An idle worker is a job.                                                *)
LEMMA IdleIsJob == Idle \in Jobs
BY ObjectsClosed DEF Idle, Jobs, Steps

-----------------------------------------------------------------------------
(* Type correctness                                                        *)

(* The initial state is well typed.                                        *)
LEMMA InitTypeOK == Init => TypeOK
<1> SUFFICES ASSUME Init PROVE TypeOK
  OBVIOUS
<1>1. StoreTypeOK
  BY NamesAssumption DEF NamesAssumption, Init, StoreTypeOK, Settings, NoSettings, AliasNames
<1>2. api \in [SearchIndexes -> Objects] /\ cache \in [SearchIndexes -> Objects]
  BY ObjectsClosed DEF Init
<1>3. job \in [SearchIndexes -> Jobs]
  BY IdleIsJob DEF Init
<1> QED
  BY <1>1, <1>2, <1>3, ParametersAssumption
     DEF ParametersAssumption, Init, TypeOK

(* The requests to OpenSearch keep the store well typed.                   *)
LEMMA StoreStaysTyped ==
  ASSUME StoreTypeOK, NEW x \in IndexNames, NEW a \in AliasNames
  PROVE  /\ \A s \in Settings : PutIndex(x, s) => StoreTypeOK'
         /\ \A r \in Int : PutReplicas(x, r) => StoreTypeOK'
         /\ PutAlias(x, a) => StoreTypeOK'
         /\ DropIndex(x) => StoreTypeOK'
<1>1. \A s \in Settings : PutIndex(x, s) => StoreTypeOK'
  BY DEF StoreTypeOK, PutIndex, Settings, AliasNames
<1>2. \A r \in Int : PutReplicas(x, r) => StoreTypeOK'
  BY DEF StoreTypeOK, PutReplicas, Settings, AliasNames
<1>3. PutAlias(x, a) => StoreTypeOK'
  BY DEF StoreTypeOK, PutAlias, AliasNames
<1>4. DropIndex(x) => StoreTypeOK'
  BY DEF StoreTypeOK, DropIndex, Settings, NoSettings, AliasNames
<1> QED
  BY <1>1, <1>2, <1>3, <1>4

(* A step that sends nothing to OpenSearch changes nothing there.          *)
LEMMA StoreUnchanged == StoreTypeOK /\ UNCHANGED store => StoreTypeOK'
BY DEF StoreTypeOK, store, AliasNames

(* Whatever way a step ends, jobs, queue and fault count stay well typed.  *)
LEMMA EndsStayTyped ==
  ASSUME TypeOK, NEW n \in SearchIndexes
  PROVE  LET Typed == /\ job' \in [SearchIndexes -> Jobs]
                      /\ queue' \subseteq SearchIndexes
                      /\ faults' \in 0 .. MaxFaults
         IN /\ \A s \in Steps : Continue(n, s) => Typed
            /\ Done(n) => Typed
            /\ Retry(n) => Typed
            /\ LoseReply(n) => Typed
<1> DEFINE Typed == /\ job' \in [SearchIndexes -> Jobs]
                    /\ queue' \subseteq SearchIndexes
                    /\ faults' \in 0 .. MaxFaults
<1>1. ASSUME NEW s \in Steps, Continue(n, s) PROVE Typed
  BY <1>1 DEF Continue, TypeOK, Jobs
<1>2. ASSUME Done(n) PROVE Typed
  BY <1>2, IdleIsJob DEF Done, TypeOK
<1>3. ASSUME Retry(n) PROVE Typed
  BY <1>3, IdleIsJob DEF Retry, TypeOK
<1>4. ASSUME LoseReply(n) PROVE Typed
  BY <1>4, IdleIsJob, ParametersAssumption
     DEF ParametersAssumption, LoseReply, TypeOK
<1> QED
  BY <1>1, <1>2, <1>3, <1>4

(* What type correctness says of one SearchIndex.                          *)
LEMMA TypedParts ==
  ASSUME TypeOK, NEW n \in SearchIndexes
  PROVE  /\ api[n] \in Objects /\ api[n].version + 1 \in Nat
         /\ cache[n] \in Objects
         /\ job[n] \in Jobs
         /\ job[n].copy \in Objects
         /\ job[n].use \in IndexNames \cup {NoIndex}
         /\ n \in IndexNames /\ OrgOf[n] \in IndexNames
<1>1. api[n] \in Objects /\ cache[n] \in Objects /\ job[n] \in Jobs
  BY DEF TypeOK
<1>2. api[n].version + 1 \in Nat
  BY <1>1 DEF Objects, ObjectOf
<1>3. job[n].copy \in Objects /\ job[n].use \in IndexNames \cup {NoIndex}
  BY <1>1 DEF Jobs
<1> QED
  BY <1>1, <1>2, <1>3, NamesAssumption DEF NamesAssumption

(* A job that goes on is a job.                                            *)
LEMMA JobsClosed ==
  ASSUME NEW j \in Jobs, NEW s \in Steps
  PROVE  /\ [j EXCEPT !.step = s] \in Jobs
         /\ \A o \in Objects : [j EXCEPT !.step = s, !.copy = o] \in Jobs
         /\ \A x \in IndexNames : [j EXCEPT !.step = s, !.use = x] \in Jobs
         /\ \A b \in BOOLEAN : [j EXCEPT !.step = s, !.synced = b] \in Jobs
BY DEF Jobs

(* Every action keeps the state well typed.                                *)
LEMMA NextTypeOK == TypeOK /\ [Next]_vars => TypeOK'
<1> SUFFICES ASSUME TypeOK, [Next]_vars PROVE TypeOK'
  OBVIOUS
<1> USE DEF Steps, ProcessSteps, FinalizeSteps
<1>0. StoreTypeOK
  BY DEF TypeOK
<1>1. ASSUME NEW n \in SearchIndexes, NEW spec \in Specs,
             CreateSearchIndex(n, spec)
      PROVE  TypeOK'
  <2>1. [Absent(api[n].version + 1) EXCEPT !.phase = "live", !.spec = spec]
          \in Objects
    BY TypedParts, ParametersAssumption
       DEF ParametersAssumption, Objects, ObjectOf, Absent, Phases
  <2> QED
    BY <1>0, <1>1, <2>1, StoreUnchanged, ParametersAssumption
       DEF ParametersAssumption, CreateSearchIndex, AddSearchIndex, TypeOK
<1>2. ASSUME NEW n \in SearchIndexes, NEW spec \in Specs, EditSpec(n, spec)
      PROVE  TypeOK'
  <2>1. Bump([api[n] EXCEPT !.spec = spec]) \in Objects
    BY ObjectsClosed DEF TypeOK
  <2> QED
    BY <1>0, <1>2, <2>1, StoreUnchanged, ParametersAssumption
       DEF ParametersAssumption, EditSpec, TypeOK
<1>3. ASSUME NEW n \in SearchIndexes, DeleteSearchIndex(n)
      PROVE  TypeOK'
  <2>1. /\ Bump([api[n] EXCEPT !.phase = "deleting"]) \in Objects
        /\ Absent(api[n].version + 1) \in Objects
    BY TypedParts, ObjectsClosed DEF Phases
  <2> QED
    BY <1>0, <1>3, <2>1, StoreUnchanged, ParametersAssumption
       DEF ParametersAssumption, DeleteSearchIndex, TypeOK
<1>4. ASSUME NEW n \in SearchIndexes, ReadIndexName(n)
      PROVE  TypeOK'
  <2>1. api[n].indexName \in IndexNames
    BY <1>4 DEF ReadIndexName, TypeOK, Objects, ObjectOf
  <2> QED
    BY <1>0, <1>4, <2>1, StoreUnchanged DEF ReadIndexName, TypeOK
<1>5. ASSUME NEW x \in IndexNames, WriteDocument(x)
      PROVE  TypeOK'
  <2>1. StoreTypeOK'
    <3>1. AutoSettings \in Settings /\ x \in AliasNames
      BY DEF AutoSettings, Settings, AliasNames
    <3> QED
      BY <1>0, <1>5, <3>1, StoreUnchanged, StoreStaysTyped DEF WriteDocument
  <2> QED
    BY <1>5, <2>1 DEF WriteDocument, TypeOK
<1>6. ASSUME NEW n \in SearchIndexes, Observe(n)
      PROVE  TypeOK'
  BY <1>0, <1>6, StoreUnchanged DEF Observe, TypeOK
<1>7. ASSUME NEW n \in SearchIndexes, Begin(n)
      PROVE  TypeOK'
  <2>1. [Idle EXCEPT !.step = FirstStep(cache[n]), !.copy = cache[n]] \in Jobs
    BY IdleIsJob DEF TypeOK, Jobs, FirstStep
  <2> QED
    BY <1>0, <1>7, <2>1, IdleIsJob, StoreUnchanged DEF Begin, TypeOK
<1>8. ASSUME NEW n \in SearchIndexes, AddFinalizer(n)
      PROVE  TypeOK'
  <2> DEFINE o == Bump([api[n] EXCEPT !.finalizer = TRUE])
  <2>1. o \in Objects
    BY ObjectsClosed DEF TypeOK
  <2>2. [job EXCEPT ![n].step = "metadata", ![n].copy = o]
          \in [SearchIndexes -> Jobs]
    BY <2>1 DEF TypeOK, Jobs
  <2>3. api' \in [SearchIndexes -> Objects]
    BY <1>8, <2>1 DEF AddFinalizer, TypeOK
  <2> HIDE DEF o
  <2>4. /\ job' \in [SearchIndexes -> Jobs]
        /\ queue' \subseteq SearchIndexes
        /\ faults' \in 0 .. MaxFaults
    BY <1>8, <2>2, EndsStayTyped DEF AddFinalizer, TypeOK, o
  <2> QED
    BY <1>0, <1>8, <2>3, <2>4, StoreUnchanged DEF AddFinalizer, TypeOK
<1>9. ASSUME NEW n \in SearchIndexes, UpdateStatus(n)
      PROVE  TypeOK'
  <2>1. Bump([api[n] EXCEPT !.indexName = job[n].use]) \in Objects
    BY ObjectsClosed DEF TypeOK, Jobs
  <2>2. api' \in [SearchIndexes -> Objects]
    BY <1>9, <2>1 DEF UpdateStatus, TypeOK
  <2>3. /\ job' \in [SearchIndexes -> Jobs]
        /\ queue' \subseteq SearchIndexes
        /\ faults' \in 0 .. MaxFaults
    BY <1>9, EndsStayTyped DEF UpdateStatus
  <2> QED
    BY <1>0, <1>9, <2>2, <2>3, StoreUnchanged DEF UpdateStatus, TypeOK
<1>10. ASSUME NEW n \in SearchIndexes, RemoveFinalizer(n)
      PROVE  TypeOK'
  <2>1. api' \in [SearchIndexes -> Objects]
    BY <1>10, ObjectsClosed, TypedParts DEF RemoveFinalizer, TypeOK
  <2>2. /\ job' \in [SearchIndexes -> Jobs]
        /\ queue' \subseteq SearchIndexes
        /\ faults' \in 0 .. MaxFaults
    BY <1>10, EndsStayTyped DEF RemoveFinalizer
  <2> QED
    BY <1>0, <1>10, <2>1, <2>2, StoreUnchanged DEF RemoveFinalizer, TypeOK
<1>11. ASSUME NEW n \in SearchIndexes, EnsureMetadata(n)
      PROVE  TypeOK'
  <2>1. Labelled(api[n]) \in Objects
    BY TypedParts, ObjectsClosed DEF Labelled
  <2>2. ASSUME NEW o \in Objects, Proceed(n, o)
        PROVE  /\ job' \in [SearchIndexes -> Jobs]
               /\ queue' \subseteq SearchIndexes
               /\ faults' \in 0 .. MaxFaults
    <3>1. [job[n] EXCEPT !.step = "probeDesired", !.copy = o] \in Jobs
      BY TypedParts, JobsClosed
    <3> QED
      BY <2>2, <3>1, IdleIsJob DEF Proceed, TypeOK
  <2>3. api' \in [SearchIndexes -> Objects]
    BY <1>11, <2>1 DEF EnsureMetadata, TypeOK
  <2>4. /\ job' \in [SearchIndexes -> Jobs]
        /\ queue' \subseteq SearchIndexes
        /\ faults' \in 0 .. MaxFaults
    BY <1>11, <2>1, <2>2, TypedParts, EndsStayTyped DEF EnsureMetadata
  <2> QED
    BY <1>0, <1>11, <2>3, <2>4, StoreUnchanged DEF EnsureMetadata, TypeOK
<1>12. ASSUME NEW n \in SearchIndexes, ProbeDesired(n)
      PROVE  TypeOK'
  <2>1. job' \in [SearchIndexes -> Jobs]
    BY <1>12, IdleIsJob, TypedParts, JobsClosed DEF ProbeDesired, TypeOK
  <2> QED
    BY <1>0, <1>12, <2>1, StoreUnchanged DEF ProbeDesired, TypeOK
<1>13. ASSUME NEW n \in SearchIndexes, ProbeLegacy(n)
      PROVE  TypeOK'
  <2>1. job' \in [SearchIndexes -> Jobs]
    <3>1. /\ [job[n] EXCEPT !.step = "settings", !.use = OrgOf[n]] \in Jobs
          /\ [job[n] EXCEPT !.step = "createProbe", !.use = n] \in Jobs
      BY TypedParts, JobsClosed
    <3>2. \E j \in Jobs : job' = [job EXCEPT ![n] = j]
      BY <1>13, <3>1, IdleIsJob DEF ProbeLegacy
    <3> QED
      BY <3>2 DEF TypeOK
  <2> QED
    BY <1>0, <1>13, <2>1, StoreUnchanged DEF ProbeLegacy, TypeOK
<1>14. ASSUME NEW n \in SearchIndexes, CreateProbe(n)
      PROVE  TypeOK'
  <2>1. job' \in [SearchIndexes -> Jobs]
    BY <1>14, IdleIsJob, TypedParts, JobsClosed
       DEF CreateProbe, IndexExists, TypeOK
  <2> QED
    BY <1>0, <1>14, <2>1, StoreUnchanged DEF CreateProbe, TypeOK
<1>15. ASSUME NEW n \in SearchIndexes, CreateIndex(n)
      PROVE  TypeOK'
  <2>1. NumberOfShards(job[n].copy.spec) \in Int
        /\ NumberOfReplicas(job[n].copy.spec) \in Int
    BY ParametersAssumption
       DEF ParametersAssumption, TypeOK, Jobs, Objects, ObjectOf, Spec0,
           NumberOfShards, NumberOfReplicas
  <2>2. StoreTypeOK'
    BY <1>0, <1>15, <2>1, StoreUnchanged, StoreStaysTyped, NamesAssumption
       DEF NamesAssumption, CreateIndex, Settings, AliasNames
  <2>3. /\ job' \in [SearchIndexes -> Jobs]
        /\ queue' \subseteq SearchIndexes
        /\ faults' \in 0 .. MaxFaults
    BY <1>15, EndsStayTyped DEF CreateIndex, TypeOK, Jobs
  <2> QED
    BY <1>15, <2>2, <2>3 DEF CreateIndex, TypeOK
<1>16. ASSUME NEW n \in SearchIndexes, CheckSettings(n)
      PROVE  TypeOK'
  <2>1. /\ job' \in [SearchIndexes -> Jobs]
        /\ queue' \subseteq SearchIndexes
        /\ faults' \in 0 .. MaxFaults
    BY <1>16, EndsStayTyped DEF CheckSettings
  <2> QED
    BY <1>0, <1>16, <2>1, StoreUnchanged DEF CheckSettings, TypeOK
<1>17. ASSUME NEW n \in SearchIndexes, UpdateReplicas(n)
      PROVE  TypeOK'
  <2>1. NumberOfReplicas(job[n].copy.spec) \in Int
    BY ParametersAssumption
       DEF ParametersAssumption, TypeOK, Jobs, Objects, ObjectOf, Spec0,
           NumberOfReplicas
  <2>2. StoreTypeOK'
    BY <1>0, <1>17, <2>1, StoreUnchanged, StoreStaysTyped
       DEF UpdateReplicas, StoreTypeOK, AliasNames
  <2>3. /\ job' \in [SearchIndexes -> Jobs]
        /\ queue' \subseteq SearchIndexes
        /\ faults' \in 0 .. MaxFaults
    BY <1>17, EndsStayTyped DEF UpdateReplicas, TypeOK, Jobs
  <2> QED
    BY <1>17, <2>2, <2>3 DEF UpdateReplicas, TypeOK
<1>18. ASSUME NEW n \in SearchIndexes, EnsureAllAlias(n)
      PROVE  TypeOK'
  <2>1. StoreTypeOK'
    BY <1>0, <1>18, StoreUnchanged, StoreStaysTyped, NamesAssumption
       DEF NamesAssumption, EnsureAllAlias, StoreTypeOK, AliasNames
  <2>2. /\ job' \in [SearchIndexes -> Jobs]
        /\ queue' \subseteq SearchIndexes
        /\ faults' \in 0 .. MaxFaults
    BY <1>18, EndsStayTyped DEF EnsureAllAlias, ContinueOrLoseReply
  <2> QED
    BY <1>18, <2>1, <2>2 DEF EnsureAllAlias, TypeOK
<1>19. ASSUME NEW n \in SearchIndexes, EnsureCanonicalAlias(n)
      PROVE  TypeOK'
  <2>1. StoreTypeOK'
    BY <1>0, <1>19, StoreUnchanged, StoreStaysTyped, NamesAssumption
       DEF NamesAssumption, EnsureCanonicalAlias, StoreTypeOK, AliasNames
  <2>2. /\ job' \in [SearchIndexes -> Jobs]
        /\ queue' \subseteq SearchIndexes
        /\ faults' \in 0 .. MaxFaults
    BY <1>19, EndsStayTyped DEF EnsureCanonicalAlias, ContinueOrLoseReply
  <2> QED
    BY <1>19, <2>1, <2>2 DEF EnsureCanonicalAlias, TypeOK
<1>21. ASSUME NEW n \in SearchIndexes, DeleteIndex(n)
      PROVE  TypeOK'
  <2>1. StoreTypeOK'
    BY <1>0, <1>21, StoreUnchanged, StoreStaysTyped, NamesAssumption
       DEF NamesAssumption, DeleteIndex, StoreTypeOK, AliasNames
  <2>2. /\ job' \in [SearchIndexes -> Jobs]
        /\ queue' \subseteq SearchIndexes
        /\ faults' \in 0 .. MaxFaults
    BY <1>21, EndsStayTyped DEF DeleteIndex, ContinueOrLoseReply
  <2> QED
    BY <1>21, <2>1, <2>2 DEF DeleteIndex, TypeOK
<1>20. ASSUME NEW n \in SearchIndexes, Finalize(n)
      PROVE  TypeOK'
  BY <1>0, <1>20, StoreUnchanged, EndsStayTyped DEF Finalize, TypeOK
<1>22. ASSUME NEW n \in SearchIndexes, RequestFails(n)
      PROVE  TypeOK'
  BY <1>0, <1>22, StoreUnchanged, EndsStayTyped DEF RequestFails, TypeOK
<1>23. ASSUME Restart
       PROVE  TypeOK'
  BY <1>0, <1>23, StoreUnchanged, IdleIsJob, ParametersAssumption
     DEF ParametersAssumption, Restart, TypeOK
<1>24. ASSUME UNCHANGED vars
       PROVE  TypeOK'
  BY <1>0, <1>24, StoreUnchanged DEF vars, store, TypeOK
<1> QED
  BY <1>1, <1>2, <1>3, <1>4, <1>5, <1>6, <1>7, <1>8, <1>9, <1>10, <1>11,
     <1>12, <1>13, <1>14, <1>15, <1>16, <1>17, <1>18, <1>19, <1>20, <1>21,
     <1>22, <1>23, <1>24
     DEF Next, Users, Process, Finalization

(* Every reachable state is well typed.                                    *)
THEOREM TypeCorrect == Spec => []TypeOK
<1>1. Init => TypeOK
  BY InitTypeOK
<1>2. TypeOK /\ [Next]_vars => TypeOK'
  BY NextTypeOK
<1> QED
  BY <1>1, <1>2, PTL DEF Spec

-----------------------------------------------------------------------------
(* One reconcile per key, versions and finalizers                          *)

Local(n) == OneReconcile(n) /\ Versions(n) /\ Held(n)

AllLocal == \A n \in SearchIndexes : Local(n)

\* What most steps of a reconcile leave alone: the objects, their cached
\* copies, the other reconciles, and the copy this one works on.
Quiet(n) ==
  /\ UNCHANGED <<api, cache>>
  /\ \A k \in SearchIndexes \ {n} : job'[k] = job[k]
  /\ \/ job'[n] = Idle
     \/ /\ job'[n].copy = job[n].copy
        /\ \/ /\ job[n].step \in ProcessSteps \ {"addFinalizer"}
              /\ job'[n].step \in ProcessSteps \ {"addFinalizer"}
           \/ /\ job[n].step \in FinalizeSteps
              /\ job'[n].step \in FinalizeSteps

\* The steps that talk to OpenSearch only, and a failing request.
QuietStep(n) ==
  \/ ProbeDesired(n) \/ ProbeLegacy(n) \/ CreateProbe(n) \/ CreateIndex(n)
  \/ CheckSettings(n) \/ UpdateReplicas(n)
  \/ EnsureAllAlias(n) \/ EnsureCanonicalAlias(n)
  \/ Finalize(n) \/ DeleteIndex(n) \/ RequestFails(n)

(* The steps that talk to OpenSearch are quiet.                            *)
LEMMA QuietSteps ==
  ASSUME TypeOK, NEW n \in SearchIndexes, QuietStep(n)
  PROVE  Quiet(n)
<1> USE DEF ProcessSteps, FinalizeSteps
<1>0. job \in [SearchIndexes -> Jobs]
  BY DEF TypeOK
<1>1. CASE ProbeDesired(n)
  BY <1>0, <1>1 DEF ProbeDesired, Quiet, Jobs
<1>2. CASE ProbeLegacy(n)
  BY <1>0, <1>2 DEF ProbeLegacy, Quiet, Jobs
<1>3. CASE CreateProbe(n)
  BY <1>0, <1>3 DEF CreateProbe, Quiet, Jobs
<1>4. CASE CreateIndex(n)
  BY <1>0, <1>4 DEF CreateIndex, Quiet, LoseReply, Jobs
<1>5. CASE CheckSettings(n)
  BY <1>0, <1>5 DEF CheckSettings, Quiet, Retry, Done, Continue, Jobs
<1>6. CASE UpdateReplicas(n)
  BY <1>0, <1>6 DEF UpdateReplicas, Quiet, Retry, LoseReply, Jobs
<1>7. CASE EnsureAllAlias(n)
  BY <1>0, <1>7
     DEF EnsureAllAlias, Quiet, Retry, ContinueOrLoseReply, Continue,
         LoseReply, Jobs
<1>8. CASE EnsureCanonicalAlias(n)
  BY <1>0, <1>8
     DEF EnsureCanonicalAlias, Quiet, Retry, ContinueOrLoseReply, Continue,
         LoseReply, Jobs
<1>9. CASE Finalize(n)
  BY <1>0, <1>9 DEF Finalize, Quiet, Continue, Jobs
<1>10. CASE DeleteIndex(n)
  BY <1>0, <1>10
     DEF DeleteIndex, Quiet, Retry, ContinueOrLoseReply, Continue,
         LoseReply, Jobs
<1>11. CASE RequestFails(n)
  BY <1>0, <1>11 DEF RequestFails, Quiet, LoseReply
<1> QED
  BY <1>1, <1>2, <1>3, <1>4, <1>5, <1>6, <1>7, <1>8, <1>9, <1>10, <1>11
     DEF QuietStep

(* A SearchIndex that a step does not touch keeps its invariants.          *)
LEMMA LocalFrame ==
  ASSUME NEW n \in SearchIndexes, Local(n),
         api'[n] = api[n], cache'[n] = cache[n], job'[n] = job[n]
  PROVE  Local(n)'
BY DEF Local, OneReconcile, Versions, Held, Lags, Published

(* A worker that becomes idle keeps them too.                              *)
LEMMA LocalIdle ==
  ASSUME NEW n \in SearchIndexes, Local(n),
         api'[n] = api[n], cache'[n] = cache[n], job'[n] = Idle
  PROVE  Local(n)'
BY DEF Local, OneReconcile, Versions, Held, Lags, Published, Idle,
       ProcessSteps, FinalizeSteps

(* Quiet steps keep them.                                                  *)
LEMMA LocalQuiet ==
  ASSUME AllLocal, NEW n \in SearchIndexes, Quiet(n)
  PROVE  AllLocal'
<1>1. ASSUME NEW k \in SearchIndexes \ {n} PROVE Local(k)'
  BY <1>1, LocalFrame DEF Quiet, AllLocal
<1>2. CASE job'[n] = Idle
  BY <1>1, <1>2, LocalIdle DEF Quiet, AllLocal
<1>3. CASE job'[n] # Idle
  <2>1. Local(n)'
    BY <1>3 DEF Quiet, AllLocal, Local, OneReconcile, Versions, Held, Lags,
                Published, ProcessSteps, FinalizeSteps
  <2> QED
    BY <1>1, <2>1 DEF AllLocal
<1> QED
  BY <1>2, <1>3

(* Every step keeps the invariants of every SearchIndex.                   *)
LEMMA NextLocal == TypeOK /\ AllLocal /\ [Next]_vars => AllLocal'
<1> SUFFICES ASSUME TypeOK, AllLocal, [Next]_vars PROVE AllLocal'
  OBVIOUS
<1> USE DEF ProcessSteps, FinalizeSteps
<1>0. /\ api \in [SearchIndexes -> Objects]
      /\ cache \in [SearchIndexes -> Objects]
      /\ job \in [SearchIndexes -> Jobs]
  BY DEF TypeOK
<1>v. \A n \in SearchIndexes :
        /\ Local(n)
        /\ api[n] \in Objects /\ api[n].version \in Nat
        /\ cache[n] \in Objects /\ cache[n].version \in Nat
        /\ job[n].copy \in Objects /\ job[n].copy.version \in Nat
  BY <1>0 DEF AllLocal, Jobs, Objects, ObjectOf
\* It is enough to look at the SearchIndex that the step is about.
<1>f. ASSUME NEW n \in SearchIndexes, Local(n)',
             \A k \in SearchIndexes \ {n} :
               api'[k] = api[k] /\ cache'[k] = cache[k] /\ job'[k] = job[k]
      PROVE  AllLocal'
  <2>1. ASSUME NEW k \in SearchIndexes \ {n} PROVE Local(k)'
    BY <1>v, <1>f, LocalFrame
  <2> QED
    BY <1>f, <2>1 DEF AllLocal
<1>1. ASSUME NEW n \in SearchIndexes, NEW spec \in Specs, CreateSearchIndex(n, spec)
      PROVE  AllLocal'
  <2>1. Local(n)'
    BY <1>0, <1>v, <1>1
       DEF CreateSearchIndex, AddSearchIndex, Absent, Local, OneReconcile, Versions, Held, Lags, Published
  <2> QED
    BY <1>0, <1>f, <1>1, <2>1 DEF CreateSearchIndex, AddSearchIndex
<1>2. ASSUME NEW n \in SearchIndexes, NEW spec \in Specs, EditSpec(n, spec)
      PROVE  AllLocal'
  <2>1. Local(n)'
    BY <1>0, <1>v, <1>2
       DEF EditSpec, Bump, Objects, ObjectOf, Local, OneReconcile, Versions, Held, Lags, Published
  <2> QED
    BY <1>0, <1>f, <1>2, <2>1 DEF EditSpec
<1>3. ASSUME NEW n \in SearchIndexes, DeleteSearchIndex(n)
      PROVE  AllLocal'
  <2>1. Local(n)'
    BY <1>0, <1>v, <1>3
       DEF DeleteSearchIndex, Bump, Absent, Objects, ObjectOf, Local, OneReconcile, Versions, Held, Lags, Published
  <2> QED
    BY <1>0, <1>f, <1>3, <2>1 DEF DeleteSearchIndex
<1>4. ASSUME UNCHANGED <<api, cache, job>>
      PROVE  AllLocal'
  BY <1>v, <1>4, LocalFrame DEF AllLocal
<1>5. ASSUME NEW n \in SearchIndexes, Observe(n)
      PROVE  AllLocal'
  <2>1. Local(n)'
    BY <1>0, <1>v, <1>5 DEF Observe, Local, OneReconcile, Versions, Held, Lags, Published
  <2> QED
    BY <1>0, <1>f, <1>5, <2>1 DEF Observe
<1>6. ASSUME NEW n \in SearchIndexes, Begin(n)
      PROVE  AllLocal'
  <2>1. CASE FirstStep(cache[n]) = "idle"
    BY <1>0, <1>v, <1>6, <2>1, LocalIdle, <1>f DEF Begin
  <2>2. CASE FirstStep(cache[n]) # "idle"
    <3>1. /\ job'[n].copy = cache[n]
          /\ job'[n].step = FirstStep(cache[n])
      BY <1>0, <1>6, <2>2 DEF Begin, Idle
    <3>2. Local(n)'
      BY <1>v, <1>6, <2>2, <3>1
         DEF Begin, FirstStep, Local, OneReconcile, Versions, Held, Lags, Published
    <3> QED
      BY <1>0, <1>f, <1>6, <3>2 DEF Begin
  <2> QED
    BY <2>1, <2>2
<1>7. ASSUME NEW n \in SearchIndexes, AddFinalizer(n)
      PROVE  AllLocal'
  <2>1. CASE Fresh(n)
    <3> DEFINE o == Bump([api[n] EXCEPT !.finalizer = TRUE])
    <3>1. /\ api'[n] = o /\ cache' = cache
          /\ \/ job'[n] = Idle
             \/ job'[n].copy = o /\ job'[n].step = "metadata"
      BY <1>0, <1>7, <2>1 DEF AddFinalizer, LoseReply, Jobs
    <3>2. /\ o.phase = api[n].phase /\ o.version = api[n].version + 1
          /\ o.finalizer /\ o.indexName = api[n].indexName
      BY <1>v DEF Bump, Objects, ObjectOf
    <3>3. api[n].phase = "live"
      BY <1>v, <1>7, <2>1 DEF AddFinalizer, Fresh, Local, OneReconcile, Versions, Held, Lags, Published
    <3> HIDE DEF o
    <3>4. Local(n)'
      BY <1>v, <1>7, <3>1, <3>2, <3>3 DEF AddFinalizer, Idle, Local, OneReconcile, Versions, Held, Lags, Published
    <3> QED
      BY <1>0, <1>f, <1>7, <3>4 DEF AddFinalizer, LoseReply, Retry
  <2>2. CASE ~Fresh(n)
    BY <1>0, <1>v, <1>7, <2>2, <1>f, LocalIdle DEF AddFinalizer, Retry
  <2> QED
    BY <2>1, <2>2
<1>8. ASSUME NEW n \in SearchIndexes, UpdateStatus(n)
      PROVE  AllLocal'
  <2>1. job'[n] = Idle /\ cache' = cache
    BY <1>0, <1>8 DEF UpdateStatus, Done, LoseReply, Retry
  <2>2. CASE api' = api
    BY <1>0, <1>v, <1>8, <2>1, <2>2, <1>f, LocalIdle
       DEF UpdateStatus, Done, LoseReply, Retry
  <2>3. CASE api' # api
    <3> DEFINE o == Bump([api[n] EXCEPT !.indexName = job[n].use])
    <3>1. api'[n] = o
      BY <1>0, <1>8, <2>3 DEF UpdateStatus
    <3>2. /\ o.phase = api[n].phase /\ o.version = api[n].version + 1
          /\ o.finalizer = api[n].finalizer
      BY <1>v DEF Bump, Objects, ObjectOf
    <3> HIDE DEF o
    <3>3. Local(n)'
      BY <1>v, <1>8, <2>1, <3>1, <3>2 DEF UpdateStatus, Idle, Local, OneReconcile, Versions, Held, Lags, Published
    <3> QED
      BY <1>0, <1>f, <1>8, <3>3 DEF UpdateStatus, Done, LoseReply, Retry
  <2> QED
    BY <2>2, <2>3
<1>9. ASSUME NEW n \in SearchIndexes, RemoveFinalizer(n)
      PROVE  AllLocal'
  <2>1. CASE Fresh(n)
    \* The copy is the object, and the cache cannot have moved on either.
    <3>1. cache[n] = api[n] /\ api[n].phase = "deleting"
      BY <1>v, <1>9, <2>1 DEF RemoveFinalizer, Fresh, Local, OneReconcile, Versions, Held, Lags, Published
    <3>2. /\ api'[n] = Absent(api[n].version + 1)
          /\ job'[n] = Idle /\ cache' = cache
      BY <1>0, <1>9, <2>1 DEF RemoveFinalizer, Done, LoseReply
    <3>3. Local(n)'
      BY <1>v, <3>1, <3>2 DEF Idle, Absent, Local, OneReconcile, Versions, Held, Lags, Published
    <3> QED
      BY <1>0, <1>f, <1>9, <3>3 DEF RemoveFinalizer, Done, LoseReply, Retry
  <2>2. CASE ~Fresh(n)
    BY <1>0, <1>v, <1>9, <2>2, <1>f, LocalIdle DEF RemoveFinalizer, Retry
  <2> QED
    BY <2>1, <2>2
<1>10. ASSUME NEW n \in SearchIndexes, EnsureMetadata(n)
       PROVE  AllLocal'
  <2>0. ASSUME NEW o, Proceed(n, o)
        PROVE  /\ \/ job'[n] = Idle
                  \/ job'[n].copy = o /\ job'[n].step = "probeDesired"
               /\ \A k \in SearchIndexes \ {n} : job'[k] = job[k]
    <3>1. job' = [job EXCEPT ![n] = IF o.spec.paused THEN Idle
                    ELSE [job[n] EXCEPT !.step = "probeDesired", !.copy = o]]
      BY <2>0 DEF Proceed
    <3>2. CASE o.spec.paused
      BY <1>0, <3>1, <3>2
    <3>3. CASE ~o.spec.paused
      BY <1>0, <3>1, <3>3 DEF Jobs
    <3> QED
      BY <3>2, <3>3
  <2>1. CASE job[n].copy.labelled
    <3>1. Quiet(n)
      BY <1>0, <1>10, <2>0, <2>1 DEF EnsureMetadata, Quiet
    <3> QED
      BY <3>1, LocalQuiet
  <2>2. CASE ~job[n].copy.labelled
    <3> DEFINE o == Labelled(api[n])
    <3>1. /\ api'[n] = o /\ cache' = cache
          /\ \/ job'[n] = Idle
             \/ job'[n].copy = o /\ job'[n].step = "probeDesired"
      BY <1>0, <1>10, <2>0, <2>2 DEF EnsureMetadata, LoseReply
    <3>2. /\ o.phase = api[n].phase /\ o.version \in Nat
          /\ o = api[n] \/ o.version = api[n].version + 1
          /\ o.finalizer = api[n].finalizer /\ o.indexName = api[n].indexName
      BY <1>v DEF Labelled, Bump, Objects, ObjectOf
    <3> HIDE DEF o
    <3>3. Local(n)'
      BY <1>v, <1>10, <3>1, <3>2 DEF EnsureMetadata, Idle, Local, OneReconcile, Versions, Held, Lags, Published
    <3> QED
      BY <1>0, <1>f, <1>10, <3>3 DEF EnsureMetadata, Proceed, LoseReply
  <2> QED
    BY <2>1, <2>2
<1>11. ASSUME NEW n \in SearchIndexes, QuietStep(n)
       PROVE  AllLocal'
  BY <1>11, QuietSteps, LocalQuiet
<1>12. ASSUME Restart
       PROVE  AllLocal'
  BY <1>0, <1>v, <1>12 DEF Restart, AllLocal, Idle, Local, OneReconcile, Versions, Held, Lags, Published
<1>13. ASSUME NEW n \in SearchIndexes, ReadIndexName(n)
       PROVE  AllLocal'
  BY <1>4, <1>13 DEF ReadIndexName
<1>14. ASSUME NEW x \in IndexNames, WriteDocument(x)
       PROVE  AllLocal'
  BY <1>4, <1>14 DEF WriteDocument
<1> QED
  BY <1>1, <1>2, <1>3, <1>4, <1>5, <1>6, <1>7, <1>8, <1>9, <1>10, <1>11,
     <1>12, <1>13, <1>14
     DEF Next, Users, Process, Finalization, QuietStep, vars

(* The invariants of every SearchIndex hold initially ...                  *)
LEMMA InitLocal == Init => AllLocal
BY DEF Init, AllLocal, Local, OneReconcile, Versions, Held, Lags, Published, Absent,
       Idle, ProcessSteps, FinalizeSteps

(* ... hence always.                                                       *)
LEMMA AlwaysLocal == Spec => [](TypeOK /\ AllLocal)
<1>1. Init => TypeOK /\ AllLocal
  BY InitTypeOK, InitLocal
<1>2. TypeOK /\ AllLocal /\ [Next]_vars => (TypeOK /\ AllLocal)'
  BY NextTypeOK, NextLocal
<1> QED
  BY <1>1, <1>2, PTL DEF Spec

-----------------------------------------------------------------------------
(* What each step does to the indices                                      *)

(* An index appears by a document write that finds it missing, or by the   *)
(* CreateIndex of the SearchIndex whose name it bears.                     *)
LEMMA WhoCreates ==
  ASSUME TypeOK, [Next]_vars, NEW x, x \in indices' \ indices
  PROVE  \/ x \in SearchIndexes /\ CreateIndex(x)
         \/ AutoCreateIndex /\ x \in writing /\ WriteDocument(x)
<1>1. ASSUME NEW n \in SearchIndexes, CreateIndex(n)
      PROVE  x \in SearchIndexes /\ CreateIndex(x)
  BY <1>1 DEF CreateIndex, PutIndex, store
<1>2. ASSUME NEW y \in IndexNames, WriteDocument(y)
      PROVE  AutoCreateIndex /\ x \in writing /\ WriteDocument(x)
  BY <1>2 DEF WriteDocument, PutIndex, store
<1>3. ASSUME NEW n \in SearchIndexes,
             \/ Users(n) \/ ReadIndexName(n) \/ Observe(n) \/ Begin(n)
             \/ AddFinalizer(n) \/ EnsureMetadata(n) \/ ProbeDesired(n)
             \/ ProbeLegacy(n) \/ CreateProbe(n) \/ CheckSettings(n)
             \/ UpdateStatus(n) \/ Finalize(n) \/ RemoveFinalizer(n)
             \/ RequestFails(n) \/ Restart
      PROVE  FALSE
  BY <1>3
     DEF Users, CreateSearchIndex, AddSearchIndex, EditSpec, DeleteSearchIndex, ReadIndexName,
         Observe, Begin, AddFinalizer, EnsureMetadata, ProbeDesired,
         ProbeLegacy, CreateProbe, CheckSettings, UpdateStatus, Finalize,
         RemoveFinalizer, RequestFails, Restart, store
<1>4. ASSUME NEW n \in SearchIndexes,
             \/ UpdateReplicas(n) \/ EnsureAllAlias(n)
             \/ EnsureCanonicalAlias(n) \/ DeleteIndex(n)
      PROVE  FALSE
  BY <1>4
     DEF UpdateReplicas, EnsureAllAlias, EnsureCanonicalAlias, DeleteIndex,
         PutReplicas, PutAlias, DropIndex, store
<1>5. ASSUME Restart \/ UNCHANGED vars PROVE FALSE
  BY <1>5 DEF Restart, vars, store
<1> QED
  BY <1>1, <1>2, <1>3, <1>4, <1>5 DEF Next, Process, Finalization

(* An index is made, with its mapping, by the CreateIndex of the           *)
(* SearchIndex whose name it bears, and remains so as long as it is there. *)
LEMMA WhoMakes ==
  ASSUME TypeOK, [Next]_vars, NEW x
  PROVE  /\ x \in Made' \ Made
              => x \in SearchIndexes /\ CreateIndex(x) /\ x \notin indices
         /\ x \in Made /\ x \in indices' => x \in Made'
<1> DEFINE Same == x \in indices /\ x \in indices' => (x \in Made <=> x \in Made')
<1>0. settings \in [IndexNames -> Settings] /\ indices \subseteq IndexNames
  BY DEF TypeOK, StoreTypeOK
<1>1. ASSUME UNCHANGED store PROVE Same
  BY <1>1 DEF Made, store
<1>2. ASSUME NEW y \in IndexNames, NEW s, y \notin indices, PutIndex(y, s)
      PROVE  Same
  BY <1>0, <1>2 DEF Made, PutIndex
<1>3. ASSUME NEW y \in IndexNames, NEW r, PutReplicas(y, r) PROVE Same
  BY <1>0, <1>3 DEF Made, PutReplicas, Settings
<1>4. ASSUME NEW y, NEW a, PutAlias(y, a) PROVE Same
  BY <1>4 DEF Made, PutAlias
<1>5. ASSUME NEW y \in IndexNames, DropIndex(y) PROVE Same
  BY <1>0, <1>5 DEF Made, DropIndex
<1>6. ASSUME NEW n \in SearchIndexes,
             \/ CreateIndex(n) \/ UpdateReplicas(n) \/ DeleteIndex(n)
             \/ EnsureAllAlias(n) \/ EnsureCanonicalAlias(n)
      PROVE  Same
  <2>1. n \in IndexNames
    BY NamesAssumption DEF NamesAssumption
  <2> QED
    BY <1>0, <1>1, <1>2, <1>3, <1>4, <1>5, <1>6, <2>1
       DEF CreateIndex, UpdateReplicas, DeleteIndex, EnsureAllAlias, EnsureCanonicalAlias
<1>7. ASSUME NEW y \in IndexNames, WriteDocument(y)
      PROVE  Same /\ (x \notin indices => x \notin Made')
  BY <1>0, <1>1, <1>2, <1>7
     DEF WriteDocument, IndexExists, PutIndex, AutoSettings, Made, store
<1>8. ASSUME NEW n \in SearchIndexes,
             \/ Users(n) \/ ReadIndexName(n) \/ Observe(n) \/ Begin(n)
             \/ AddFinalizer(n) \/ EnsureMetadata(n) \/ ProbeDesired(n)
             \/ ProbeLegacy(n) \/ CreateProbe(n) \/ CheckSettings(n)
             \/ UpdateStatus(n) \/ Finalize(n) \/ RemoveFinalizer(n)
             \/ RequestFails(n)
      PROVE  UNCHANGED store
  BY <1>8
     DEF Users, CreateSearchIndex, EditSpec, DeleteSearchIndex, ReadIndexName,
         Observe, Begin, AddFinalizer, EnsureMetadata, ProbeDesired,
         ProbeLegacy, CreateProbe, CheckSettings, UpdateStatus, Finalize,
         RemoveFinalizer, RequestFails
<1>9. ASSUME Restart \/ UNCHANGED vars PROVE UNCHANGED store
  BY <1>9 DEF Restart, vars, store
<1>10. Same
  BY <1>1, <1>6, <1>7, <1>8, <1>9 DEF Next, Process, Finalization
<1>11. ASSUME x \in Made' \ Made
       PROVE  x \in SearchIndexes /\ CreateIndex(x) /\ x \notin indices
  <2>1. x \in indices' \ indices
    BY <1>10, <1>11 DEF Made
  <2>2. ~WriteDocument(x) \/ x \notin IndexNames
    BY <1>7, <1>11, <2>1
  <2> QED
    BY <1>0, <2>1, <2>2, WhoCreates DEF TypeOK
<1> QED
  BY <1>10, <1>11 DEF Made

(* The controller creates an index only while its SearchIndex holds the    *)
(* finalizer, whether OpenSearch creates others or not.                    *)
THEOREM CreationIsGuarded == Spec => CreatedUnderFinalizer
<1>1. ASSUME TypeOK, AllLocal, [Next]_vars
      PROVE  \A n \in SearchIndexes : n \in Made' \ Made => api[n].finalizer
  <2> SUFFICES ASSUME NEW n \in SearchIndexes, n \in Made' \ Made
               PROVE  api[n].finalizer
    OBVIOUS
  <2>1. CreateIndex(n)
    BY <1>1, WhoMakes
  <2> QED
    BY <1>1, <2>1 DEF CreateIndex, AllLocal, Local, Held, ProcessSteps
<1>2. TypeOK /\ AllLocal /\ [Next]_vars
        => [\A n \in SearchIndexes : n \in Made' \ Made => api[n].finalizer]_vars
  BY <1>1
<1> QED
  BY <1>2, AlwaysLocal, PTL DEF Spec, CreatedUnderFinalizer

(* Aliases are put for "<prefix>-all" and for the names of SearchIndexes.  *)
LEMMA WhoAliases ==
  ASSUME TypeOK, [Next]_vars, NEW a \in aliases' \ aliases
  PROVE  a[1] \in SearchIndexes \cup {AllAlias}
<1>1. ASSUME NEW n \in SearchIndexes, EnsureAllAlias(n)
      PROVE  a[1] = AllAlias
  BY <1>1 DEF EnsureAllAlias, PutAlias, store
<1>2. ASSUME NEW n \in SearchIndexes, EnsureCanonicalAlias(n)
      PROVE  a[1] = n
  BY <1>2 DEF EnsureCanonicalAlias, PutAlias, store
<1>3. ASSUME NEW n \in SearchIndexes,
             \/ Users(n) \/ ReadIndexName(n) \/ Observe(n) \/ Begin(n)
             \/ AddFinalizer(n) \/ EnsureMetadata(n) \/ ProbeDesired(n)
             \/ ProbeLegacy(n) \/ CreateProbe(n) \/ CheckSettings(n)
             \/ UpdateStatus(n) \/ Finalize(n) \/ RemoveFinalizer(n)
             \/ RequestFails(n)
      PROVE  FALSE
  BY <1>3
     DEF Users, CreateSearchIndex, AddSearchIndex, EditSpec, DeleteSearchIndex, ReadIndexName,
         Observe, Begin, AddFinalizer, EnsureMetadata, ProbeDesired,
         ProbeLegacy, CreateProbe, CheckSettings, UpdateStatus, Finalize,
         RemoveFinalizer, RequestFails, store
<1>4. ASSUME NEW n \in SearchIndexes,
             CreateIndex(n) \/ UpdateReplicas(n) \/ DeleteIndex(n)
      PROVE  FALSE
  BY <1>4 DEF CreateIndex, UpdateReplicas, DeleteIndex,
              PutIndex, PutReplicas, DropIndex, store
<1>5. ASSUME NEW x \in IndexNames, WriteDocument(x) PROVE FALSE
  BY <1>5 DEF WriteDocument, PutIndex, store
<1>6. ASSUME Restart \/ UNCHANGED vars PROVE FALSE
  BY <1>6 DEF Restart, vars, store
<1> QED
  BY <1>1, <1>2, <1>3, <1>4, <1>5, <1>6 DEF Next, Process, Finalization

-----------------------------------------------------------------------------
(* Which indices a SearchIndex can be given                                *)

Placed == StoreOfNames /\ \A n \in SearchIndexes : AtHome(n)

\* The reconcile of n ends, or goes on with the index it has chosen.
KeepsUse(n) ==
  \/ job'[n] = Idle
  \/ /\ job'[n].use = job[n].use
     /\ job'[n].copy.indexName \in {job[n].copy.indexName, Published(n)}
     /\ job'[n].step \in ChosenSteps => job[n].step \in ChosenSteps

(* A probe that finds an index under a name finds a home.                  *)
LEMMA ProbesFindHomes ==
  ASSUME TypeOK, StoreOfNames, NamesApart, NEW n \in SearchIndexes
  PROVE  /\ n \in Homes(n)
         /\ IndexExists(OrgOf[n]) => OrgOf[n] \in Homes(n)
<1>1. n \in Homes(n)
  BY DEF Homes
<1>2. ASSUME OrgOf[n] \in indices PROVE OrgOf[n] \in Homes(n)
  BY <1>2 DEF StoreOfNames, Names, NamesApart, Homes
<1>3. ASSUME NEW i \in indices, <<OrgOf[n], i>> \in aliases
      PROVE  OrgOf[n] \in Homes(n)
  <2>1. OrgOf[n] \in SearchIndexes \cup {AllAlias}
    BY <1>3 DEF StoreOfNames
  <2>2. OrgOf[n] # AllAlias
    BY TypedParts, NamesAssumption DEF NamesAssumption
  <2> QED
    BY <2>1, <2>2 DEF NamesApart, Homes
<1> QED
  BY <1>1, <1>2, <1>3 DEF IndexExists

(* Every step leaves every index name in play at home.                     *)
LEMMA NextPlaced ==
  ASSUME NamesApart
  PROVE  TypeOK /\ Placed /\ [Next]_vars => Placed'
<1> SUFFICES ASSUME TypeOK, Placed, [Next]_vars PROVE Placed'
  OBVIOUS
<1>0. /\ api \in [SearchIndexes -> Objects]
      /\ cache \in [SearchIndexes -> Objects]
      /\ job \in [SearchIndexes -> Jobs]
  BY DEF TypeOK
<1>h. \A n \in SearchIndexes : AtHome(n) /\ api[n] \in Objects
  BY <1>0 DEF Placed
<1>a. StoreOfNames'
  <2>1. indices' \subseteq Names
    BY WhoCreates DEF Placed, StoreOfNames, Names
  <2>2. \A a \in aliases' : a[1] \in SearchIndexes \cup {AllAlias}
    BY WhoAliases DEF Placed, StoreOfNames
  <2>3. writing' \subseteq Names
    <3>1. \A x \in writing' :
            x \in writing \/ \E n \in SearchIndexes : ReadIndexName(n) /\ x = Published(n)
      <4>1. ASSUME NEW n \in SearchIndexes, ReadIndexName(n)
            PROVE  writing' = writing \cup {Published(n)}
        BY <4>1 DEF ReadIndexName, Published
      <4>2. ASSUME ~\E n \in SearchIndexes : ReadIndexName(n)
            PROVE  writing' \subseteq writing
        BY <4>2 DEF Next, Users, Process, Finalization, CreateSearchIndex, AddSearchIndex,
             EditSpec, DeleteSearchIndex, WriteDocument, Observe, Begin,
             AddFinalizer, EnsureMetadata, ProbeDesired, ProbeLegacy,
             CreateProbe, CreateIndex, CheckSettings, UpdateReplicas,
             EnsureAllAlias, EnsureCanonicalAlias, UpdateStatus, Finalize,
             DeleteIndex, RemoveFinalizer, RequestFails, Restart, vars
      <4> QED
        BY <4>1, <4>2
    <3> QED
      BY <1>h, <3>1 DEF Placed, StoreOfNames, ReadIndexName, AtHome, Homes,
                        Names, Published
  <2> QED
    BY <2>1, <2>2, <2>3 DEF StoreOfNames
\* It is enough to look at the SearchIndex that the step is about ...
<1>f. ASSUME NEW n \in SearchIndexes, AtHome(n)',
             \A k \in SearchIndexes \ {n} :
               api'[k] = api[k] /\ cache'[k] = cache[k] /\ job'[k] = job[k]
      PROVE  Placed'
  <2>1. ASSUME NEW k \in SearchIndexes \ {n} PROVE AtHome(k)'
    BY <1>f, <1>h DEF AtHome, Published
  <2> QED
    BY <1>a, <1>f, <2>1 DEF Placed
\* ... and at what becomes of the names it deals with.
<1>k. ASSUME NEW n \in SearchIndexes, KeepsUse(n),
             api'[n].indexName \in {Published(n), NoIndex, job[n].use},
             cache'[n].indexName \in {cache[n].indexName, Published(n)}
      PROVE  AtHome(n)'
  BY <1>h, <1>k DEF KeepsUse, AtHome, Published, Idle, Absent, ChosenSteps
<1>u. ASSUME UNCHANGED <<api, cache, job>>
      PROVE  Placed'
  BY <1>a, <1>h, <1>u DEF Placed, AtHome, Published
<1> USE DEF ChosenSteps
<1>1. ASSUME NEW n \in SearchIndexes, Users(n)
      PROVE  Placed'
  <2>1. /\ cache' = cache /\ job' = job
        /\ \A k \in SearchIndexes \ {n} : api'[k] = api[k]
    BY <1>0, <1>1
       DEF Users, CreateSearchIndex, AddSearchIndex, EditSpec, DeleteSearchIndex
  <2>2. api'[n].indexName \in {Published(n), NoIndex}
    <3>1. ASSUME NEW spec \in Specs, CreateSearchIndex(n, spec)
          PROVE  api'[n].indexName = NoIndex
      <4>1. api'[n] = [Absent(api[n].version + 1) EXCEPT !.phase = "live",
                                                       !.spec = spec]
        BY <1>0, <3>1 DEF CreateSearchIndex, AddSearchIndex
      <4> QED
        BY <4>1 DEF Absent
    <3>3. ASSUME NEW spec \in Specs, EditSpec(n, spec)
          PROVE  api'[n].indexName = Published(n)
      <4>1. api'[n] = Bump([api[n] EXCEPT !.spec = spec])
        BY <1>0, <3>3 DEF EditSpec
      <4> QED
        BY <1>h, <4>1 DEF Bump, Objects, ObjectOf, Published
    <3>2. DeleteSearchIndex(n) => api'[n].indexName \in {Published(n), NoIndex}
      BY <1>0, <1>h DEF DeleteSearchIndex, Bump, Absent, Objects, ObjectOf,
                        Published
    <3> QED
      BY <1>1, <3>1, <3>2, <3>3 DEF Users
  <2> QED
    BY <1>k, <1>f, <2>1, <2>2 DEF KeepsUse
<1>2. ASSUME NEW n \in SearchIndexes, Observe(n)
      PROVE  Placed'
  BY <1>0, <1>2, <1>k, <1>f DEF Observe, KeepsUse, Published
<1>3. ASSUME NEW n \in SearchIndexes, Begin(n)
      PROVE  Placed'
  <2>1. \/ job'[n] = Idle
        \/ /\ job'[n].copy = cache[n] /\ job'[n].use = NoIndex
           /\ job'[n].step = FirstStep(cache[n])
    BY <1>0, <1>3 DEF Begin, Idle
  <2>2. AtHome(n)'
    BY <1>h, <1>3, <2>1 DEF Begin, AtHome, Published, FirstStep, Idle, Absent
  <2> QED
    BY <1>0, <1>3, <1>f, <2>2 DEF Begin
<1>4. ASSUME NEW n \in SearchIndexes, AddFinalizer(n)
      PROVE  Placed'
  <2> DEFINE o == Bump([api[n] EXCEPT !.finalizer = TRUE])
  <2>1. o.indexName = Published(n)
    BY <1>h DEF Bump, Objects, ObjectOf, Published
  <2>2. \/ job'[n] = Idle
        \/ /\ job'[n].copy = o /\ job'[n].use = job[n].use
           /\ job'[n].step = "metadata"
    BY <1>0, <1>4 DEF AddFinalizer, LoseReply, Retry, Jobs
  <2>3. api'[n] \in {o, api[n]} /\ cache' = cache
    BY <1>0, <1>4 DEF AddFinalizer
  <2> HIDE DEF o
  <2>4. AtHome(n)'
    BY <1>k, <2>1, <2>2, <2>3 DEF KeepsUse, Published
  <2> QED
    BY <1>0, <1>4, <1>f, <2>4 DEF AddFinalizer, LoseReply, Retry
<1>5. ASSUME NEW n \in SearchIndexes, UpdateStatus(n)
      PROVE  Placed'
  <2>1. job'[n] = Idle /\ cache' = cache
    BY <1>0, <1>5 DEF UpdateStatus, Done, LoseReply, Retry
  <2>2. Bump([api[n] EXCEPT !.indexName = job[n].use]).indexName = job[n].use
    BY <1>h DEF Bump, Objects, ObjectOf
  <2>3. api'[n].indexName \in {Published(n), job[n].use}
    BY <1>0, <1>5, <2>2 DEF UpdateStatus, Published
  <2>4. AtHome(n)'
    BY <1>k, <2>1, <2>3 DEF KeepsUse
  <2> QED
    BY <1>0, <1>5, <1>f, <2>4 DEF UpdateStatus, Done, LoseReply, Retry
<1>6. ASSUME NEW n \in SearchIndexes, RemoveFinalizer(n)
      PROVE  Placed'
  <2>1. job'[n] = Idle /\ cache' = cache
    BY <1>0, <1>6 DEF RemoveFinalizer, Done, LoseReply, Retry
  <2>2. api'[n].indexName \in {Published(n), NoIndex}
    BY <1>0, <1>6 DEF RemoveFinalizer, Absent, Published
  <2>3. AtHome(n)'
    BY <1>k, <2>1, <2>2 DEF KeepsUse
  <2> QED
    BY <1>0, <1>6, <1>f, <2>3 DEF RemoveFinalizer, Done, LoseReply, Retry
<1>7. ASSUME NEW n \in SearchIndexes, EnsureMetadata(n)
      PROVE  Placed'
  <2>1. Labelled(api[n]).indexName = Published(n)
    BY <1>h DEF Labelled, Bump, Objects, ObjectOf, Published
  <2>2. ASSUME NEW o, Proceed(n, o),
               o.indexName \in {job[n].copy.indexName, Published(n)}
        PROVE  /\ KeepsUse(n)
               /\ \A k \in SearchIndexes \ {n} : job'[k] = job[k]
    <3>1. job' = [job EXCEPT ![n] = IF o.spec.paused THEN Idle
                    ELSE [job[n] EXCEPT !.step = "probeDesired", !.copy = o]]
      BY <2>2 DEF Proceed
    <3>2. CASE o.spec.paused
      BY <1>0, <3>1, <3>2 DEF KeepsUse
    <3>3. CASE ~o.spec.paused
      BY <1>0, <2>2, <3>1, <3>3 DEF KeepsUse, Jobs
    <3> QED
      BY <3>2, <3>3
  <2>3. /\ KeepsUse(n)
        /\ \A k \in SearchIndexes \ {n} : job'[k] = job[k]
    BY <1>0, <1>7, <2>1, <2>2 DEF EnsureMetadata, LoseReply, KeepsUse
  <2>4. /\ api'[n].indexName = Published(n) /\ cache' = cache
        /\ \A k \in SearchIndexes \ {n} : api'[k] = api[k]
    BY <1>0, <1>7, <2>1 DEF EnsureMetadata, Published
  <2> QED
    BY <1>k, <1>f, <2>3, <2>4
<1>8. ASSUME NEW n \in SearchIndexes, ProbeDesired(n) \/ ProbeLegacy(n)
      PROVE  Placed'
  <2>1. /\ api' = api /\ cache' = cache
        /\ \A k \in SearchIndexes \ {n} : job'[k] = job[k]
        /\ \/ job'[n] = Idle
           \/ /\ job'[n].copy = job[n].copy
              /\ \/ job'[n].use = n
                 \/ job'[n].use = OrgOf[n] /\ IndexExists(OrgOf[n])
                 \/ job'[n].use = job[n].use /\ job'[n].step \notin ChosenSteps
    <3>1. CASE ProbeDesired(n)
      BY <1>0, <3>1 DEF ProbeDesired, Jobs
    <3>2. CASE ProbeLegacy(n)
      BY <1>0, <3>2 DEF ProbeLegacy, Jobs
    <3> QED
      BY <1>8, <3>1, <3>2
  <2>2. AtHome(n)'
    BY <1>h, <2>1, ProbesFindHomes
       DEF Placed, AtHome, Published, Idle, Absent
  <2> QED
    BY <1>f, <2>1, <2>2
<1>9. ASSUME NEW n \in SearchIndexes, QuietStep(n),
             ~ProbeDesired(n), ~ProbeLegacy(n)
      PROVE  Placed'
  <2>1. Quiet(n)
    BY <1>9, QuietSteps
  <2>2. CASE CreateProbe(n) \/ CreateIndex(n) \/ CheckSettings(n)
    <3>1. KeepsUse(n)
      BY <1>0, <2>2 DEF CreateProbe, CreateIndex, CheckSettings, Continue,
                        Done, Retry, LoseReply, KeepsUse, Jobs
    <3> QED
      BY <1>k, <1>f, <2>1, <3>1 DEF Quiet, Published
  <2>3. CASE UpdateReplicas(n) \/ EnsureAllAlias(n) \/ EnsureCanonicalAlias(n)
    <3>1. KeepsUse(n)
      BY <1>0, <2>3 DEF UpdateReplicas, EnsureAllAlias, EnsureCanonicalAlias,
                        ContinueOrLoseReply, Continue, Retry, LoseReply,
                        KeepsUse, Jobs
    <3> QED
      BY <1>k, <1>f, <2>1, <3>1 DEF Quiet, Published
  <2>4. CASE Finalize(n) \/ DeleteIndex(n) \/ RequestFails(n)
    <3>1. KeepsUse(n)
      BY <1>0, <2>4 DEF Finalize, DeleteIndex, RequestFails,
                        ContinueOrLoseReply, Continue, Retry, LoseReply,
                        KeepsUse, Jobs
    <3> QED
      BY <1>k, <1>f, <2>1, <3>1 DEF Quiet, Published
  <2> QED
    BY <1>9, <2>2, <2>3, <2>4 DEF QuietStep
<1>10. ASSUME Restart
       PROVE  Placed'
  <2>1. api' = api /\ cache' = api /\ \A n \in SearchIndexes : job'[n] = Idle
    BY <1>10 DEF Restart
  <2>2. \A n \in SearchIndexes : AtHome(n)'
    BY <1>k, <2>1 DEF KeepsUse, Published
  <2> QED
    BY <1>a, <2>2 DEF Placed
<1>11. ASSUME NEW n \in SearchIndexes, ReadIndexName(n)
       PROVE  Placed'
  BY <1>u, <1>11 DEF ReadIndexName
<1>12. ASSUME NEW x \in IndexNames, WriteDocument(x)
       PROVE  Placed'
  BY <1>u, <1>12 DEF WriteDocument
<1> QED
  BY <1>u, <1>1, <1>2, <1>3, <1>4, <1>5, <1>6, <1>7, <1>8, <1>9, <1>10,
     <1>11, <1>12
     DEF Next, Process, Finalization, QuietStep, vars

(* The inductive invariant holds at first ...                              *)
LEMMA InitIInv == Init => IInv
<1>1. Init => Placed
  BY DEF Init, Placed, StoreOfNames, AtHome, Published, Names, Homes, Idle,
         Absent, ChosenSteps
<1>2. Init => TypeOK /\ AllLocal
  BY InitTypeOK, InitLocal
<1> QED
  BY <1>1, <1>2 DEF IInv, AllLocal, Local, Placed

(* ... and every step keeps it.                                            *)
LEMMA NextIInv ==
  ASSUME NamesApart
  PROVE  IInv /\ [Next]_vars => IInv'
<1> SUFFICES ASSUME IInv, [Next]_vars PROVE IInv'
  OBVIOUS
<1>1. TypeOK /\ AllLocal /\ Placed
  BY DEF IInv, AllLocal, Local, Placed
<1>2. TypeOK' /\ AllLocal' /\ Placed'
  BY <1>1, NextTypeOK, NextLocal, NextPlaced
<1> QED
  BY <1>2 DEF IInv, AllLocal, Local, Placed

(* The inductive invariant holds of every behaviour.                       *)
THEOREM Invariance ==
  ASSUME NamesApart
  PROVE  Spec => []IInv
<1>1. Init => IInv
  BY InitIInv
<1>2. IInv /\ [Next]_vars => IInv'
  BY NextIInv
<1> QED
  BY <1>1, <1>2, PTL DEF Spec

-----------------------------------------------------------------------------
(* What a status names                                                     *)

(* Indices and aliases vanish only by DeleteIndex, which drops the index   *)
(* that the status named when Finalize read it.                            *)
LEMMA WhoDrops ==
  ASSUME TypeOK, [Next]_vars
  PROVE  \/ indices \subseteq indices' /\ aliases \subseteq aliases'
         \/ \E m \in SearchIndexes :
              /\ DeleteIndex(m)
              /\ DropIndex(job[m].copy.indexName)
              /\ job[m].copy.indexName \in indices
<1> DEFINE Grows == indices \subseteq indices' /\ aliases \subseteq aliases'
<1>1. ASSUME NEW n \in SearchIndexes,
             \/ Users(n) \/ ReadIndexName(n) \/ Observe(n) \/ Begin(n)
             \/ AddFinalizer(n) \/ EnsureMetadata(n) \/ ProbeDesired(n)
             \/ ProbeLegacy(n) \/ CreateProbe(n) \/ CheckSettings(n)
             \/ UpdateStatus(n) \/ Finalize(n) \/ RemoveFinalizer(n)
             \/ RequestFails(n)
      PROVE  Grows
  BY <1>1
     DEF Users, CreateSearchIndex, AddSearchIndex, EditSpec, DeleteSearchIndex, ReadIndexName,
         Observe, Begin, AddFinalizer, EnsureMetadata, ProbeDesired,
         ProbeLegacy, CreateProbe, CheckSettings, UpdateStatus, Finalize,
         RemoveFinalizer, RequestFails, store
<1>2. ASSUME NEW n \in SearchIndexes,
             \/ CreateIndex(n) \/ UpdateReplicas(n)
             \/ EnsureAllAlias(n) \/ EnsureCanonicalAlias(n)
      PROVE  Grows
  BY <1>2 DEF CreateIndex, UpdateReplicas, EnsureAllAlias,
              EnsureCanonicalAlias, PutIndex, PutReplicas, PutAlias, store
<1>3. ASSUME NEW x \in IndexNames, WriteDocument(x) PROVE Grows
  BY <1>3 DEF WriteDocument, PutIndex, store
<1>4. ASSUME Restart \/ UNCHANGED vars PROVE Grows
  BY <1>4 DEF Restart, vars, store
<1>5. ASSUME NEW n \in SearchIndexes, DeleteIndex(n)
      PROVE  \/ Grows
             \/ /\ DropIndex(job[n].copy.indexName)
                /\ job[n].copy.indexName \in indices
  BY <1>5 DEF DeleteIndex, store
<1> QED
  BY <1>1, <1>2, <1>3, <1>4, <1>5 DEF Next, Process, Finalization

(* A live SearchIndex gets the index name in its status by UpdateStatus.   *)
LEMMA WhoPublishes ==
  ASSUME TypeOK, [Next]_vars, NEW n \in SearchIndexes,
         api'[n].phase = "live", Published(n)' # NoIndex
  PROVE  \/ api[n].phase = "live" /\ Published(n)' = Published(n)
         \/ job[n].step = "status" /\ Published(n)' = job[n].use
<1>0. /\ api \in [SearchIndexes -> Objects]
      /\ job \in [SearchIndexes -> Jobs]
      /\ \A k \in SearchIndexes : api[k] \in Objects
  BY DEF TypeOK
<1> DEFINE Same == api'[n].phase = api[n].phase /\ Published(n)' = Published(n)
<1>1. ASSUME NEW m \in SearchIndexes, m # n,
             Users(m) \/ AddFinalizer(m) \/ EnsureMetadata(m)
             \/ UpdateStatus(m) \/ RemoveFinalizer(m)
      PROVE  Same
  BY <1>0, <1>1 DEF Users, CreateSearchIndex, AddSearchIndex, EditSpec, DeleteSearchIndex,
       AddFinalizer, EnsureMetadata, UpdateStatus, RemoveFinalizer, Published
<1>2. ASSUME UNCHANGED api PROVE Same
  BY <1>2 DEF Published
<1>3. ASSUME NEW spec \in Specs, CreateSearchIndex(n, spec) PROVE FALSE
  <2>1. api'[n] = [Absent(api[n].version + 1) EXCEPT !.phase = "live",
                                                   !.spec = spec]
    BY <1>0, <1>3 DEF CreateSearchIndex, AddSearchIndex
  <2> QED
    BY <2>1 DEF Absent, Published
<1>4. ASSUME NEW spec \in Specs, EditSpec(n, spec) PROVE Same
  <2>1. api'[n] = Bump([api[n] EXCEPT !.spec = spec])
    BY <1>0, <1>4 DEF EditSpec
  <2> QED
    BY <1>0, <2>1 DEF Bump, Objects, ObjectOf, Published
<1>5. ASSUME DeleteSearchIndex(n) PROVE FALSE
  BY <1>0, <1>5 DEF DeleteSearchIndex, Bump, Absent, Objects, ObjectOf
<1>6. ASSUME AddFinalizer(n) PROVE Same
  <2>1. api'[n] \in {api[n], Bump([api[n] EXCEPT !.finalizer = TRUE])}
    BY <1>0, <1>6 DEF AddFinalizer
  <2> QED
    BY <1>0, <2>1 DEF Bump, Objects, ObjectOf, Published
<1>7. ASSUME EnsureMetadata(n) PROVE Same
  <2>1. api'[n] \in {api[n], Labelled(api[n])}
    BY <1>0, <1>7 DEF EnsureMetadata
  <2> QED
    BY <1>0, <2>1 DEF Labelled, Bump, Objects, ObjectOf, Published
<1>8. ASSUME UpdateStatus(n)
      PROVE  \/ Same
             \/ job[n].step = "status" /\ Published(n)' = job[n].use
  <2>1. api'[n] \in {api[n], Bump([api[n] EXCEPT !.indexName = job[n].use])}
    BY <1>0, <1>8 DEF UpdateStatus
  <2> QED
    BY <1>0, <1>8, <2>1 DEF UpdateStatus, Bump, Objects, ObjectOf, Published
<1>9. ASSUME RemoveFinalizer(n) PROVE Same
  BY <1>0, <1>9 DEF RemoveFinalizer, Absent, Published
<1>10. ASSUME NEW m \in SearchIndexes,
              ReadIndexName(m) \/ Observe(m) \/ Begin(m) \/ QuietStep(m)
       PROVE  UNCHANGED api
  BY <1>10, QuietSteps DEF Quiet, ReadIndexName, Observe, Begin
<1>11. ASSUME Restart \/ (\E x \in IndexNames : WriteDocument(x)) \/ UNCHANGED vars
       PROVE  UNCHANGED api
  BY <1>11 DEF Restart, WriteDocument, vars
<1>12. ASSUME Users(n) PROVE Same
  BY <1>3, <1>4, <1>5, <1>12 DEF Users
<1> QED
  BY <1>1, <1>2, <1>6, <1>7, <1>8, <1>9, <1>10, <1>11, <1>12
     DEF Next, Process, Finalization, QuietStep

(* Process gets to the canonical alias and to the status only past the     *)
(* alias "<prefix>-all", and Finalize to the release only past the index.  *)
LEMMA WhoAdvances ==
  ASSUME TypeOK, [Next]_vars, NEW n \in SearchIndexes,
         job'[n].step \in {"aliasCanonical", "status", "removeFinalizer"}
  PROVE  \/ job'[n] = job[n]
         \/ /\ job'[n].use = job[n].use
            /\ job'[n].copy = job[n].copy
            /\ \/ /\ job'[n].step \in {"aliasCanonical", "status"}
                  /\ \/ /\ EnsureAllAlias(n)
                        /\ job[n].use \in indices
                        /\ PutAlias(job[n].use, AllAlias)
                     \/ job[n].step = "aliasCanonical"
               \/ /\ job'[n].step = "removeFinalizer"
                  /\ job[n].copy.indexName \notin indices'
<1>0. job \in [SearchIndexes -> Jobs]
  BY DEF TypeOK
<1> DEFINE Kept == job'[n].use = job[n].use /\ job'[n].copy = job[n].copy
           Same == job'[n] = job[n]
<1>1. ASSUME NEW m \in SearchIndexes, m # n, Process(m) \/ Finalization(m)
      PROVE  Same
  <2>1. CASE QuietStep(m)
    BY <1>1, <2>1, QuietSteps DEF Quiet
  <2>2. CASE AddFinalizer(m)
    BY <1>0, <1>1, <2>2 DEF AddFinalizer, LoseReply, Retry
  <2>3. CASE EnsureMetadata(m)
    BY <1>0, <1>1, <2>3 DEF EnsureMetadata, Proceed, LoseReply
  <2>4. CASE UpdateStatus(m) \/ RemoveFinalizer(m)
    BY <1>0, <1>1, <2>4
       DEF UpdateStatus, RemoveFinalizer, Done, LoseReply, Retry
  <2> QED
    BY <1>1, <2>1, <2>2, <2>3, <2>4 DEF Process, Finalization, QuietStep
<1>2. ASSUME NEW m \in SearchIndexes,
             Users(m) \/ ReadIndexName(m) \/ Observe(m)
      PROVE  Same
  BY <1>2 DEF Users, CreateSearchIndex, AddSearchIndex, EditSpec, DeleteSearchIndex,
              ReadIndexName, Observe
<1>3. ASSUME NEW m \in SearchIndexes, Begin(m) PROVE Same
  BY <1>0, <1>3 DEF Begin, Idle, FirstStep
<1>4. ASSUME (\E x \in IndexNames : WriteDocument(x)) \/ UNCHANGED vars
      PROVE  Same
  BY <1>4 DEF WriteDocument, vars
<1>5. ASSUME \/ Restart \/ RequestFails(n)
             \/ UpdateStatus(n) \/ RemoveFinalizer(n)
      PROVE  FALSE
  BY <1>0, <1>5 DEF Restart, RequestFails, UpdateStatus, RemoveFinalizer,
                    Done, LoseReply, Retry, Idle
<1>6. ASSUME NEW m \in SearchIndexes, m # n, RequestFails(m) PROVE Same
  BY <1>6, QuietSteps DEF QuietStep, Quiet
<1>7. ASSUME AddFinalizer(n) PROVE FALSE
  BY <1>0, <1>7 DEF AddFinalizer, LoseReply, Retry, Idle, Jobs
<1>8. ASSUME EnsureMetadata(n) PROVE FALSE
  <2>1. ASSUME NEW o, Proceed(n, o) PROVE FALSE
    <3>1. job' = [job EXCEPT ![n] = IF o.spec.paused THEN Idle
                    ELSE [job[n] EXCEPT !.step = "probeDesired", !.copy = o]]
      BY <2>1 DEF Proceed
    <3>2. CASE o.spec.paused
      BY <1>0, <3>1, <3>2 DEF Idle
    <3>3. CASE ~o.spec.paused
      BY <1>0, <3>1, <3>3 DEF Jobs
    <3> QED
      BY <3>2, <3>3
  <2> QED
    BY <1>0, <1>8, <2>1 DEF EnsureMetadata, LoseReply, Idle
<1>9. ASSUME \/ ProbeDesired(n) \/ ProbeLegacy(n) \/ CreateProbe(n)
             \/ CreateIndex(n) \/ CheckSettings(n) \/ UpdateReplicas(n)
      PROVE  FALSE
  <2>0. CASE ProbeLegacy(n)
    <3>1. job'[n] = Idle \/ job'[n].step \in {"settings", "createProbe"}
      BY <1>0, <2>0 DEF ProbeLegacy, Jobs
    <3> QED
      BY <3>1 DEF Idle
  <2>1. CASE ProbeDesired(n) \/ CreateProbe(n)
    <3>1. CASE ProbeDesired(n)
      BY <1>0, <3>1 DEF ProbeDesired, Jobs
    <3>2. CASE CreateProbe(n)
      BY <1>0, <3>2 DEF CreateProbe, IndexExists, Jobs
    <3> QED
      BY <2>1, <3>1, <3>2
  <2>2. CASE CreateIndex(n) \/ UpdateReplicas(n)
    BY <1>0, <2>2 DEF CreateIndex, UpdateReplicas, Retry, LoseReply, Idle, Jobs
  <2>3. CASE CheckSettings(n)
    BY <1>0, <2>3 DEF CheckSettings, Continue, Done, Retry, Idle, Jobs
  <2> QED
    BY <1>9, <2>0, <2>1, <2>2, <2>3
<1>10. ASSUME EnsureAllAlias(n)
       PROVE  /\ Kept
              /\ job'[n].step \in {"aliasCanonical", "status"}
              /\ job[n].use \in indices
              /\ PutAlias(job[n].use, AllAlias)
  BY <1>0, <1>10 DEF EnsureAllAlias, ContinueOrLoseReply, Continue, Retry,
                     LoseReply, Idle, Jobs
<1>11. ASSUME EnsureCanonicalAlias(n)
       PROVE  /\ Kept
              /\ job'[n].step = "status" /\ job[n].step = "aliasCanonical"
  BY <1>0, <1>11 DEF EnsureCanonicalAlias, ContinueOrLoseReply, Continue,
                     Retry, LoseReply, Idle, Jobs
<1>12. ASSUME Finalize(n) \/ DeleteIndex(n)
       PROVE  /\ Kept
              /\ job'[n].step = "removeFinalizer"
              /\ job[n].copy.indexName \notin indices'
  <2>1. NoIndex \notin indices
    BY NamesAssumption DEF NamesAssumption, TypeOK, StoreTypeOK
  <2>2. CASE Finalize(n)
    BY <1>0, <2>1, <2>2 DEF Finalize, Continue, IndexExists, store, Jobs
  <2>3. CASE DeleteIndex(n)
    BY <1>0, <2>3 DEF DeleteIndex, ContinueOrLoseReply, Continue, Retry,
                      LoseReply, DropIndex, Idle, Jobs
  <2> QED
    BY <1>12, <2>2, <2>3
<1> QED
  BY <1>1, <1>2, <1>3, <1>4, <1>5, <1>6, <1>7, <1>8, <1>9, <1>10, <1>11, <1>12
     DEF Next, Process, Finalization

(* Two SearchIndexes cannot be given the same index, unless a legacy index *)
(* serves both.                                                            *)
LEMMA HomesDisjoint ==
  ASSUME SoleTenant, NEW m \in SearchIndexes, NEW n \in SearchIndexes, m # n
  PROVE  Homes(m) \cap Homes(n) = {}
BY DEF SoleTenant, NamesApart, Homes

StatusOK ==
  \A n \in SearchIndexes :
    /\ AboutToPublish(n)
    /\ api[n].phase = "live" /\ Published(n) # NoIndex
         => Published(n) \in indices /\ <<AllAlias, Published(n)>> \in aliases

(* Every step keeps what is published, or about to be, in place.           *)
LEMMA NextStatusOK ==
  ASSUME SoleTenant
  PROVE  IInv /\ StatusOK /\ [Next]_vars => StatusOK'
<1> SUFFICES ASSUME IInv, StatusOK, [Next]_vars, NEW n \in SearchIndexes
             PROVE  /\ AboutToPublish(n)'
                    /\ api'[n].phase = "live" /\ Published(n)' # NoIndex
                         => /\ Published(n)' \in indices'
                            /\ <<AllAlias, Published(n)'>> \in aliases'
  BY DEF StatusOK
<1> DEFINE Ready(x) == x \in indices /\ <<AllAlias, x>> \in aliases
<1>0. TypeOK /\ AtHome(n) /\ OneReconcile(n) /\ AboutToPublish(n)
  BY DEF IInv, StatusOK
<1>n. NoIndex \notin indices
  BY <1>0, NamesAssumption DEF NamesAssumption, TypeOK, StoreTypeOK
\* An index of another SearchIndex's may be dropped, none of this one's while
\* it is live or in Process.
<1>1. ASSUME NEW x \in Homes(n), Ready(x),
             \/ api'[n].phase = "live" /\ api[n].phase = "live" /\ Published(n) = x
             \/ job[n].step \in ProcessSteps
      PROVE  Ready(x)'
  <2>1. CASE indices \subseteq indices' /\ aliases \subseteq aliases'
    BY <1>1, <2>1
  <2>2. ASSUME NEW m \in SearchIndexes, DeleteIndex(m),
               DropIndex(job[m].copy.indexName),
               job[m].copy.indexName \in indices
        PROVE  Ready(x)'
    <3>1. job[m].copy.indexName \in Homes(m)
      BY <1>n, <2>2 DEF IInv, AtHome
    <3>2. m # n
      BY <1>0, <1>1, <1>n, <2>2
         DEF DeleteIndex, OneReconcile, Published, ProcessSteps, FinalizeSteps
    <3>3. x # job[m].copy.indexName
      BY <1>1, <3>1, <3>2, HomesDisjoint
    <3> QED
      BY <1>1, <2>2, <3>3 DEF DropIndex
  <2> QED
    BY <1>0, <2>1, <2>2, WhoDrops
<1>2. AboutToPublish(n)'
  <2> SUFFICES ASSUME job'[n].step \in {"aliasCanonical", "status"},
                      NEW x, x = job[n].use
               PROVE  Ready(x)' /\ job'[n].use = x
    BY DEF AboutToPublish
  <2>1. job'[n].use = x
    BY <1>0, WhoAdvances
  <2>2. CASE job[n].step \in {"aliasCanonical", "status"}
    <3>1. x \in Homes(n) /\ Ready(x)
      BY <1>0, <2>2 DEF AtHome, ChosenSteps, AboutToPublish
    <3> QED
      BY <1>1, <2>1, <2>2, <3>1 DEF ProcessSteps
  <2>3. CASE job[n].step \notin {"aliasCanonical", "status"}
    <3>1. x \in indices /\ PutAlias(x, AllAlias)
      BY <1>0, <2>3, WhoAdvances
    <3> QED
      BY <2>1, <3>1 DEF PutAlias
  <2> QED
    BY <2>2, <2>3
<1>3. ASSUME api'[n].phase = "live", Published(n)' # NoIndex,
             NEW x, x = Published(n)'
      PROVE  Ready(x)'
  <2>1. CASE api[n].phase = "live" /\ Published(n)' = Published(n)
    <3>1. Published(n) = x /\ x \in Homes(n) /\ Ready(x)
      BY <1>0, <1>3, <2>1 DEF AtHome, StatusOK
    <3> QED
      BY <1>1, <1>3, <2>1, <3>1
  <2>2. CASE job[n].step = "status" /\ Published(n)' = job[n].use
    <3>1. x \in Homes(n) /\ Ready(x)
      BY <1>0, <1>3, <2>2 DEF AtHome, ChosenSteps, AboutToPublish
    <3> QED
      BY <1>1, <2>2, <3>1 DEF ProcessSteps
  <2> QED
    BY <1>0, <1>3, <2>1, <2>2, WhoPublishes
<1> QED
  BY <1>2, <1>3

(* When no legacy index serves two SearchIndexes, the index a live         *)
(* SearchIndex publishes exists, with automatic creation or without.       *)
THEOREM StatusIsBacked ==
  ASSUME SoleTenant
  PROVE  Spec => []StatusBacked
<1>1. Init => StatusOK
  BY DEF Init, StatusOK, AboutToPublish, Absent, Idle
<1>2. IInv /\ StatusOK /\ [Next]_vars => StatusOK'
  BY NextStatusOK
<1>3. StatusOK => StatusBacked
  BY DEF StatusOK, StatusBacked
<1>4. Spec => []IInv
  BY Invariance DEF SoleTenant
<1> QED
  BY <1>1, <1>2, <1>3, <1>4, PTL DEF Spec

(* ... and is searched by those who query the alias "<prefix>-all".        *)
THEOREM StatusIsSearchable ==
  ASSUME SoleTenant
  PROVE  Spec => []StatusSearchable
<1>1. Init => StatusOK
  BY DEF Init, StatusOK, AboutToPublish, Absent, Idle
<1>2. IInv /\ StatusOK /\ [Next]_vars => StatusOK'
  BY NextStatusOK
<1>3. StatusOK => StatusSearchable
  BY DEF StatusOK, StatusSearchable
<1>4. Spec => []IInv
  BY Invariance DEF SoleTenant
<1> QED
  BY <1>1, <1>2, <1>3, <1>4, PTL DEF Spec

-----------------------------------------------------------------------------
(* The release of a SearchIndex                                            *)

(* A SearchIndex under deletion is released by RemoveFinalizer only.       *)
LEMMA WhoReleases ==
  ASSUME TypeOK, [Next]_vars, NEW n \in SearchIndexes,
         api[n].phase = "deleting", api'[n].phase = "absent"
  PROVE  RemoveFinalizer(n) /\ api' # api
<1>0. /\ api \in [SearchIndexes -> Objects]
      /\ \A k \in SearchIndexes : api[k] \in Objects
  BY DEF TypeOK
<1>1. api' # api /\ api'[n] # api[n]
  OBVIOUS
<1>2. ASSUME NEW m \in SearchIndexes,
             ReadIndexName(m) \/ Observe(m) \/ Begin(m) \/ QuietStep(m)
      PROVE  FALSE
  BY <1>1, <1>2, QuietSteps DEF Quiet, ReadIndexName, Observe, Begin
<1>3. ASSUME \/ Restart \/ UNCHANGED vars
             \/ \E x \in IndexNames : WriteDocument(x)
      PROVE  FALSE
  BY <1>1, <1>3 DEF Restart, WriteDocument, vars
<1>4. ASSUME NEW m \in SearchIndexes, Users(m) PROVE FALSE
  BY <1>0, <1>1, <1>4
     DEF Users, CreateSearchIndex, AddSearchIndex, EditSpec, DeleteSearchIndex
<1>5. ASSUME NEW m \in SearchIndexes, m # n,
             AddFinalizer(m) \/ EnsureMetadata(m) \/ UpdateStatus(m)
             \/ RemoveFinalizer(m)
      PROVE  FALSE
  BY <1>0, <1>1, <1>5
     DEF AddFinalizer, EnsureMetadata, UpdateStatus, RemoveFinalizer
<1>6. ASSUME AddFinalizer(n) \/ EnsureMetadata(n) \/ UpdateStatus(n)
      PROVE  FALSE
  <2>1. api'[n] \in {api[n], Bump([api[n] EXCEPT !.finalizer = TRUE]),
                     Labelled(api[n]),
                     Bump([api[n] EXCEPT !.indexName = job[n].use])}
    BY <1>0, <1>6 DEF AddFinalizer, EnsureMetadata, UpdateStatus
  <2> QED
    BY <1>0, <2>1 DEF Bump, Labelled, Objects, ObjectOf
<1> QED
  BY <1>1, <1>2, <1>3, <1>4, <1>5, <1>6
     DEF Next, Process, Finalization, QuietStep

(* Nobody makes the index again that Finalize has seen go.                 *)
LEMMA NextCleanedUp ==
  ASSUME NamesApart
  PROVE  /\ IInv
         /\ \A n \in SearchIndexes : CleanedUp(n)
         /\ [Next]_vars
         => \A n \in SearchIndexes : CleanedUp(n)'
<1> SUFFICES ASSUME IInv, [Next]_vars, NEW n \in SearchIndexes, CleanedUp(n),
                    job'[n].step = "removeFinalizer"
             PROVE  job'[n].copy.indexName \notin Made'
  BY DEF CleanedUp
<1>0. TypeOK /\ AtHome(n)
  BY DEF IInv
<1>1. CASE job'[n] = job[n]
  <2> DEFINE x == job[n].copy.indexName
  <2>1. x \notin Made
    BY <1>1 DEF CleanedUp
  <2> SUFFICES ASSUME x \in Made' PROVE FALSE
    BY <1>1
  <2>2. x \in SearchIndexes /\ CreateIndex(x)
    BY <1>0, <2>1, WhoMakes
  <2>3. x = n
    BY <1>0, <2>2, NamesAssumption
       DEF NamesAssumption, AtHome, Homes, NamesApart
  <2> QED
    BY <1>1, <2>2, <2>3 DEF CreateIndex
<1>2. CASE job'[n] # job[n]
  BY <1>0, <1>2, WhoAdvances DEF Made
<1> QED
  BY <1>1, <1>2

(* A SearchIndex that published an index leaves the API server only when   *)
(* that index is gone, shared or not; what OpenSearch may have made anew   *)
(* of a late document is not that index.                                   *)
THEOREM ReleaseIsGuarded ==
  ASSUME NamesApart
  PROVE  Spec => ReleasedOnlyAfterCleanup
<1> DEFINE AllCleanedUp == \A n \in SearchIndexes : CleanedUp(n)
           Guarded == \A n \in SearchIndexes :
                        /\ api[n].phase = "deleting" /\ api'[n].phase = "absent"
                        /\ Published(n) # NoIndex
                        => Published(n) \notin Made
<1>1. Init => AllCleanedUp
  BY DEF Init, CleanedUp, Idle
<1>2. IInv /\ AllCleanedUp /\ [Next]_vars => AllCleanedUp'
  BY NextCleanedUp
<1>3. IInv /\ AllCleanedUp /\ [Next]_vars => [Guarded]_vars
  <2> SUFFICES ASSUME IInv, AllCleanedUp, [Next]_vars, NEW n \in SearchIndexes,
                      api[n].phase = "deleting", api'[n].phase = "absent"
               PROVE  Published(n) \notin Made
    OBVIOUS
  <2>0. TypeOK /\ Versions(n)
    BY DEF IInv
  <2>1. RemoveFinalizer(n) /\ api' # api
    BY <2>0, WhoReleases
  <2>2. job[n].copy = api[n]
    BY <2>0, <2>1 DEF RemoveFinalizer, Fresh, Versions, Lags
  <2> QED
    BY <2>1, <2>2 DEF RemoveFinalizer, CleanedUp, Published
<1>4. Spec => []IInv
  BY Invariance
<1> QED
  BY <1>1, <1>2, <1>3, <1>4, PTL DEF Spec, ReleasedOnlyAfterCleanup
=============================================================================

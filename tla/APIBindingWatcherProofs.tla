---------------------- MODULE APIBindingWatcherProofs ----------------------
(***************************************************************************)
(* Proofs about APIBindingWatcher, for every set of bindings, claims and   *)
(* schemas, every way to name SearchIndexes, and every bound.              *)
(***************************************************************************)
EXTENDS APIBindingWatcher, TLAPS

-----------------------------------------------------------------------------
(* Claims and jobs                                                         *)

(* The names of claims are that of the first and those of the rest.        *)
LEMMA FirstAndRest ==
  ASSUME NEW b \in Bindings, NEW claims \in Seq(Resources), claims # <<>>
  PROVE  /\ Head(claims) \in Resources
         /\ Tail(claims) \in Seq(Resources)
         /\ NameFor(b, Head(claims)) \in NamesOf(b, claims)
         /\ NamesOf(b, Tail(claims)) \subseteq NamesOf(b, claims)
         /\ NamesOf(b, claims) \subseteq
              NamesOf(b, Tail(claims)) \cup {NameFor(b, Head(claims))}
<1> DEFINE rest == Tail(claims)
<1>1. /\ Head(claims) = claims[1] /\ 1 \in DOMAIN claims /\ claims[1] \in Resources
      /\ rest \in Seq(Resources)
      /\ DOMAIN claims = 1 .. Len(claims) /\ DOMAIN rest = 1 .. (Len(claims) - 1)
      /\ Len(claims) \in Nat
      /\ \A i \in DOMAIN rest : rest[i] = claims[i + 1]
  OBVIOUS
<1>2. ASSUME NEW i \in DOMAIN rest
      PROVE  NameFor(b, rest[i]) \in NamesOf(b, claims)
  <2>1. i + 1 \in DOMAIN claims /\ rest[i] = claims[i + 1]
    BY <1>1
  <2> QED
    BY <2>1 DEF NamesOf
<1>3. ASSUME NEW i \in DOMAIN claims
      PROVE  NameFor(b, claims[i]) \in
               NamesOf(b, rest) \cup {NameFor(b, Head(claims))}
  <2>1. CASE i = 1
    BY <1>1, <2>1
  <2>2. CASE i # 1
    <3>1. i - 1 \in DOMAIN rest /\ rest[i - 1] = claims[i]
      BY <1>1, <2>2
    <3> QED
      BY <3>1 DEF NamesOf
  <2> QED
    BY <2>1, <2>2
<1> HIDE DEF rest
<1> QED
  BY <1>1, <1>2, <1>3 DEF NamesOf, rest

(* No claims, no names.                                                    *)
LEMMA NoClaims == \A b \in Bindings : NamesOf(b, <<>>) = {}
BY DEF NamesOf

(* A binding is known, and cached, as one of its type.                     *)
LEMMA BindingsTyped ==
  ASSUME NEW b \in Bindings
  PROVE  /\ NotBound \in BindingObjects
         /\ \A s \in StatusesOf[b] : Bound(s) \in BindingObjects
BY BindingsAssumption
   DEF BindingsAssumption, StatusTypeOK, NotBound, Bound, BindingObjects

(* The idle worker is a job, and a missing SearchIndex one of its type.    *)
LEMMA IdleIsJob == Idle \in Jobs /\ Missing \in SearchIndexObjects
BY BindingsAssumption
   DEF BindingsAssumption, Idle, Missing, Jobs, SearchIndexObjects

(* The writes of SearchIndexes stay within their type.                     *)
LEMMA ObjectsClosed ==
  ASSUME NEW o \in SearchIndexObjects
  PROVE  /\ o.version \in Nat
         /\ Bump(o) \in SearchIndexObjects
         /\ Bump(o).version = o.version + 1
         /\ Bump(o).phase = o.phase /\ Bump(o).fields = o.fields /\ Bump(o).rest = o.rest
         /\ [o EXCEPT !.phase = "live"] \in SearchIndexObjects
         /\ \A rest \in Rests : [o EXCEPT !.rest = rest] \in SearchIndexObjects
         /\ \A fields \in SUBSET Fields : [o EXCEPT !.fields = fields] \in SearchIndexObjects
         /\ [Missing EXCEPT !.phase = "removed", !.version = o.version + 1]
              \in SearchIndexObjects
<1> USE DEF SearchIndexObjects
<1>1. o.version \in Nat /\ o.version + 1 \in Nat
  OBVIOUS
<1>2. /\ Bump(o) \in SearchIndexObjects
      /\ Bump(o).version = o.version + 1
      /\ Bump(o).phase = o.phase /\ Bump(o).fields = o.fields /\ Bump(o).rest = o.rest
  BY DEF Bump
<1>3. /\ [o EXCEPT !.phase = "live"] \in SearchIndexObjects
      /\ \A rest \in Rests : [o EXCEPT !.rest = rest] \in SearchIndexObjects
      /\ \A fields \in SUBSET Fields : [o EXCEPT !.fields = fields] \in SearchIndexObjects
  OBVIOUS
<1>4. [Missing EXCEPT !.phase = "removed", !.version = o.version + 1]
        \in SearchIndexObjects
  BY <1>1, BindingsAssumption DEF BindingsAssumption, Missing
<1> QED
  BY <1>1, <1>2, <1>3, <1>4

(* The SearchIndex that a running reconcile is about has a name.           *)
LEMMA NameTyped ==
  ASSUME TypeOK, NEW b \in Bindings, Sourced(b), b \in Running
  PROVE  /\ OrgOf[b] \in Orgs
         /\ job[b].claims \in Seq(Resources) \ {<<>>}
         /\ Name(b) \in Names
<1>1. OrgOf[b] \in Orgs
  BY BindingsAssumption DEF BindingsAssumption, Sourced
<1>2. job[b].claims \in Seq(Resources) \ {<<>>}
  BY DEF TypeOK, Jobs, Sourced
<1>3. Head(job[b].claims) \in Resources
  BY <1>2, FirstAndRest
<1> QED
  BY <1>1, <1>2, <1>3, BindingsAssumption DEF BindingsAssumption, Name, NameFor

(* The fields of known schemas are known.                                  *)
LEMMA FieldsTyped ==
  ASSUME NEW binding \in BindingObjects
  PROVE  DefaultFields(binding) \subseteq Fields
BY BindingsAssumption DEF BindingsAssumption, BindingObjects, DefaultFields

\* The job after Advance.
NextJob(b) ==
  IF Tail(job[b].claims) = <<>> THEN Idle
  ELSE [Idle EXCEPT !.step = "get", !.claims = Tail(job[b].claims),
                    !.fields = job[b].fields]

(* Whatever way a request ends, jobs, queue and fault count stay well      *)
(* typed, and only the job of the binding it is about changes.             *)
LEMMA EndsStayTyped ==
  ASSUME TypeOK, NEW b \in Bindings, Sourced(b), b \in Running,
         Advance(b) \/ Retry(b) \/ LoseReply(b)
  PROVE  /\ job' \in [Bindings -> Jobs]
         /\ queue' \subseteq Bindings
         /\ faults' \in 0 .. MaxFaults
         /\ \A c \in Bindings \ {b} : job'[c] = job[c]
         /\ queue \subseteq queue'
         /\ \/ Advance(b) /\ job'[b] = NextJob(b) /\ queue' = queue
            \/ job'[b] = Idle /\ b \in queue'
<1>0. job \in [Bindings -> Jobs]
  BY DEF TypeOK
<1>1. CASE Advance(b)
  <2>1. job' = [job EXCEPT ![b] = NextJob(b)]
    BY <1>1 DEF Advance, NextJob
  <2>2. NextJob(b) \in Jobs
    <3>1. Tail(job[b].claims) \in Seq(Resources)
      BY NameTyped, FirstAndRest
    <3> QED
      BY <1>0, <3>1, IdleIsJob DEF NextJob, Jobs
  <2> QED
    BY <1>0, <1>1, <2>1, <2>2 DEF Advance, TypeOK
<1>2. CASE Retry(b)
  BY <1>0, <1>2, IdleIsJob DEF Retry, TypeOK
<1>3. CASE LoseReply(b)
  BY <1>0, <1>3, IdleIsJob, BindingsAssumption
     DEF BindingsAssumption, LoseReply, TypeOK
<1> QED
  BY <1>1, <1>2, <1>3

-----------------------------------------------------------------------------
(* What a reconcile does to the SearchIndexes                              *)

\* The SearchIndex x gets the fields of the reconcile, from nothing or in place.
Written(b, x) ==
  /\ searchIndexes' = [searchIndexes EXCEPT ![x] = searchIndexes'[x]]
  /\ searchIndexes'[x] \in SearchIndexObjects
  /\ searchIndexes'[x].version = searchIndexes[x].version + 1
  /\ searchIndexes'[x].phase = "live"
  /\ searchIndexes'[x].fields = job[b].fields
  /\ Exists(x) => searchIndexes'[x].rest = searchIndexes[x].rest

(* Create and Update write the SearchIndex that is missing, or that is     *)
(* still as it was read, and nothing else.                                 *)
LEMMA Writes ==
  ASSUME TypeOK, NEW b \in Bindings, Sourced(b), ReadLags(b),
         Create(b) \/ Update(b)
  PROVE  /\ b \in Running
         /\ \/ Written(b, Name(b)) /\ (Advance(b) \/ LoseReply(b))
            \/ UNCHANGED searchIndexes /\ Retry(b)
<1>1. b \in Running
  BY DEF Create, Update, Running
<1> DEFINE x == Name(b)
           o == searchIndexes[x]
<1>2. /\ x \in Names /\ o \in SearchIndexObjects /\ o.version \in Nat
      /\ searchIndexes \in [Names -> SearchIndexObjects]
      /\ job[b].fields \subseteq Fields
  BY <1>1, NameTyped DEF TypeOK, SearchIndexObjects, Jobs
<1>3. CASE Create(b) /\ ~Exists(x)
  <2> DEFINE n == [phase |-> "live", version |-> o.version + 1,
                   fields |-> job[b].fields, rest |-> CreatedRest]
  <2>1. searchIndexes' = [searchIndexes EXCEPT ![x] = n]
    BY <1>3 DEF Create
  <2>2. searchIndexes'[x] = n
    BY <1>2, <2>1
  <2>3. n \in SearchIndexObjects
    <3>1. o.version + 1 \in Nat /\ CreatedRest \in Rests
      BY <1>2, BindingsAssumption DEF BindingsAssumption
    <3> HIDE DEF o
    <3> QED
      BY <1>2, <3>1 DEF SearchIndexObjects
  <2>4. n.version = o.version + 1 /\ n.phase = "live" /\ n.fields = job[b].fields
    OBVIOUS
  <2>5. Advance(b) \/ LoseReply(b)
    BY <1>3 DEF Create
  <2> HIDE DEF n
  <2> QED
    BY <1>1, <1>3, <2>1, <2>2, <2>3, <2>4, <2>5 DEF Written
<1>4. CASE Update(b) /\ Exists(x) /\ o.version = job[b].copy.version
  <2> DEFINE m == [o EXCEPT !.fields = job[b].fields]
             n == Bump(m)
  <2>1. job[b].copy = o
    BY <1>4 DEF Update, ReadLags
  <2>2. searchIndexes' = [searchIndexes EXCEPT ![x] = n]
    BY <1>4, <2>1 DEF Update
  <2>3. searchIndexes'[x] = n
    BY <1>2, <2>2
  <2>4. /\ m \in SearchIndexObjects /\ m.version = o.version
        /\ m.fields = job[b].fields /\ m.rest = o.rest /\ m.phase = "live"
    BY <1>2, <1>4 DEF SearchIndexObjects, Exists
  <2>5. /\ n \in SearchIndexObjects /\ n.version = o.version + 1
        /\ n.fields = job[b].fields /\ n.rest = o.rest /\ n.phase = "live"
    BY <2>4, ObjectsClosed
  <2> HIDE DEF n
  <2> QED
    BY <1>1, <1>4, <2>2, <2>3, <2>5 DEF Update, Written
<1>5. CASE Create(b) /\ Exists(x)
  BY <1>1, <1>5 DEF Create
<1>6. CASE Update(b) /\ ~(Exists(x) /\ o.version = job[b].copy.version)
  BY <1>1, <1>6 DEF Update
<1> QED
  BY <1>3, <1>4, <1>5, <1>6

-----------------------------------------------------------------------------
(* The inductive invariant                                                 *)

Local(b) == Known(b, bindings[b]) /\ Known(b, cache[b]) /\ Sourced(b) /\ ReadLags(b)

\* Objects are only replaced under a new version.
Grow ==
  \A x \in Names :
    \/ searchIndexes'[x] = searchIndexes[x]
    \/ searchIndexes'[x].version = searchIndexes[x].version + 1

(* Every action keeps the state well typed, and replaces an object only    *)
(* under a new version.                                                    *)
LEMMA NextTypeOK ==
  ASSUME IInv, [Next]_vars
  PROVE  TypeOK' /\ Grow
<1> USE BindingsAssumption DEF BindingsAssumption
<1>0. /\ TypeOK /\ \A b \in Bindings : Local(b)
      /\ bindings \in [Bindings -> BindingObjects]
      /\ cache \in [Bindings -> BindingObjects]
      /\ job \in [Bindings -> Jobs]
      /\ searchIndexes \in [Names -> SearchIndexObjects]
  BY DEF IInv, TypeOK, Local
<1>a. \A o \in SearchIndexObjects : o.version \in Nat
  BY DEF SearchIndexObjects
<1>1. ASSUME NEW b \in Bindings, ChangeBinding(b) PROVE TypeOK' /\ Grow
  BY <1>0, <1>1, BindingsTyped DEF ChangeBinding, TypeOK, Grow
<1>2. ASSUME NEW x \in Names,
             \/ CreateByHand(x) \/ DeleteSearchIndex(x)
             \/ \E rest \in Rests : EditSearchIndex(x, rest)
      PROVE  TypeOK' /\ Grow
  <2> DEFINE o == searchIndexes[x]
  <2>0. o \in SearchIndexObjects /\ o.version \in Nat
    BY <1>0, <1>a
  <2>1. PICK n \in SearchIndexObjects :
          /\ n.version = o.version + 1
          /\ searchIndexes' = [searchIndexes EXCEPT ![x] = n]
    <3>1. CASE CreateByHand(x)
      <4> DEFINE n == Bump([o EXCEPT !.phase = "live"])
      <4>1. n \in SearchIndexObjects
        BY <2>0, ObjectsClosed
      <4>2. n.version = o.version + 1
        BY <2>0 DEF SearchIndexObjects, Bump
      <4>3. searchIndexes' = [searchIndexes EXCEPT ![x] = n]
        BY <3>1 DEF CreateByHand
      <4> QED
        BY <4>1, <4>2, <4>3
    <3>2. ASSUME NEW rest \in Rests, EditSearchIndex(x, rest)
          PROVE  \E n \in SearchIndexObjects :
                   /\ n.version = o.version + 1
                   /\ searchIndexes' = [searchIndexes EXCEPT ![x] = n]
      <4> DEFINE n == Bump([o EXCEPT !.rest = rest])
      <4>1. n \in SearchIndexObjects
        BY <2>0, ObjectsClosed
      <4>2. n.version = o.version + 1
        BY <2>0 DEF SearchIndexObjects, Bump
      <4>3. searchIndexes' = [searchIndexes EXCEPT ![x] = n]
        BY <3>2 DEF EditSearchIndex
      <4> QED
        BY <4>1, <4>2, <4>3
    <3>3. CASE DeleteSearchIndex(x)
      <4> DEFINE n == [Missing EXCEPT !.phase = "removed", !.version = o.version + 1]
      <4>1. n \in SearchIndexObjects
        BY <2>0, ObjectsClosed
      <4>2. n.version = o.version + 1
        BY DEF Missing
      <4>3. searchIndexes' = [searchIndexes EXCEPT ![x] = n]
        BY <3>3 DEF DeleteSearchIndex
      <4> QED
        BY <4>1, <4>2, <4>3
    <3> QED
      BY <1>2, <3>1, <3>2, <3>3
  <2>2. Grow /\ searchIndexes' \in [Names -> SearchIndexObjects]
    BY <1>0, <2>1 DEF Grow
  <2>3. edits' \in 0 .. MaxEdits /\ UNCHANGED <<bindings, cache, queue, job, faults>>
    <3>1. /\ edits < MaxEdits /\ edits' = edits + 1
          /\ UNCHANGED <<bindings, cache, queue, job, faults>>
      BY <1>2 DEF CreateByHand, DeleteSearchIndex, EditSearchIndex
    <3>2. edits \in 0 .. MaxEdits /\ MaxEdits \in Nat
      BY <1>0 DEF TypeOK
    <3> QED
      BY <3>1, <3>2
  <2> QED
    BY <1>0, <2>2, <2>3 DEF TypeOK
<1>3. ASSUME NEW b \in Bindings, Observe(b) PROVE TypeOK' /\ Grow
  BY <1>0, <1>3 DEF Observe, TypeOK, Grow
<1>4. ASSUME NEW b \in Bindings, Begin(b) PROVE TypeOK' /\ Grow
  <2>1. /\ DefaultFields(cache[b]) \subseteq Fields
        /\ cache[b].claims \in Seq(Resources)
    BY <1>0, FieldsTyped DEF BindingObjects
  <2>2. [Idle EXCEPT !.step = "get", !.claims = cache[b].claims,
                     !.fields = DefaultFields(cache[b])] \in Jobs
    BY <2>1, IdleIsJob DEF Jobs
  <2> QED
    BY <1>0, <1>4, <2>2, IdleIsJob DEF Begin, TypeOK, Grow
<1>5. ASSUME NEW b \in Bindings, Get(b) PROVE TypeOK' /\ Grow
  <2>1. b \in Running
    BY <1>5 DEF Get, Running
  <2>2. job' \in [Bindings -> Jobs] /\ queue' \subseteq Bindings /\ faults' \in 0 .. MaxFaults
    <3>1. CASE Advance(b)
      BY <1>0, <2>1, <3>1, EndsStayTyped DEF Local
    <3>2. CASE ~Advance(b)
      <4>1. searchIndexes[Name(b)] \in SearchIndexObjects
        BY <1>0, <2>1, NameTyped DEF Local
      <4>2. ASSUME NEW o \in SearchIndexObjects
            PROVE  [job EXCEPT ![b].step = "update", ![b].copy = o] \in [Bindings -> Jobs]
        <5>1. \A j \in Jobs : [j EXCEPT !.step = "update", !.copy = o] \in Jobs
          <6>1. \A j \in Jobs : [j EXCEPT !.step = "update"] \in Jobs
            BY DEF Jobs
          <6>2. \A j \in Jobs : [j EXCEPT !.copy = o] \in Jobs
            BY DEF Jobs
          <6> QED
            BY <6>1, <6>2
        <5> QED
          BY <1>0, <5>1
      <4>3. [job EXCEPT ![b].step = "create"] \in [Bindings -> Jobs]
        BY <1>0 DEF Jobs
      <4>4. /\ \/ job' = [job EXCEPT ![b].step = "update", ![b].copy = searchIndexes[Name(b)]]
               \/ job' = [job EXCEPT ![b].step = "create"]
            /\ UNCHANGED <<queue, faults>>
        BY <1>5, <3>2 DEF Get
      <4> QED
        BY <1>0, <4>1, <4>2, <4>3, <4>4 DEF TypeOK
    <3> QED
      BY <3>1, <3>2
  <2> QED
    BY <1>0, <1>5, <2>2 DEF Get, TypeOK, Grow
<1>6. ASSUME NEW b \in Bindings, Create(b) \/ Update(b) PROVE TypeOK' /\ Grow
  <2>1. /\ b \in Running
        /\ \/ Written(b, Name(b)) /\ (Advance(b) \/ LoseReply(b))
           \/ UNCHANGED searchIndexes /\ Retry(b)
    BY <1>0, <1>6, Writes DEF Local
  <2>2. Name(b) \in Names
    BY <1>0, <2>1, NameTyped DEF Local
  <2>3. searchIndexes' \in [Names -> SearchIndexObjects] /\ Grow
    BY <1>0, <2>1, <2>2 DEF Written, Grow
  <2>4. job' \in [Bindings -> Jobs] /\ queue' \subseteq Bindings /\ faults' \in 0 .. MaxFaults
    BY <1>0, <2>1, EndsStayTyped DEF Local
  <2> QED
    BY <1>0, <1>6, <2>3, <2>4 DEF Create, Update, TypeOK
<1>7. ASSUME NEW b \in Bindings, RequestFails(b) PROVE TypeOK' /\ Grow
  <2>1. job' \in [Bindings -> Jobs] /\ queue' \subseteq Bindings /\ faults' \in 0 .. MaxFaults
    BY <1>0, <1>7, EndsStayTyped DEF RequestFails, Running, Local
  <2> QED
    BY <1>0, <1>7, <2>1 DEF RequestFails, TypeOK, Grow
<1>8. ASSUME Restart PROVE TypeOK' /\ Grow
  BY <1>0, <1>8, IdleIsJob DEF Restart, TypeOK, Grow
<1>9. ASSUME UNCHANGED vars PROVE TypeOK' /\ Grow
  BY <1>0, <1>9 DEF vars, TypeOK, Grow
<1> QED
  BY <1>1, <1>2, <1>3, <1>4, <1>5, <1>6, <1>7, <1>8, <1>9
     DEF Next, EnsureSearchIndex

(* Bindings, and their cached copies, only become what they may be.        *)
LEMMA NextKnown ==
  ASSUME TypeOK, [Next]_vars, NEW b \in Bindings,
         Known(b, bindings[b]), Known(b, cache[b])
  PROVE  Known(b, bindings'[b]) /\ Known(b, cache'[b])
<1>0. bindings \in [Bindings -> BindingObjects] /\ cache \in [Bindings -> BindingObjects]
  BY DEF TypeOK
<1>1. ASSUME NEW c \in Bindings, ChangeBinding(c)
      PROVE  Known(b, bindings'[b]) /\ Known(b, cache'[b])
  BY <1>0, <1>1 DEF ChangeBinding, Known
<1>2. ASSUME NEW c \in Bindings, Observe(c)
      PROVE  Known(b, bindings'[b]) /\ Known(b, cache'[b])
  BY <1>0, <1>2 DEF Observe
<1>3. CASE Restart
  BY <1>3 DEF Restart
<1>4. CASE UNCHANGED <<bindings, cache>>
  BY <1>4
<1>5. ASSUME NEW c \in Bindings, Begin(c) \/ EnsureSearchIndex(c) \/ RequestFails(c)
      PROVE  UNCHANGED <<bindings, cache>>
  BY <1>5 DEF Begin, EnsureSearchIndex, Get, Create, Update, RequestFails
<1>6. ASSUME NEW x \in Names,
             \/ CreateByHand(x) \/ DeleteSearchIndex(x)
             \/ \E rest \in Rests : EditSearchIndex(x, rest)
      PROVE  UNCHANGED <<bindings, cache>>
  BY <1>6 DEF CreateByHand, DeleteSearchIndex, EditSearchIndex
<1> QED
  BY <1>1, <1>2, <1>3, <1>4, <1>5, <1>6 DEF Next, vars

\* What holds of a reconcile.
AtWork(b) == Sourced(b) /\ ReadLags(b)

(* A reconcile that a step leaves alone stays as it should be, whatever    *)
(* happens to the SearchIndex it has read.                                 *)
LEMMA AtWorkFrame ==
  ASSUME TypeOK, Grow, NEW b \in Bindings, AtWork(b), job'[b] = job[b]
  PROVE  AtWork(b)'
<1>1. Sourced(b)'
  BY DEF AtWork, Sourced, Running
<1>2. ASSUME job[b].step = "update" PROVE ReadLags(b)'
  <2> DEFINE x == Name(b)
             copy == job[b].copy
  <2>1. b \in Running
    BY <1>2 DEF Running
  <2>2. /\ x \in Names
        /\ searchIndexes[x].version \in Nat /\ copy.version \in Nat
    BY <2>1, NameTyped DEF AtWork, TypeOK, Jobs, SearchIndexObjects
  <2>3. Name(b)' = x
    BY DEF Name, NameFor
  <2>4. /\ copy.phase = "live" /\ copy.version <= searchIndexes[x].version
        /\ copy.version = searchIndexes[x].version => copy = searchIndexes[x]
    BY <1>2 DEF AtWork, ReadLags
  <2>5. CASE searchIndexes'[x] = searchIndexes[x]
    BY <2>3, <2>4, <2>5 DEF ReadLags
  <2>6. CASE searchIndexes'[x].version = searchIndexes[x].version + 1
    <3>1. copy.version < searchIndexes'[x].version
      BY <2>2, <2>4, <2>6
    <3>2. /\ copy.version <= searchIndexes'[x].version
          /\ copy.version # searchIndexes'[x].version
      BY <2>2, <2>6, <3>1
    <3> QED
      BY <2>3, <2>4, <3>2 DEF ReadLags
  <2> QED
    BY <2>2, <2>5, <2>6 DEF Grow
<1>3. ASSUME job[b].step # "update" PROVE ReadLags(b)'
  BY <1>3 DEF ReadLags
<1> QED
  BY <1>1, <1>2, <1>3 DEF AtWork

(* So does a reconcile that ends, or that goes on to the next claim.       *)
LEMMA AtWorkNext ==
  ASSUME TypeOK, NEW b \in Bindings, AtWork(b),
         job'[b] = Idle \/ (b \in Running /\ job'[b] = NextJob(b))
  PROVE  AtWork(b)'
<1>1. CASE job'[b] = Idle
  BY <1>1 DEF AtWork, Sourced, ReadLags, Running, Idle
<1>2. CASE b \in Running /\ job'[b] = NextJob(b) /\ NextJob(b) # Idle
  <2> DEFINE rest == Tail(job[b].claims)
  <2>1. rest # <<>> /\ NamesOf(b, rest) \subseteq NamesOf(b, job[b].claims)
    BY <1>2, NameTyped, FirstAndRest DEF AtWork, NextJob
  <2>2. job'[b].step = "get" /\ job'[b].claims = rest /\ job'[b].fields = job[b].fields
    BY <1>2, <2>1 DEF NextJob, Idle
  <2> HIDE DEF rest
  <2>3. Sourced(b)'
    BY <1>2, <2>1, <2>2 DEF AtWork, Sourced, Running, NamesOf, NameFor
  <2> QED
    BY <2>2, <2>3 DEF AtWork, ReadLags
<1> QED
  BY <1>1, <1>2

(* Every step keeps every reconcile as it should be.                       *)
LEMMA NextAtWork ==
  ASSUME IInv, [Next]_vars, NEW b \in Bindings
  PROVE  AtWork(b)'
<1>0. /\ TypeOK /\ Grow /\ AtWork(b) /\ Known(b, cache[b])
      /\ job \in [Bindings -> Jobs] /\ cache \in [Bindings -> BindingObjects]
      /\ \A c \in Bindings : Sourced(c) /\ ReadLags(c)
  BY NextTypeOK DEF IInv, AtWork, TypeOK
<1>1. CASE job'[b] = job[b]
  BY <1>0, <1>1, AtWorkFrame
<1>2. CASE Begin(b)
  <2>1. CASE job'[b] = Idle
    BY <1>0, <2>1, AtWorkNext
  <2>2. CASE job'[b] # Idle
    <3>1. /\ cache[b].bound /\ OrgOf[b] # NoOrg /\ cache[b].claims # <<>>
          /\ job'[b] = [Idle EXCEPT !.step = "get", !.claims = cache[b].claims,
                                    !.fields = DefaultFields(cache[b])]
      BY <1>0, <1>2, <2>2 DEF Begin
    <3>2. PICK s \in StatusesOf[b] : cache[b] = Bound(s)
      BY <1>0, <3>1 DEF Known, NotBound
    <3>3. /\ job'[b].step = "get" /\ job'[b].claims = s.claims
          /\ job'[b].fields = DefaultFields(Bound(s)) /\ s.claims # <<>>
      BY <3>1, <3>2 DEF Idle, Bound
    <3> QED
      BY <3>1, <3>3 DEF AtWork, Sourced, ReadLags
  <2> QED
    BY <2>1, <2>2
<1>3. CASE Get(b)
  <2>1. b \in Running
    BY <1>3 DEF Get, Running
  <2>2. CASE Advance(b)
    BY <1>0, <2>1, <2>2, AtWorkNext, EndsStayTyped
  <2>3. CASE ~Advance(b)
    <3>1. /\ \/ /\ job'[b].step = "update" /\ Exists(Name(b))
                /\ job'[b].copy = searchIndexes[Name(b)]
             \/ job'[b].step = "create"
          /\ job'[b].claims = job[b].claims /\ job'[b].fields = job[b].fields
          /\ UNCHANGED searchIndexes
      BY <1>0, <1>3, <2>3 DEF Get, Jobs
    <3>2. Name(b)' = Name(b)
      BY <3>1 DEF Name, NameFor
    <3>3. Sourced(b)'
      BY <1>0, <2>1, <3>1 DEF AtWork, Sourced
    <3>4. searchIndexes[Name(b)].version \in Nat
      BY <1>0, <2>1, NameTyped DEF TypeOK, SearchIndexObjects
    <3> QED
      BY <3>1, <3>2, <3>3, <3>4 DEF AtWork, ReadLags, Exists
  <2> QED
    BY <2>2, <2>3
<1>4. CASE Create(b) \/ Update(b)
  <2>1. b \in Running /\ (Advance(b) \/ Retry(b) \/ LoseReply(b))
    BY <1>0, <1>4, Writes DEF AtWork
  <2> QED
    BY <1>0, <2>1, AtWorkNext, EndsStayTyped
<1>5. CASE RequestFails(b) \/ Restart
  <2>1. job'[b] = Idle
    BY <1>0, <1>5 DEF RequestFails, LoseReply, Restart
  <2> QED
    BY <1>0, <2>1, AtWorkNext
\* The other actions, and those of other bindings, leave the job alone.
<1>6. ASSUME NEW c \in Bindings \ {b},
             Begin(c) \/ EnsureSearchIndex(c) \/ RequestFails(c)
      PROVE  job'[b] = job[b]
  <2>1. ASSUME Advance(c) \/ Retry(c) \/ LoseReply(c), c \in Running
        PROVE  job'[b] = job[b]
    BY <1>0, <2>1, EndsStayTyped
  <2>2. CASE Begin(c)
    BY <1>0, <2>2 DEF Begin
  <2>3. CASE Get(c)
    BY <1>0, <2>1, <2>3 DEF Get, Running
  <2>4. CASE Create(c) \/ Update(c)
    BY <1>0, <2>1, <2>4, Writes
  <2>5. CASE RequestFails(c)
    BY <2>1, <2>5 DEF RequestFails, Running
  <2> QED
    BY <1>6, <2>2, <2>3, <2>4, <2>5 DEF EnsureSearchIndex
<1>7. ASSUME NEW c \in Bindings, ChangeBinding(c) \/ Observe(c) PROVE job'[b] = job[b]
  BY <1>7 DEF ChangeBinding, Observe
<1>8. ASSUME NEW x \in Names,
             \/ CreateByHand(x) \/ DeleteSearchIndex(x)
             \/ \E rest \in Rests : EditSearchIndex(x, rest)
      PROVE  job'[b] = job[b]
  BY <1>8 DEF CreateByHand, DeleteSearchIndex, EditSearchIndex
<1>9. CASE UNCHANGED vars
  BY <1>1, <1>9 DEF vars
<1> QED
  BY <1>1, <1>2, <1>3, <1>4, <1>5, <1>6, <1>7, <1>8, <1>9 DEF Next, EnsureSearchIndex

(* The initial state satisfies the invariant.                              *)
LEMMA InitIInv == Init => IInv
<1> SUFFICES ASSUME Init PROVE IInv
  OBVIOUS
<1>1. TypeOK
  <2>1. /\ bindings \in [Bindings -> BindingObjects]
        /\ cache \in [Bindings -> BindingObjects]
    BY DEF Init, NotBound, BindingObjects
  <2>2. job \in [Bindings -> Jobs] /\ searchIndexes \in [Names -> SearchIndexObjects]
    BY IdleIsJob DEF Init
  <2> QED
    BY <2>1, <2>2, BindingsAssumption DEF BindingsAssumption, Init, TypeOK
<1>2. ASSUME NEW b \in Bindings
      PROVE  Known(b, bindings[b]) /\ Known(b, cache[b]) /\ Sourced(b) /\ ReadLags(b)
  BY DEF Init, Known, Sourced, ReadLags, Running, Idle
<1> QED
  BY <1>1, <1>2 DEF IInv

(* Every step keeps it.                                                    *)
LEMMA NextIInv == IInv /\ [Next]_vars => IInv'
<1> SUFFICES ASSUME IInv, [Next]_vars PROVE IInv'
  OBVIOUS
<1>1. TypeOK'
  BY NextTypeOK
<1>2. ASSUME NEW b \in Bindings
      PROVE  (Known(b, bindings[b]) /\ Known(b, cache[b]) /\ Sourced(b) /\ ReadLags(b))'
  <2>1. Known(b, bindings'[b]) /\ Known(b, cache'[b])
    BY NextKnown DEF IInv
  <2>2. AtWork(b)'
    BY NextAtWork
  <2> QED
    BY <2>1, <2>2 DEF AtWork, Known
<1> QED
  BY <1>1, <1>2 DEF IInv

(* In every reachable state a reconcile works through claims, and with     *)
(* fields, that its binding once had, and the SearchIndex it has read is   *)
(* the one that is there, or an older version of it.                       *)
THEOREM Invariance == Spec => []IInv
BY InitIInv, NextIInv, PTL DEF Spec

(* Every reachable state is well typed.                                    *)
THEOREM TypeCorrect == Spec => []TypeOK
<1>1. IInv => TypeOK
  BY DEF IInv
<1> QED
  BY <1>1, Invariance, PTL

-----------------------------------------------------------------------------
(* Edits of users                                                          *)

(* ensureSearchIndex never undoes what a user set in the rest of the spec: *)
(* the copy it writes back is the SearchIndex that is there, or the write  *)
(* is refused.                                                             *)
THEOREM EditsOfUsersAreKept == Spec => UserEditsKept
<1> DEFINE Kept == \A x \in Names :
                     Exists(x) /\ searchIndexes'[x].phase = "live" /\ edits' = edits
                       => searchIndexes'[x].rest = searchIndexes[x].rest
<1>1. ASSUME IInv, [Next]_vars PROVE [Kept]_vars
  <2> SUFFICES ASSUME NEW x \in Names, Exists(x), edits' = edits
               PROVE  searchIndexes'[x].rest = searchIndexes[x].rest
    OBVIOUS
  <2>0. /\ TypeOK /\ edits \in Nat
        /\ searchIndexes \in [Names -> SearchIndexObjects]
    BY <1>1, BindingsAssumption DEF BindingsAssumption, IInv, TypeOK
  <2>1. ASSUME NEW b \in Bindings, Create(b) \/ Update(b)
        PROVE  searchIndexes'[x].rest = searchIndexes[x].rest
    <3>1. Written(b, Name(b)) \/ UNCHANGED searchIndexes
      BY <1>1, <2>0, <2>1, Writes DEF IInv
    <3> QED
      BY <2>0, <3>1 DEF Written
  <2>2. ASSUME NEW b \in Bindings,
               \/ ChangeBinding(b) \/ Observe(b) \/ Begin(b)
               \/ Get(b) \/ RequestFails(b)
        PROVE  UNCHANGED searchIndexes
    BY <2>2 DEF ChangeBinding, Observe, Begin, Get, RequestFails
  <2>3. ASSUME NEW y \in Names,
               \/ CreateByHand(y) \/ DeleteSearchIndex(y)
               \/ \E rest \in Rests : EditSearchIndex(y, rest)
        PROVE  FALSE
    <3>1. edits' = edits + 1
      BY <2>3 DEF CreateByHand, DeleteSearchIndex, EditSearchIndex
    <3> QED
      BY <2>0, <3>1
  <2>4. ASSUME Restart \/ UNCHANGED vars PROVE UNCHANGED searchIndexes
    BY <2>4 DEF Restart, vars
  <2> QED
    BY <1>1, <2>1, <2>2, <2>3, <2>4 DEF Next, EnsureSearchIndex
<1>2. IInv /\ [Next]_vars => [Kept]_vars
  BY <1>1
<1> QED
  BY <1>2, Invariance, PTL DEF Spec, UserEditsKept

-----------------------------------------------------------------------------
(* What is asked for is there                                              *)

AllNoted == \A b \in Bindings : Noted(b)

\* What b asks for and gets, or what has been removed, stays so.
Keeps(b) ==
  \A x \in ClaimsOf(b, cache[b]), fields \in {DefaultFields(cache[b])} :
    ServedOrRemoved(x, fields) => ServedOrRemoved(x, fields)'

(* A queued key will be looked at again.                                   *)
LEMMA NotedQueued == \A b \in Bindings : b \in queue' => Noted(b)'
BY DEF Noted

(* A step that is not about b forgets nothing about it, if it keeps what   *)
(* b asks for.                                                             *)
LEMMA NotedFrame ==
  ASSUME NEW b \in Bindings, Noted(b), Keeps(b),
         job'[b] = job[b], cache'[b] = cache[b], b \in queue => b \in queue'
  PROVE  Noted(b)'
BY DEF Noted, Keeps, Pending, Running, ClaimsOf, NamesOf, NameFor, DefaultFields

(* The claims of a known binding are those of a status.                    *)
LEMMA WantedByStatus ==
  ASSUME NEW b \in Bindings, NEW binding, Known(b, binding),
         NEW x \in ClaimsOf(b, binding)
  PROVE  \E s \in StatusesOf[b] : binding = Bound(s)
BY DEF Known, ClaimsOf, NotBound

(* What a binding asks for has a name.                                     *)
LEMMA WantedTyped ==
  ASSUME NEW b \in Bindings, NEW binding \in BindingObjects
  PROVE  ClaimsOf(b, binding) \subseteq Names
<1> SUFFICES ASSUME OrgOf[b] # NoOrg, NEW i \in DOMAIN binding.claims
             PROVE  NameFor(b, binding.claims[i]) \in Names
  BY DEF ClaimsOf, NamesOf
<1>1. binding.claims[i] \in Resources
  BY DEF BindingObjects
<1> QED
  BY <1>1, BindingsAssumption DEF BindingsAssumption, NameFor

(* What a reconcile of another binding writes is what b asks for too.      *)
LEMMA OthersAgree ==
  ASSUME Agreeing, IInv, NEW b \in Bindings, NEW c \in Bindings, b # c, c \in Running,
         Written(c, Name(c))
  PROVE  Keeps(b)
<1> SUFFICES ASSUME NEW x \in ClaimsOf(b, cache[b]),
                    NEW fields \in {DefaultFields(cache[b])},
                    ServedOrRemoved(x, fields)
             PROVE  ServedOrRemoved(x, fields)'
  BY DEF Keeps
<1>0. /\ TypeOK /\ Known(b, cache[b]) /\ Sourced(c)
      /\ searchIndexes \in [Names -> SearchIndexObjects]
      /\ Name(c) \in Names /\ x \in Names
  BY NameTyped, WantedTyped DEF IInv, TypeOK
<1>1. CASE x # Name(c)
  <2>1. searchIndexes'[x] = searchIndexes[x]
    BY <1>0, <1>1 DEF Written
  <2> QED
    BY <2>1 DEF ServedOrRemoved, Exists
<1>2. CASE x = Name(c)
  <2>1. PICK s \in StatusesOf[b] : cache[b] = Bound(s)
    BY <1>0, WantedByStatus
  <2>2. PICK t \in StatusesOf[c] :
          /\ job[c].fields = DefaultFields(Bound(t))
          /\ NamesOf(c, job[c].claims) \subseteq NamesOf(c, t.claims)
    BY <1>0 DEF Sourced
  <2>3. Name(c) \in NamesOf(c, job[c].claims)
    BY <1>0, NameTyped, FirstAndRest DEF Name
  <2>4. Name(c) \in ClaimsOf(c, Bound(t))
    BY <1>0, <2>2, <2>3 DEF Sourced, ClaimsOf, Bound
  <2>5. job[c].fields = fields
    BY <1>2, <2>1, <2>2, <2>4 DEF Agreeing
  <2>6. Exists(x)' /\ searchIndexes'[x].fields = fields
    BY <1>2, <2>5 DEF Written, Exists
  <2> QED
    BY <2>6 DEF ServedOrRemoved
<1> QED
  BY <1>1, <1>2

(* A reconcile that goes on leaves a SearchIndex behind that is as its     *)
(* binding asks for.                                                       *)
LEMMA NotedAdvance ==
  ASSUME IInv, NEW b \in Bindings, Noted(b), b \in Running,
         job'[b] = NextJob(b), queue' = queue, cache'[b] = cache[b],
         NEW y, y = Name(b), NEW fields, fields = job[b].fields,
         ServedOrRemoved(y, fields)', Keeps(b)
  PROVE  Noted(b)'
<1> SUFFICES ASSUME b \notin queue PROVE Noted(b)'
  BY NotedQueued
<1> DEFINE rest == Tail(job[b].claims)
<1>0. /\ TypeOK /\ Sourced(b)
      /\ fields = DefaultFields(cache[b])
      /\ NamesOf(b, job[b].claims) \subseteq NamesOf(b, rest) \cup {y}
      /\ Pending(b) = NamesOf(b, job[b].claims)
  BY NameTyped, FirstAndRest DEF IInv, Noted, Name, Pending
<1>a. /\ rest = <<>> => job'[b].step = "idle"
      /\ rest # <<>> => /\ job'[b].step = "get" /\ job'[b].claims = rest
                        /\ job'[b].fields = fields
  <2>1. CASE rest = <<>>
    BY <2>1 DEF NextJob, Idle
  <2>2. CASE rest # <<>>
    <3>1. job'[b] = [Idle EXCEPT !.step = "get", !.claims = rest, !.fields = fields]
      BY <2>2 DEF NextJob
    <3> QED
      BY <2>2, <3>1 DEF Idle
  <2> QED
    BY <2>1, <2>2
<1>1. Pending(b)' = NamesOf(b, rest)
  <2>1. CASE rest = <<>>
    BY <1>a, <2>1, NoClaims DEF Pending, Running
  <2>2. CASE rest # <<>>
    BY <1>a, <2>2 DEF Pending, Running, NamesOf, NameFor
  <2> QED
    BY <2>1, <2>2
<1>2. b \in Running' => job'[b].fields = fields
  BY <1>a DEF Running
<1>3. ASSUME NEW x \in ClaimsOf(b, cache[b])
      PROVE  x \in NamesOf(b, rest) \/ ServedOrRemoved(x, fields)'
  <2>1. x \in Pending(b) \/ ServedOrRemoved(x, fields)
    BY <1>0 DEF Noted
  <2>2. CASE x \in Pending(b)
    BY <1>0, <2>2
  <2>3. CASE ServedOrRemoved(x, fields)
    BY <1>0, <2>3 DEF Keeps
  <2> QED
    BY <2>1, <2>2, <2>3
<1>4. DefaultFields(cache'[b]) = fields /\ ClaimsOf(b, cache'[b]) = ClaimsOf(b, cache[b])
  BY <1>0
<1> HIDE DEF rest
<1> QED
  BY <1>1, <1>2, <1>3, <1>4 DEF Noted, ServedOrRemoved, ClaimsOf, DefaultFields

(* A write of the reconcile of b keeps what it has written before.         *)
LEMMA OwnWritesAgree ==
  ASSUME IInv, NEW b \in Bindings, Written(b, Name(b)), b \in Running,
         job[b].fields = DefaultFields(cache[b])
  PROVE  Keeps(b)
<1> SUFFICES ASSUME NEW x \in ClaimsOf(b, cache[b]),
                    NEW fields \in {DefaultFields(cache[b])},
                    ServedOrRemoved(x, fields)
             PROVE  ServedOrRemoved(x, fields)'
  BY DEF Keeps
<1>1. /\ searchIndexes \in [Names -> SearchIndexObjects]
      /\ Name(b) \in Names /\ x \in Names
  BY NameTyped, WantedTyped DEF IInv, TypeOK
<1>2. CASE x = Name(b)
  BY <1>2 DEF Written, ServedOrRemoved, Exists
<1>3. CASE x # Name(b)
  <2>1. searchIndexes'[x] = searchIndexes[x]
    BY <1>1, <1>3 DEF Written
  <2> QED
    BY <2>1 DEF ServedOrRemoved, Exists
<1> QED
  BY <1>2, <1>3

(* A step that leaves the SearchIndexes alone keeps everything.            *)
LEMMA SameKeeps ==
  ASSUME NEW b \in Bindings, searchIndexes' = searchIndexes
  PROVE  Keeps(b)
BY DEF Keeps, ServedOrRemoved, Exists

(* Users remove SearchIndexes, but never touch the fields of one that has  *)
(* got any.                                                                *)
LEMMA UsersKeep ==
  ASSUME TypeOK, NEW b \in Bindings, NEW y \in Names,
         \/ CreateByHand(y) \/ DeleteSearchIndex(y)
         \/ \E rest \in Rests : EditSearchIndex(y, rest)
  PROVE  Keeps(b)
<1> SUFFICES ASSUME NEW x \in ClaimsOf(b, cache[b]),
                    NEW fields \in {DefaultFields(cache[b])},
                    ServedOrRemoved(x, fields)
             PROVE  ServedOrRemoved(x, fields)'
  BY DEF Keeps
<1>1. /\ searchIndexes \in [Names -> SearchIndexObjects]
      /\ x \in Names /\ searchIndexes[y] \in SearchIndexObjects
  BY WantedTyped DEF TypeOK
<1>2. CASE x # y
  <2>1. searchIndexes'[x] = searchIndexes[x]
    BY <1>1, <1>2 DEF CreateByHand, DeleteSearchIndex, EditSearchIndex
  <2> QED
    BY <2>1 DEF ServedOrRemoved, Exists
<1>3. CASE x = y /\ CreateByHand(y)
  BY <1>3 DEF CreateByHand, ServedOrRemoved, Exists
<1>4. CASE x = y /\ DeleteSearchIndex(y)
  <2>1. searchIndexes'[x].phase = "removed"
    BY <1>1, <1>4 DEF DeleteSearchIndex, Missing
  <2> QED
    BY <2>1 DEF ServedOrRemoved
<1>5. ASSUME x = y, NEW rest \in Rests, EditSearchIndex(y, rest)
      PROVE  ServedOrRemoved(x, fields)'
  <2>1. searchIndexes'[x] = Bump([searchIndexes[x] EXCEPT !.rest = rest])
    BY <1>1, <1>5 DEF EditSearchIndex
  <2>2. /\ searchIndexes'[x].phase = searchIndexes[x].phase
        /\ searchIndexes'[x].fields = searchIndexes[x].fields
    BY <1>1, <2>1 DEF Bump, SearchIndexObjects
  <2> QED
    BY <2>2 DEF ServedOrRemoved, Exists
<1> QED
  BY <1>2, <1>3, <1>4, <1>5

(* No step forgets a claim.                                                *)
LEMMA NextNoted ==
  ASSUME Agreeing, IInv, AllNoted, [Next]_vars, NEW b \in Bindings
  PROVE  Noted(b)'
<1>0. /\ TypeOK /\ Noted(b)
      /\ job \in [Bindings -> Jobs] /\ cache \in [Bindings -> BindingObjects]
      /\ \A c \in Bindings : Sourced(c) /\ ReadLags(c)
  BY DEF IInv, AllNoted, TypeOK
<1>1. ASSUME NEW c \in Bindings, ChangeBinding(c) PROVE Noted(b)'
  BY <1>0, <1>1, SameKeeps, NotedFrame DEF ChangeBinding
<1>2. ASSUME NEW y \in Names,
             \/ CreateByHand(y) \/ DeleteSearchIndex(y)
             \/ \E rest \in Rests : EditSearchIndex(y, rest)
      PROVE  Noted(b)'
  <2>1. UNCHANGED <<job, cache, queue>>
    BY <1>2 DEF CreateByHand, DeleteSearchIndex, EditSearchIndex
  <2> QED
    BY <1>0, <1>2, <2>1, UsersKeep, NotedFrame
<1>3. ASSUME NEW c \in Bindings, Observe(c) PROVE Noted(b)'
  <2>1. CASE c = b
    BY <1>3, <2>1, NotedQueued DEF Observe
  <2>2. CASE c # b
    <3>1. /\ job'[b] = job[b] /\ cache'[b] = cache[b] /\ (b \in queue => b \in queue')
          /\ searchIndexes' = searchIndexes
      BY <1>0, <1>3, <2>2 DEF Observe
    <3> QED
      BY <1>0, <3>1, SameKeeps, NotedFrame
  <2> QED
    BY <2>1, <2>2
<1>4. ASSUME NEW c \in Bindings, c # b, Begin(c) \/ EnsureSearchIndex(c) \/ RequestFails(c)
      PROVE  Noted(b)'
  <2>1. ASSUME Advance(c) \/ Retry(c) \/ LoseReply(c), c \in Running
        PROVE  job'[b] = job[b] /\ queue \subseteq queue'
    BY <1>0, <1>4, <2>1, EndsStayTyped
  <2>2. /\ job'[b] = job[b] /\ cache' = cache /\ (b \in queue => b \in queue')
        /\ \/ searchIndexes' = searchIndexes
           \/ Written(c, Name(c)) /\ c \in Running
    <3>1. CASE Begin(c)
      BY <1>0, <1>4, <3>1 DEF Begin
    <3>2. CASE Get(c)
      BY <1>0, <1>4, <2>1, <3>2 DEF Get, Running
    <3>3. CASE Create(c) \/ Update(c)
      <4>1. cache' = cache
        BY <3>3 DEF Create, Update
      <4> QED
        BY <1>0, <2>1, <3>3, <4>1, Writes
    <3>4. CASE RequestFails(c)
      BY <2>1, <3>4 DEF RequestFails, Running
    <3> QED
      BY <1>4, <3>1, <3>2, <3>3, <3>4 DEF EnsureSearchIndex
  <2>3. Keeps(b)
    BY <1>4, <2>2, SameKeeps, OthersAgree
  <2> QED
    BY <1>0, <2>2, <2>3, NotedFrame
<1>5. CASE Begin(b)
  <2>1. CASE job'[b] = Idle
    <3>1. ~(cache[b].bound /\ OrgOf[b] # NoOrg /\ cache[b].claims # <<>>)
      BY <1>0, <1>5, <2>1 DEF Begin, Idle
    <3>2. ClaimsOf(b, cache[b]) = {}
      BY <3>1, NoClaims DEF ClaimsOf
    <3>3. cache' = cache
      BY <1>5 DEF Begin
    <3>4. b \notin Running'
      BY <2>1 DEF Running, Idle
    <3> QED
      BY <3>2, <3>3, <3>4 DEF Noted, ClaimsOf, NamesOf, NameFor
  <2>2. CASE job'[b] # Idle
    <3>1. /\ job'[b] = [Idle EXCEPT !.step = "get", !.claims = cache[b].claims,
                                    !.fields = DefaultFields(cache[b])]
          /\ cache' = cache
      BY <1>0, <1>5, <2>2 DEF Begin
    <3>2. /\ job'[b].step = "get" /\ job'[b].claims = cache[b].claims
          /\ job'[b].fields = DefaultFields(cache[b])
      BY <3>1 DEF Idle
    <3>3. Pending(b)' = NamesOf(b, cache'[b].claims)
      <4>1. b \in Running'
        BY <3>2 DEF Running
      <4>2. Pending(b)' = NamesOf(b, job'[b].claims)
        BY <4>1 DEF Pending, NamesOf, NameFor
      <4> QED
        BY <3>1, <3>2, <4>2
    <3>4. ClaimsOf(b, cache[b])' \subseteq Pending(b)'
      BY <3>3 DEF ClaimsOf
    <3>5. job'[b].fields = DefaultFields(cache[b])'
      BY <3>1, <3>2 DEF DefaultFields
    <3> QED
      BY <3>4, <3>5 DEF Noted
  <2> QED
    BY <2>1, <2>2
<1>6. CASE Get(b)
  <2>1. b \in Running /\ UNCHANGED <<searchIndexes, cache>>
    BY <1>6 DEF Get, Running
  <2>2. CASE Advance(b) /\ Exists(Name(b)) /\ searchIndexes[Name(b)].fields = job[b].fields
    <3>1. job'[b] = NextJob(b) /\ queue' = queue
      BY <1>0, <2>1, <2>2, EndsStayTyped DEF Advance, NextJob
    <3>2. ASSUME NEW y, y = Name(b), NEW fields, fields = job[b].fields
          PROVE  ServedOrRemoved(y, fields)'
      BY <2>1, <2>2, <3>2 DEF ServedOrRemoved, Exists
    <3> QED
      BY <1>0, <2>1, <3>1, <3>2, SameKeeps, NotedAdvance
  <2>3. CASE ~(Advance(b) /\ Exists(Name(b)) /\ searchIndexes[Name(b)].fields = job[b].fields)
    <3>1. /\ job'[b].step \in {"update", "create"}
          /\ job'[b].claims = job[b].claims /\ job'[b].fields = job[b].fields
          /\ queue' = queue
      BY <1>0, <1>6, <2>3 DEF Get, Jobs
    <3>2. b \in Running' /\ Pending(b)' = Pending(b)
      BY <2>1, <3>1 DEF Pending, Running, NamesOf, NameFor
    <3> QED
      BY <1>0, <2>1, <3>1, <3>2
         DEF Noted, ServedOrRemoved, Exists, ClaimsOf, DefaultFields, NamesOf, NameFor
  <2> QED
    BY <2>2, <2>3
<1>7. CASE Create(b) \/ Update(b)
  <2>1. /\ b \in Running /\ cache' = cache
        /\ \/ Written(b, Name(b)) /\ Advance(b)
           \/ Retry(b) \/ LoseReply(b)
    BY <1>0, <1>7, Writes DEF Create, Update
  <2>2. CASE Retry(b) \/ LoseReply(b)
    BY <2>2, NotedQueued DEF Retry, LoseReply
  <2>3. CASE Written(b, Name(b)) /\ Advance(b) /\ b \notin queue
    <3>1. job'[b] = NextJob(b) /\ queue' = queue
      BY <1>0, <2>1, <2>3 DEF Advance, NextJob
    <3>2. ASSUME NEW y, y = Name(b), NEW fields, fields = job[b].fields
          PROVE  ServedOrRemoved(y, fields)'
      BY <2>3, <3>2 DEF Written, ServedOrRemoved, Exists
    <3>3. Keeps(b)
      BY <1>0, <2>1, <2>3, OwnWritesAgree DEF Noted
    <3> QED
      BY <1>0, <2>1, <3>1, <3>2, <3>3, NotedAdvance
  <2>4. CASE Advance(b) /\ b \in queue
    BY <2>4, NotedQueued DEF Advance
  <2> QED
    BY <2>1, <2>2, <2>3, <2>4
<1>8. CASE RequestFails(b)
  BY <1>8, NotedQueued DEF RequestFails, LoseReply
<1>9. CASE Restart
  BY <1>9, NotedQueued DEF Restart
<1>10. CASE UNCHANGED vars
  BY <1>0, <1>10, SameKeeps, NotedFrame DEF vars
<1> QED
  BY <1>1, <1>2, <1>3, <1>4, <1>5, <1>6, <1>7, <1>8, <1>9, <1>10
     DEF Next, EnsureSearchIndex

(* When bindings that share a SearchIndex agree on its fields, then all    *)
(* that a binding asks for is there when the controller is done with it,   *)
(* unless a user has removed it: for any number of bindings and of lost    *)
(* races between them.                                                     *)
THEOREM WhatIsClaimedIsServed ==
  ASSUME Agreeing
  PROVE  Spec => []Settled
<1>1. Init => AllNoted
  <2> SUFFICES ASSUME Init, NEW b \in Bindings PROVE Noted(b)
    BY DEF AllNoted
  <2>1. cache[b] = NotBound /\ job[b] = Idle
    BY DEF Init
  <2> QED
    BY <2>1 DEF Noted, ClaimsOf, NotBound, Running, Idle
<1>2. IInv /\ AllNoted /\ [Next]_vars => AllNoted'
  BY NextNoted DEF AllNoted
<1>3. AllNoted => Settled
  <2> SUFFICES ASSUME AllNoted, NEW b \in Bindings, Quiet(b), NEW x \in Claims(b)
               PROVE  Serves(x, b) \/ searchIndexes[x].phase = "removed"
    BY DEF Settled
  <2>1. Noted(b) /\ Pending(b) = {} /\ x \in ClaimsOf(b, cache[b])
    BY DEF AllNoted, Quiet, Pending, Claims
  <2> QED
    BY <2>1 DEF Noted, Quiet, ServedOrRemoved, Serves
<1> QED
  BY <1>1, <1>2, <1>3, Invariance, PTL DEF Spec
=============================================================================

------------------------- MODULE APIBindingWatcher -------------------------
(***************************************************************************)
(* The APIBinding controller: internal/subroutine/apibinding_watcher.go.   *)
(*                                                                         *)
(* For every resource that a bound APIBinding of an organization claims,   *)
(* the controller sees to it that the workspace root:orgs holds a          *)
(* SearchIndex, and that its DefaultFields are the top-level fields of the *)
(* schemas the binding refers to.  The name of the SearchIndex is built    *)
(* from the organization and the resource, so bindings of several          *)
(* workspaces of one organization may work on one SearchIndex, each with a *)
(* read, and then a create or an update, of its own.                       *)
(*                                                                         *)
(* The binding comes from the informer cache, the SearchIndex from the API *)
(* server.  The controller sets no finalizer and its Finalize does nothing,*)
(* so a binding that is deleted or not yet bound is one that is not bound. *)
(***************************************************************************)
EXTENDS Naturals, Sequences, FiniteSets

CONSTANTS
  Bindings,                 \* APIBindings over all workspaces
  Orgs, NoOrg,              \* organizations; none for a path outside root:orgs
  OrgOf,                    \* Binding -> organization of its workspace
  Resources,                \* resource names of permission claims
  Names,                    \* names a SearchIndex can have
  CanonicalName,            \* <<organization, resource>> -> Name
  Schemas, Fields,          \* APIResourceSchemas and top-level field names
  FieldsOf,                 \* Schema -> fields of its served versions
  StatusesOf,               \* Binding -> statuses it may have while bound
  Rests, CreatedRest,       \* the spec besides DefaultFields, as users set it
                            \* and as ensureSearchIndex creates it
  MaxConcurrentReconciles,  \* --max-concurrent-reconciles
  MaxEdits,                 \* bound: changes of bindings and SearchIndexes
  MaxFaults                 \* bound: lost requests, lost replies, restarts

\* A status.  claims: the AppliedPermissionClaims; schemas: those of the
\* BoundResources.
StatusTypeOK(s) ==
  /\ DOMAIN s = {"claims", "schemas"}
  /\ s.claims \in Seq(Resources)
  /\ s.schemas \subseteq Schemas

ASSUME BindingsAssumption ==
  /\ IsFiniteSet(Bindings)
  /\ NoOrg \notin Orgs
  /\ OrgOf \in [Bindings -> Orgs \cup {NoOrg}]
  /\ CanonicalName \in [Orgs \X Resources -> Names]
  /\ FieldsOf \in [Schemas -> SUBSET Fields]
  /\ DOMAIN StatusesOf = Bindings
  /\ \A b \in Bindings : \A s \in StatusesOf[b] : StatusTypeOK(s)
  /\ CreatedRest \in Rests
  /\ MaxConcurrentReconciles \in Nat \ {0}
  /\ MaxEdits \in Nat
  /\ MaxFaults \in Nat

VARIABLES
  bindings,       \* the bindings: whether bound, and their status
  searchIndexes,  \* the SearchIndex objects in root:orgs
  cache,          \* the informer's copies of the bindings
  queue,          \* work queue
  job,            \* per binding, its reconcile in progress
  edits, faults

vars == <<bindings, searchIndexes, cache, queue, job, edits, faults>>

NotBound == [bound |-> FALSE, claims |-> <<>>, schemas |-> {}]

Bound(s) == [bound |-> TRUE, claims |-> s.claims, schemas |-> s.schemas]

BindingObjects ==
  [bound : BOOLEAN, claims : Seq(Resources), schemas : SUBSET Schemas]

\* "removed": deleted by a user after it had been there.
SearchIndexObjects ==
  [phase : {"absent", "live", "removed"}, version : Nat,
   fields : SUBSET Fields, rest : Rests]

Missing == [phase |-> "absent", version |-> 0, fields |-> {},
            rest |-> CreatedRest]

\* A write gives an object a new version.
Bump(o) == [o EXCEPT !.version = @ + 1]

\* claims: those still to be ensured, the one at work first.
\* copy: the SearchIndex that Get returned.
Jobs == [step : {"idle", "get", "create", "update"}, claims : Seq(Resources),
         fields : SUBSET Fields, copy : SearchIndexObjects]

Idle == [step |-> "idle", claims |-> <<>>, fields |-> {}, copy |-> Missing]

TypeOK ==
  /\ bindings \in [Bindings -> BindingObjects]
  /\ searchIndexes \in [Names -> SearchIndexObjects]
  /\ cache \in [Bindings -> BindingObjects]
  /\ queue \subseteq Bindings
  /\ job \in [Bindings -> Jobs]
  /\ edits \in 0 .. MaxEdits
  /\ faults \in 0 .. MaxFaults

Init ==
  /\ bindings = [b \in Bindings |-> NotBound]
  /\ searchIndexes = [x \in Names |-> Missing]
  /\ cache = bindings
  /\ queue = {}
  /\ job = [b \in Bindings |-> Idle]
  /\ edits = 0
  /\ faults = 0

-----------------------------------------------------------------------------
(* kcp and the users                                                       *)

\* A workspace binds or unbinds, or kcp changes a status: other claims are
\* applied, or the export moves to other (immutable) schemas.
ChangeBinding(b) ==
  /\ edits < MaxEdits
  /\ \E o \in {NotBound} \cup {Bound(s) : s \in StatusesOf[b]} :
       /\ o # bindings[b]
       /\ bindings' = [bindings EXCEPT ![b] = o]
  /\ edits' = edits + 1
  /\ UNCHANGED <<searchIndexes, cache, queue, job, faults>>

\* By hand, before any binding asks for it.
CreateByHand(x) ==
  /\ edits < MaxEdits
  /\ searchIndexes[x].phase = "absent"
  /\ searchIndexes' = [searchIndexes EXCEPT ![x] = Bump([@ EXCEPT !.phase = "live"])]
  /\ edits' = edits + 1
  /\ UNCHANGED <<bindings, cache, queue, job, faults>>

\* A user edits the rest of the spec, or (the rest being the same) the
\* SearchIndex controller writes labels or status.
EditSearchIndex(x, rest) ==
  /\ edits < MaxEdits
  /\ searchIndexes[x].phase = "live"
  /\ searchIndexes' = [searchIndexes EXCEPT ![x] = Bump([@ EXCEPT !.rest = rest])]
  /\ edits' = edits + 1
  /\ UNCHANGED <<bindings, cache, queue, job, faults>>

\* Seen from here a deletion is over in one step: until then Get and Update
\* work as before.
DeleteSearchIndex(x) ==
  /\ edits < MaxEdits
  /\ searchIndexes[x].phase = "live"
  /\ searchIndexes' = [searchIndexes EXCEPT
                         ![x] = [Missing EXCEPT !.phase = "removed",
                                                !.version = searchIndexes[x].version + 1]]
  /\ edits' = edits + 1
  /\ UNCHANGED <<bindings, cache, queue, job, faults>>

-----------------------------------------------------------------------------
(* The lifecycle manager around the subroutine                             *)

Running == {b \in Bindings : job[b].step # "idle"}

Observe(b) ==
  /\ cache[b] # bindings[b]
  /\ cache' = [cache EXCEPT ![b] = bindings[b]]
  /\ queue' = queue \cup {b}
  /\ UNCHANGED <<bindings, searchIndexes, job, edits, faults>>

Retry(b) ==
  /\ job' = [job EXCEPT ![b] = Idle]
  /\ queue' = queue \cup {b}
  /\ UNCHANGED faults

\* Mutant: the error of a lost reply is not to be retried.
LoseReplyUnretried(b) ==
  /\ faults < MaxFaults
  /\ faults' = faults + 1
  /\ job' = [job EXCEPT ![b] = Idle]
  /\ UNCHANGED queue

\* The request may have taken effect; the controller sees an error.
LoseReply(b) ==
  /\ faults < MaxFaults
  /\ faults' = faults + 1
  /\ job' = [job EXCEPT ![b] = Idle]
  /\ queue' = queue \cup {b}

\* resolveDefaultFields: the fields of every schema the binding refers to.
DefaultFields(binding) == UNION {FieldsOf[s] : s \in binding.schemas}

\* Process up to its loop.  The lookups of the workspace path, of the
\* organization and of the schemas read nothing that changes.
Begin(b) ==
  /\ b \in queue \ Running
  /\ Cardinality(Running) < MaxConcurrentReconciles
  /\ queue' = queue \ {b}
  /\ job' = [job EXCEPT ![b] =
               IF cache[b].bound /\ OrgOf[b] # NoOrg /\ cache[b].claims # <<>>
               THEN [Idle EXCEPT !.step = "get", !.claims = cache[b].claims,
                                 !.fields = DefaultFields(cache[b])]
               ELSE Idle]
  /\ UNCHANGED <<bindings, searchIndexes, cache, edits, faults>>

-----------------------------------------------------------------------------
(* ensureSearchIndex, once per claim                                       *)

NameFor(b, resource) == CanonicalName[<<OrgOf[b], resource>>]

Name(b) == NameFor(b, Head(job[b].claims))

Exists(x) == searchIndexes[x].phase = "live"

\* On to the next claim.
Advance(b) ==
  /\ job' = [job EXCEPT ![b] =
               IF Tail(@.claims) = <<>> THEN Idle
               ELSE [Idle EXCEPT !.step = "get", !.claims = Tail(job[b].claims),
                                 !.fields = job[b].fields]]
  /\ UNCHANGED <<queue, faults>>

\* Mutant: a SearchIndex that is there is never updated.
GetOnce(b) ==
  LET x == Name(b) IN
  /\ job[b].step = "get"
  /\ \/ Exists(x) /\ Advance(b)
     \/ /\ ~Exists(x)
        /\ job' = [job EXCEPT ![b].step = "create"]
        /\ UNCHANGED <<queue, faults>>
  /\ UNCHANGED <<bindings, searchIndexes, cache, edits>>

Get(b) ==
  LET x == Name(b) IN
  /\ job[b].step = "get"
  /\ \/ Exists(x) /\ searchIndexes[x].fields = job[b].fields /\ Advance(b)
     \/ /\ Exists(x) /\ searchIndexes[x].fields # job[b].fields
        /\ job' = [job EXCEPT ![b].step = "update", ![b].copy = searchIndexes[x]]
        /\ UNCHANGED <<queue, faults>>
     \/ /\ ~Exists(x)
        /\ job' = [job EXCEPT ![b].step = "create"]
        /\ UNCHANGED <<queue, faults>>
  /\ UNCHANGED <<bindings, searchIndexes, cache, edits>>

\* Mutant: "already exists" goes on to the update with what Get had returned.
CreateThenUpdate(b) ==
  LET x == Name(b) IN
  /\ job[b].step = "create"
  /\ \/ /\ ~Exists(x)
        /\ searchIndexes' = [searchIndexes EXCEPT ![x] =
                               [phase |-> "live", version |-> @.version + 1,
                                fields |-> job[b].fields, rest |-> CreatedRest]]
        /\ Advance(b) \/ LoseReply(b)
     \/ /\ Exists(x)
        /\ job' = [job EXCEPT ![b].step = "update"]
        /\ UNCHANGED <<searchIndexes, queue, faults>>
  /\ UNCHANGED <<bindings, cache, edits>>

\* "Already exists" is an error like any other.
Create(b) ==
  LET x == Name(b) IN
  /\ job[b].step = "create"
  /\ \/ /\ ~Exists(x)
        /\ searchIndexes' = [searchIndexes EXCEPT ![x] =
                               [phase |-> "live", version |-> @.version + 1,
                                fields |-> job[b].fields, rest |-> CreatedRest]]
        /\ Advance(b) \/ LoseReply(b)
     \/ Exists(x) /\ Retry(b) /\ UNCHANGED searchIndexes
  /\ UNCHANGED <<bindings, cache, edits>>

\* Mutant: the SearchIndex that was read is written back whatever came since.
UpdateBlind(b) ==
  LET x == Name(b) IN
  /\ job[b].step = "update"
  /\ IF Exists(x)
     THEN /\ searchIndexes' = [searchIndexes EXCEPT ![x] =
                                 [job[b].copy EXCEPT
                                    !.version = searchIndexes[x].version + 1,
                                    !.fields = job[b].fields]]
          /\ Advance(b)
     ELSE Retry(b) /\ UNCHANGED searchIndexes
  /\ UNCHANGED <<bindings, cache, edits>>

\* The update carries the version that was read; a conflict, like a
\* SearchIndex that has gone, is an error.
Update(b) ==
  LET x == Name(b)
      fresh == Exists(x) /\ searchIndexes[x].version = job[b].copy.version
  IN
  /\ job[b].step = "update"
  /\ \/ /\ fresh
        /\ searchIndexes' = [searchIndexes EXCEPT ![x] =
                               Bump([job[b].copy EXCEPT !.fields = job[b].fields])]
        /\ Advance(b) \/ LoseReply(b)
     \/ ~fresh /\ Retry(b) /\ UNCHANGED searchIndexes
  /\ UNCHANGED <<bindings, cache, edits>>

-----------------------------------------------------------------------------
(* Faults                                                                  *)

\* A request, one of the lookups among them, fails without effect.
RequestFails(b) ==
  /\ job[b].step # "idle"
  /\ LoseReply(b)
  /\ UNCHANGED <<bindings, searchIndexes, cache, edits>>

Restart ==
  /\ faults < MaxFaults
  /\ faults' = faults + 1
  /\ job' = [b \in Bindings |-> Idle]
  /\ cache' = bindings
  /\ queue' = Bindings
  /\ UNCHANGED <<bindings, searchIndexes, edits>>

-----------------------------------------------------------------------------
(* Specification                                                           *)

EnsureSearchIndex(b) == Get(b) \/ Create(b) \/ Update(b)

Next ==
  \/ \E b \in Bindings :
       \/ ChangeBinding(b) \/ Observe(b) \/ Begin(b)
       \/ EnsureSearchIndex(b) \/ RequestFails(b)
  \/ \E x \in Names :
       \/ CreateByHand(x) \/ DeleteSearchIndex(x)
       \/ \E rest \in Rests : EditSearchIndex(x, rest)
  \/ Restart

Spec == Init /\ [][Next]_vars

\* As for the SearchIndex controller: watch events arrive, a running reconcile
\* goes on, and no key waits for a worker for ever.
Fairness ==
  \A b \in Bindings :
    /\ WF_vars(Observe(b))
    /\ SF_vars(Begin(b))
    /\ WF_vars(EnsureSearchIndex(b))

FairSpec == Spec /\ Fairness

-----------------------------------------------------------------------------
(* Properties                                                              *)

\* The names that b gives to the resources in a sequence of claims.
NamesOf(b, claims) == {NameFor(b, claims[i]) : i \in DOMAIN claims}

ClaimsOf(b, binding) ==
  IF binding.bound /\ OrgOf[b] # NoOrg THEN NamesOf(b, binding.claims) ELSE {}

Claims(b) == ClaimsOf(b, bindings[b])

\* The SearchIndex x is as binding b wants it.
Serves(x, b) ==
  Exists(x) /\ searchIndexes[x].fields = DefaultFields(bindings[b])

\* Nothing is under way for b: no event, no queued key, no reconcile.
Quiet(b) == cache[b] = bindings[b] /\ b \notin queue /\ b \notin Running

(* When the controller is done with a bound binding, every SearchIndex the *)
(* binding asks for is there with the fields of the binding's schemas,     *)
(* however reads, creates and updates of other bindings and of users came  *)
(* in between.  Only the deletion of the SearchIndex itself, which the     *)
(* controller does not watch, goes unnoticed.                              *)
Settled ==
  \A b \in Bindings : Quiet(b) =>
    \A x \in Claims(b) : Serves(x, b) \/ searchIndexes[x].phase = "removed"

(* ensureSearchIndex owns DefaultFields only: its update never undoes what *)
(* a user set in the rest of the spec after the SearchIndex was read.      *)
UserEditsKept ==
  [][\A x \in Names :
       Exists(x) /\ searchIndexes'[x].phase = "live" /\ edits' = edits
         => searchIndexes'[x].rest = searchIndexes[x].rest]_vars

(* "Process ensures that a SearchIndex exists in the org workspace for     *)
(* each bound APIBinding": in spite of creation races, conflicts, lost     *)
(* replies and restarts each SearchIndex a binding asks for gets the       *)
(* fields of the binding, unless the request or the SearchIndex goes away. *)
BindingServed ==
  \A b \in Bindings, x \in Names :
    x \in Claims(b) ~> \/ x \notin Claims(b)
                       \/ Serves(x, b)
                       \/ searchIndexes[x].phase = "removed"

-----------------------------------------------------------------------------
(* Why the safety properties hold: the invariants the proofs rest on       *)

\* What b is, or once was.
Known(b, binding) == binding = NotBound \/ \E s \in StatusesOf[b] : binding = Bound(s)

\* A reconcile works through claims, and with fields, that b once had together.
Sourced(b) ==
  b \in Running =>
    /\ OrgOf[b] # NoOrg
    /\ job[b].claims # <<>>
    /\ \E s \in StatusesOf[b] :
         /\ job[b].fields = DefaultFields(Bound(s))
         /\ NamesOf(b, job[b].claims) \subseteq NamesOf(b, s.claims)

\* The SearchIndex that Get returned is the one to be updated as it is or as it
\* once was.
ReadLags(b) ==
  job[b].step = "update" =>
    LET o == searchIndexes[Name(b)] IN
      /\ job[b].copy.phase = "live"
      /\ job[b].copy.version <= o.version
      /\ job[b].copy.version = o.version => job[b].copy = o

(* A reconcile works on claims and fields that its binding once had at the *)
(* same time, and the SearchIndex it updates is the one Get returned, as   *)
(* it is or as it was.                                                     *)
IInv ==
  /\ TypeOK
  /\ \A b \in Bindings :
       Known(b, bindings[b]) /\ Known(b, cache[b]) /\ Sourced(b) /\ ReadLags(b)

\* Bindings with a SearchIndex in common agree on its fields, whatever statuses
\* they go through.
Agreeing ==
  \A b, c \in Bindings : b # c =>
    \A s \in StatusesOf[b], t \in StatusesOf[c] :
      ClaimsOf(b, Bound(s)) \cap ClaimsOf(c, Bound(t)) # {}
        => DefaultFields(Bound(s)) = DefaultFields(Bound(t))

\* The names the reconcile of b has still to see to.
Pending(b) == IF b \in Running THEN NamesOf(b, job[b].claims) ELSE {}

ServedOrRemoved(x, fields) ==
  \/ Exists(x) /\ searchIndexes[x].fields = fields
  \/ searchIndexes[x].phase = "removed"

\* Unless the key is queued, all that the cached binding asks for is served or
\* still to come in the running reconcile, with the fields it asks for.
Noted(b) ==
  b \in queue \/
    /\ b \in Running => job[b].fields = DefaultFields(cache[b])
    /\ \A x \in ClaimsOf(b, cache[b]) :
         x \in Pending(b) \/ ServedOrRemoved(x, DefaultFields(cache[b]))
=============================================================================

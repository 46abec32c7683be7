------------------------- MODULE SearchIndexPromise -------------------------
(***************************************************************************)
(* What the SearchIndex controller promises those who write documents.     *)
(*                                                                         *)
(* The controllers of the searchable resources see a SearchIndex through   *)
(* its status only: it is there or not, and it names an index or not.      *)
(* They probe nothing.  This module says how phase, name and index may     *)
(* change from their point of view; IndexLifecycle implements it with a    *)
(* stale cache, a dozen requests per reconcile and failures in between,    *)
(* and ResourceWatcher is checked against it.                              *)
(***************************************************************************)

CONSTANT AutoCreateIndex  \* does OpenSearch create an index on a write?

VARIABLES
  phase,   \* of the SearchIndex object
  named,   \* does its status name an index?
  index    \* the index that is, or could be, the SearchIndex's: "made" by the
           \* operator, "auto" if OpenSearch made it upon a write, or "none"

vars == <<phase, named, index>>

\* A legacy index may be older than any SearchIndex.
Init ==
  /\ phase = "absent"
  /\ named = FALSE
  /\ index \in {"none", "made"}

Create ==
  /\ phase = "absent"
  /\ phase' = "live"
  /\ UNCHANGED <<named, index>>

\* A reconcile that started on a live SearchIndex may get to create the index
\* when the SearchIndex is being deleted, but not when it has gone.
MakeIndex ==
  /\ phase # "absent"
  /\ index' = "made"
  /\ UNCHANGED <<phase, named>>

\* A late document may bring an index back at any time.
AutoMakeIndex ==
  /\ AutoCreateIndex
  /\ index = "none"
  /\ index' = "auto"
  /\ UNCHANGED <<phase, named>>

\* Only an index that is there is published.
Publish ==
  /\ phase # "absent"
  /\ index # "none"
  /\ named' = TRUE
  /\ UNCHANGED <<phase, index>>

\* A SearchIndex without a name may have no finalizer yet.
Delete ==
  /\ phase = "live"
  /\ phase' \in IF named THEN {"deleting"} ELSE {"deleting", "absent"}
  /\ UNCHANGED <<named, index>>

\* The index stays as long as the status of a live SearchIndex names it.  One
\* that OpenSearch made may be there beside it.
DropIndex ==
  /\ ~(phase = "live" /\ named)
  /\ index' \in IF AutoCreateIndex THEN {"none", "auto"} ELSE {"none"}
  /\ index # "none"
  /\ UNCHANGED <<phase, named>>

\* A SearchIndex that published an index outlives the one the operator made.
Release ==
  /\ phase = "deleting"
  /\ named => index # "made"
  /\ phase' = "absent"
  /\ named' = FALSE
  /\ UNCHANGED index

Next ==
  \/ Create \/ MakeIndex \/ AutoMakeIndex \/ Publish \/ Delete \/ DropIndex \/ Release

Spec == Init /\ [][Next]_vars
=============================================================================

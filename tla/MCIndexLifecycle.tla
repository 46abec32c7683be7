-------------------------- MODULE MCIndexLifecycle --------------------------
(***************************************************************************)
(* Small instances of IndexLifecycle.  n1 and n2 are SearchIndex names,    *)
(* org and org2 organization cluster IDs; each is a possible index name.   *)
(***************************************************************************)
EXTENDS IndexLifecycle

CONSTANTS n1, n2, org

MCIndexNames1 == {n1, org}
MCIndexNames2 == {n1, n2, org}

\* Both SearchIndexes belong to one organization.
MCOrgOf == [n \in SearchIndexes |-> org]

Base == [shards |-> 1, replicas |-> 1, paused |-> FALSE, mappable |-> TRUE]

\* What the APIBinding controller creates: it sets shards and replicas to 1.
MCCreatedSpec == Base

MCSpecsOne == {Base}

\* Other numbers of shards and replicas, both of which are normalised.
MCSpecsReplicas == {Base, [Base EXCEPT !.shards = 0, !.replicas = -1]}

\* One spec for each branch of Process: normalised shards and replicas, shards
\* that differ, a pause, semantic fields that cannot be mapped.
MCSpecsAll ==
  MCSpecsReplicas \cup
  {[Base EXCEPT !.shards = 2],
   [Base EXCEPT !.paused = TRUE], [Base EXCEPT !.mappable = FALSE]}
=============================================================================

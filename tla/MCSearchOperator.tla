-------------------------- MODULE MCSearchOperator --------------------------
(***************************************************************************)
(* Small instances of SearchOperator.                                      *)
(***************************************************************************)
EXTENDS SearchOperator

CONSTANTS r1, d1

MCDocIdOf == [r \in Resources |-> d1]

\* What the APIBinding controller creates, with the CRD's defaults.
MCCreatedSpec == [shards |-> 1, replicas |-> 1, paused |-> FALSE, mappable |-> TRUE]

MCSpecs == {MCCreatedSpec}
=============================================================================

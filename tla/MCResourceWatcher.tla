------------------------- MODULE MCResourceWatcher -------------------------
(***************************************************************************)
(* Small instances of ResourceWatcher.                                     *)
(***************************************************************************)
EXTENDS ResourceWatcher

CONSTANTS r1, r2, d1, d2

\* Cluster, namespace, kind and name tell the resources apart.
MCDocIdOf == [r \in Resources |-> IF r = r1 THEN d1 ELSE d2]
=============================================================================

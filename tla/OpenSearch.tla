----------------------------- MODULE OpenSearch -----------------------------
(***************************************************************************)
(* The OpenSearch cluster as internal/opensearch/client.go uses it: what   *)
(* one request observes or changes.  A client method that sends several    *)
(* requests (CreateIndex and DeleteIndex probe first, EnsureAliases sends  *)
(* one request per alias) is a sequence of steps of its caller, so that    *)
(* other actors can run between two requests.                              *)
(*                                                                         *)
(* The operator talks of indices by name, and OpenSearch resolves a name   *)
(* to an index or to an alias of an index.  Where the two differ decides   *)
(* what the code does with a legacy index, so aliases are kept.            *)
(* Documents are not part of this store.                                   *)
(***************************************************************************)
EXTENDS Integers

CONSTANTS
  IndexNames,   \* every name an index can have
  AllAlias      \* the alias "<prefix>-all"

VARIABLES
  indices,      \* names of the concrete indices that exist
  settings,     \* per index name: shards, replicas, and whether the mapping
                \* built by DefaultIndexMapping was applied at creation
  aliases       \* pairs <<alias, index>>

store == <<indices, settings, aliases>>

Settings == [shards : Int, replicas : Int, mapped : BOOLEAN]

NoSettings == [shards |-> 0, replicas |-> 0, mapped |-> FALSE]

\* What action.auto_create_index gives an index made by a document write.
AutoSettings == [shards |-> 1, replicas |-> 1, mapped |-> FALSE]

AliasNames == IndexNames \cup {AllAlias}

StoreTypeOK ==
  /\ indices \subseteq IndexNames
  /\ settings \in [IndexNames -> Settings]
  /\ aliases \subseteq AliasNames \X IndexNames

(* HEAD /name answers for an index and for an alias alike.                 *)
IndexExists(x) == x \in indices \/ \E i \in indices : <<x, i>> \in aliases

(* GET /name/_settings keys its answer by the concrete index, and the      *)
(* client looks the requested name up in it.                               *)
HasIndexSettings(x) == x \in indices

(* PUT /name.  The caller's settings and mapping apply to a new index only.*)
PutIndex(x, s) ==
  /\ indices' = indices \cup {x}
  /\ settings' = [settings EXCEPT ![x] = s]
  /\ UNCHANGED aliases

(* PUT /name/_settings {"index": {"number_of_replicas": r}}                *)
PutReplicas(x, r) ==
  /\ settings' = [settings EXCEPT ![x].replicas = r]
  /\ UNCHANGED <<indices, aliases>>

(* PUT /name/_alias/alias                                                  *)
PutAlias(x, alias) ==
  /\ aliases' = aliases \cup {<<alias, x>>}
  /\ UNCHANGED <<indices, settings>>

(* DELETE /name takes the aliases of the index with it.                    *)
DropIndex(x) ==
  /\ indices' = indices \ {x}
  /\ settings' = [settings EXCEPT ![x] = NoSettings]
  /\ aliases' = {a \in aliases : a[2] # x}
=============================================================================

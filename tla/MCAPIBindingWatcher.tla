------------------------ MODULE MCAPIBindingWatcher ------------------------
(***************************************************************************)
(* Small instances of APIBindingWatcher: bindings of two workspaces of one *)
(* organization; and what the names built by IndexNames guarantee.         *)
(***************************************************************************)
EXTENDS APIBindingWatcher, IndexNames

CONSTANTS b1, b2, org, accounts, things, f1, f2, s1, s2

MCOrgOf == [b \in Bindings |-> org]

MCNames == {<<org, r>> : r \in Resources}

\* The name is built from the two, and no two resources collide (see
\* ResourcesNamedApart).
MCCanonicalName == [p \in Orgs \X Resources |-> p]

MCFieldsOf == [s \in Schemas |-> IF s = s1 THEN {f1} ELSE {f1, f2}]

Claim(c, s) == [claims |-> c, schemas |-> s]

\* Both bindings claim accounts, always with the schema s1; only b2 claims
\* things, whose export moves from one schema to two.
MCStatusesAgreeing ==
  [b \in Bindings |->
     IF b = b1 THEN {Claim(<<accounts>>, {s1})}
     ELSE {Claim(<<things>>, {s1}), Claim(<<things>>, {s1, s2}),
           Claim(<<things, accounts>>, {s1})}]

\* Two workspaces of the organization claim accounts through exports with
\* different schemas.
MCStatusesDiffering ==
  [b \in Bindings |->
     {Claim(<<accounts>>, IF b = b1 THEN {s1} ELSE {s2})}]

-----------------------------------------------------------------------------
(* Names, over the words of some characters                                *)

MCLower == [c \in Chars |-> IF c = "L" THEN "l" ELSE c]

Prefix == <<"l", "-", "a">>

MaxLength == 255

\* Words up to a length over some characters.
Words(chars, length) == UNION {[1 .. n -> chars] : n \in 0 .. length}

\* Cluster IDs have no dash; resource names begin and end with a letter.
ClusterIDs == Words({"a", "l"}, 3) \ {<<>>}

ResourceNames ==
  {w \in Words({"a", "l", "-"}, 3) : w # <<>> /\ Head(w) # "-" /\ Last(w) # "-"}

(* What is sanitized stays as it is.                                       *)
ASSUME WordsStay == SanitizedStays(Words({"a", "L", "p", "-", "."}, 4))

(* Two resources, of one or of two organizations, get two names, unless    *)
(* they only differ in doubled dashes.                                     *)
ASSUME ResourcesNamedApart == NamedApart(Prefix, ClusterIDs, ResourceNames, MaxLength)

(* No name is a cluster ID or the common alias.                            *)
ASSUME NamesApartFromAliases ==
  ApartFromAliases(Prefix, ClusterIDs, ResourceNames, MaxLength)
=============================================================================

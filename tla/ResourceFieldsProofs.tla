------------------------ MODULE ResourceFieldsProofs ------------------------
(***************************************************************************)
(* Proofs about ResourceDocument: the semantic fields that                 *)
(* DefaultIndexMapping accepts are fields that a document can carry, for   *)
(* every list of fields and every tree of a resource, in whatever order    *)
(* the loop of buildDocumentSource takes them.                             *)
(***************************************************************************)
EXTENDS ResourceDocument, WellFoundedInduction, TLAPS

-----------------------------------------------------------------------------
(* Induction                                                               *)

(* A set that holds 0, and with a number the next one, holds all of them.  *)
LEMMA InductiveSet ==
  ASSUME NEW S, 0 \in S, \A n \in Nat : n \in S => n + 1 \in S
  PROVE  Nat \subseteq S
<1> DEFINE R == OpToRel(<, Nat)
           T == Nat \ S
<1> SUFFICES ASSUME T # {} PROVE FALSE
  OBVIOUS
<1>1. IsWellFoundedOn(R, Nat)
  BY NatLessThanWellFounded
<1>2. \A x, y \in Nat : x < y => <<x, y>> \in R
  BY DEF OpToRel
<1> HIDE DEF R
<1>3. PICK x \in T : \A y \in T : <<y, x>> \notin R
  BY <1>1, WFMin
<1>4. x # 0 /\ x - 1 \in Nat /\ x - 1 < x /\ x = (x - 1) + 1
  OBVIOUS
<1> QED
  BY <1>2, <1>3, <1>4

-----------------------------------------------------------------------------
(* Paths                                                                   *)

(* A segment is a path, and makes one when it is put before a path.        *)
LEMMA SegmentsMakePaths ==
  ASSUME NEW x \in Segments
  PROVE  /\ <<x>> \in Paths /\ <<x>>[1] = x /\ Len(<<x>>) = 1
         /\ \A p \in Paths : <<x>> \o p \in Paths /\ (<<x>> \o p)[1] = x
BY DEF Paths

(* A path lies on the way to another one segment by segment.               *)
LEMMA PrefixPointwise ==
  ASSUME NEW s \in Seq(Segments), NEW t \in Seq(Segments)
  PROVE  IsPrefix(s, t) <=> Len(s) <= Len(t) /\ \A i \in 1 .. Len(s) : s[i] = t[i]
BY DEF IsPrefix

(* The ancestors of a path are its proper prefixes.                        *)
LEMMA AncestorsArePrefixes ==
  ASSUME NEW p \in Paths, NEW q
  PROVE  q \in Ancestors(p) <=> q \in Paths /\ q # p /\ IsPrefix(q, p)
BY DEF Paths, Ancestors, Prefixes, IsPrefix

(* Prefixes order the paths partially; those of one path, totally.         *)
LEMMA PrefixesAreOrdered ==
  ASSUME NEW p \in Paths, NEW q \in Paths, NEW r \in Paths
  PROVE  /\ IsPrefix(p, p)
         /\ IsPrefix(p, q) /\ IsPrefix(q, p) => p = q
         /\ IsPrefix(p, q) /\ IsPrefix(q, r) => IsPrefix(p, r)
         /\ IsPrefix(p, r) /\ IsPrefix(q, r) => IsPrefix(p, q) \/ IsPrefix(q, p)
         /\ IsPrefix(p, q) => p[1] = q[1]
<1> USE DEF Paths
<1>1. IsPrefix(p, p)
  BY PrefixPointwise
<1>2. ASSUME IsPrefix(p, q), IsPrefix(q, p) PROVE p = q
  BY <1>2, PrefixPointwise
<1>3. ASSUME IsPrefix(p, q), IsPrefix(q, r) PROVE IsPrefix(p, r)
  BY <1>3, PrefixPointwise
<1>4. ASSUME IsPrefix(p, r), IsPrefix(q, r), Len(p) <= Len(q) PROVE IsPrefix(p, q)
  BY <1>4, PrefixPointwise
<1>5. ASSUME IsPrefix(p, r), IsPrefix(q, r), Len(q) <= Len(p) PROVE IsPrefix(q, p)
  BY <1>5, PrefixPointwise
<1>6. ASSUME IsPrefix(p, q) PROVE p[1] = q[1]
  BY <1>6, PrefixPointwise
<1> QED
  BY <1>1, <1>2, <1>3, <1>4, <1>5, <1>6

-----------------------------------------------------------------------------
(* The mapping                                                             *)

(* DefaultIndexMapping takes the fields one by one.                        *)
LEMMA MappingsInTurn ==
  ASSUME NEW fields, Len(fields) \in Nat
  PROVE  Mappings(fields) =
           [i \in 0 .. Len(fields) |->
              IF i = 0 THEN BaseMapping
              ELSE AddSemanticField(Mappings(fields)[i - 1], fields[i])]
<1> DEFINE Turns(m, n) ==
             m = [i \in 0 .. n |-> IF i = 0 THEN BaseMapping
                                   ELSE AddSemanticField(m[i - 1], fields[i])]
           S == {n \in Nat : \E m : Turns(m, n)}
<1>1. 0 \in S
  <2> DEFINE m == [i \in 0 .. 0 |-> BaseMapping]
  <2>1. Turns(m, 0)
    OBVIOUS
  <2> HIDE DEF m
  <2> QED
    BY <2>1
<1>2. ASSUME NEW n \in Nat, n \in S PROVE n + 1 \in S
  <2>1. PICK m : Turns(m, n)
    BY <1>2
  <2> DEFINE next == [i \in 0 .. n + 1 |->
                        IF i <= n THEN m[i] ELSE AddSemanticField(m[n], fields[n + 1])]
  <2>2. Turns(next, n + 1)
    <3>1. \A i \in 0 .. n : m[i] = IF i = 0 THEN BaseMapping
                                   ELSE AddSemanticField(m[i - 1], fields[i])
      BY <2>1
    <3>2. \A i \in 0 .. n + 1 : next[i] = IF i = 0 THEN BaseMapping
                                          ELSE AddSemanticField(next[i - 1], fields[i])
      <4> TAKE i \in 0 .. n + 1
      <4>1. CASE i = 0
        BY <3>1, <4>1
      <4>2. CASE i # 0 /\ i <= n
        <5>1. next[i] = m[i] /\ next[i - 1] = m[i - 1]
          BY <4>2
        <5> HIDE DEF next
        <5> QED
          BY <3>1, <4>2, <5>1
      <4>3. CASE i = n + 1
        <5>1. next[i] = AddSemanticField(m[n], fields[n + 1]) /\ next[i - 1] = m[n]
          BY <4>3
        <5> HIDE DEF next
        <5> QED
          BY <4>3, <5>1
      <4> QED
        BY <4>1, <4>2, <4>3
    <3> QED
      BY <3>2
  <2> HIDE DEF next
  <2> QED
    BY <2>2
<1>3. PICK m : Turns(m, Len(fields))
  BY <1>1, <1>2, InductiveSet
<1>4. Mappings(fields) = CHOOSE f : Turns(f, Len(fields))
  BY Zenon DEF Mappings
<1> HIDE DEF Turns
<1>5. Turns(Mappings(fields), Len(fields))
  BY <1>3, <1>4, Zenon
<1> QED
  BY <1>5 DEF Turns

(* What DefaultIndexMapping types of its own is neither semantic nor an    *)
(* object; the document's own fields are among it.                         *)
LEMMA BaseMappingTypes ==
  /\ \A p \in DOMAIN BaseMapping : BaseMapping[p] # "semantic" /\ BaseMapping[p] # "object"
  /\ \A f \in OwnFields : <<f>> \in DOMAIN BaseMapping
<1> DEFINE keywords == [p \in {<<f>> : f \in Keywords} |-> "keyword"]
           tuples == [p \in {<<"permissions", f>> : f \in {"user", "relation", "object"}}
                        |-> "keyword"]
           texts == [p \in {<<"name">>, <<"payload_text">>} |-> "text"]
           flat == [p \in {<<"labels">>, <<"annotations">>} |-> "flat_object"]
           dates == [p \in {<<"created_at">>, <<"updated_at">>} |-> "date"]
           nested == [p \in {<<"permissions">>} |-> "nested"]
           Plain(m) == \A p \in DOMAIN m : m[p] # "semantic" /\ m[p] # "object"
<1>1. /\ Plain(keywords) /\ Plain(tuples) /\ Plain(texts)
      /\ Plain(flat) /\ Plain(dates) /\ Plain(nested)
  OBVIOUS
<1>2. \A f \in OwnFields :
        \/ <<f>> \in DOMAIN keywords \/ <<f>> \in DOMAIN texts
        \/ <<f>> \in DOMAIN dates \/ <<f>> \in DOMAIN nested
  BY DEF OwnFields, Keywords
<1>3. BaseMapping =
        Over(keywords, Over(tuples, Over(texts, Over(flat, Over(dates, nested)))))
  BY DEF BaseMapping
<1> HIDE DEF keywords, tuples, texts, flat, dates, nested
<1>4. \A f, g : Plain(f) /\ Plain(g) => Plain(Over(f, g))
  BY DEF Over
<1>5. \A p, f, g : p \in DOMAIN f \/ p \in DOMAIN g => p \in DOMAIN Over(f, g)
  BY DEF Over
<1> HIDE DEF Plain
<1>6. Plain(BaseMapping)
  BY <1>1, <1>3, <1>4, Zenon
<1>7. \A p : p \in DOMAIN keywords \/ p \in DOMAIN texts \/ p \in DOMAIN dates
               \/ p \in DOMAIN nested => p \in DOMAIN BaseMapping
  BY <1>3, <1>5, Zenon
<1> QED
  BY <1>2, <1>6, <1>7 DEF Plain

(* What a field gets in a mapping that is not refused.                     *)
MappedIn(m, field) ==
  LET path == Split(field) IN
    path # <<>> => /\ path \in DOMAIN m /\ m[path] = "semantic"
                   /\ \A q \in Ancestors(path) : q \in DOMAIN m /\ m[q] = "object"

Extends(m, n) == DOMAIN n \subseteq DOMAIN m /\ \A p \in DOMAIN n : m[p] = n[p]

(* A field that is accepted is mapped, and changes nothing of the mapping. *)
LEMMA FieldAdded ==
  ASSUME NEW m, NEW field, AddSemanticField(m, field) # Refused
  PROVE  /\ m # Refused
         /\ Extends(AddSemanticField(m, field), m)
         /\ MappedIn(AddSemanticField(m, field), field)
<1> DEFINE path == Split(field)
<1>1. CASE path = <<>>
  BY <1>1 DEF AddSemanticField, Extends, MappedIn
<1>2. CASE path # <<>>
  <2> DEFINE inner == Over(m, [q \in Ancestors(path) |-> "object"])
             new == Over([p \in {path} |-> "semantic"], inner)
  <2>1. /\ m # Refused
        /\ AddSemanticField(m, field) = new
        /\ \A q \in Ancestors(path) \cap DOMAIN m : m[q] = "object"
        /\ path \in DOMAIN m => m[path] = "semantic"
    BY <1>2 DEF AddSemanticField
  <2>2. path \notin Ancestors(path)
    BY DEF Ancestors
  <2> HIDE DEF path
  <2>3. /\ DOMAIN inner = DOMAIN m \cup Ancestors(path)
        /\ \A p \in DOMAIN m : inner[p] = m[p]
        /\ \A q \in Ancestors(path) : inner[q] = "object"
    BY <2>1 DEF Over
  <2> HIDE DEF inner
  <2>4. /\ DOMAIN new = {path} \cup DOMAIN inner
        /\ new[path] = "semantic"
        /\ \A p \in DOMAIN inner : p # path => new[p] = inner[p]
    BY DEF Over
  <2> HIDE DEF new
  <2>5. Extends(new, m)
    BY <2>1, <2>3, <2>4 DEF Extends
  <2>6. MappedIn(new, field)
    BY <2>2, <2>3, <2>4 DEF MappedIn, path
  <2> QED
    BY <2>1, <2>5, <2>6
<1> QED
  BY <1>1, <1>2

(* An accepted mapping has every field, and all that it started from.      *)
LEMMA AcceptedFieldsMapped ==
  ASSUME NEW fields, Len(fields) \in Nat, Accepted(fields)
  PROVE  /\ Extends(Mapping(fields), BaseMapping)
         /\ \A i \in 1 .. Len(fields) : MappedIn(Mapping(fields), fields[i])
<1> DEFINE m == Mappings(fields)
           Right(n) == m[n] # Refused =>
                         /\ Extends(m[n], BaseMapping)
                         /\ \A i \in 1 .. n : MappedIn(m[n], fields[i])
           S == {n \in Nat : n <= Len(fields) => Right(n)}
<1>1. m[0] = BaseMapping
  BY MappingsInTurn
<1>2. \A n \in 1 .. Len(fields) : m[n] = AddSemanticField(m[n - 1], fields[n])
  BY MappingsInTurn
<1> HIDE DEF m
<1>3. 0 \in S
  BY <1>1 DEF Extends
<1>4. ASSUME NEW n \in Nat, n \in S PROVE n + 1 \in S
  <2> SUFFICES ASSUME n + 1 <= Len(fields), m[n + 1] # Refused PROVE Right(n + 1)
    OBVIOUS
  <2>1. m[n + 1] = AddSemanticField(m[n], fields[n + 1])
    BY <1>2
  <2>2. /\ m[n] # Refused
        /\ Extends(m[n + 1], m[n])
        /\ MappedIn(m[n + 1], fields[n + 1])
    BY <2>1, FieldAdded
  <2>3. Extends(m[n], BaseMapping) /\ \A i \in 1 .. n : MappedIn(m[n], fields[i])
    BY <1>4, <2>2
  <2>4. Extends(m[n + 1], BaseMapping)
    BY <2>2, <2>3 DEF Extends
  <2>5. \A i \in 1 .. n : MappedIn(m[n + 1], fields[i])
    BY <2>2, <2>3 DEF Extends, MappedIn
  <2> QED
    BY <2>2, <2>4, <2>5
<1>5. Right(Len(fields))
  <2> HIDE DEF Right, S
  <2>1. Nat \subseteq S
    BY <1>3, <1>4, InductiveSet
  <2> QED
    BY <2>1 DEF S
<1> QED
  BY <1>5 DEF m, Mapping, Accepted

(* Of accepted fields that a resource has, none lies on the way to another,*)
(* and neither they nor their ancestors are the document's own.            *)
LEMMA AcceptedFieldsApart ==
  ASSUME LoopTypeOK, Accepted(semanticFields), NEW f \in Fields, NEW g \in Fields
  PROVE  /\ Split(f) \in Paths
         /\ Split(f) \notin Ancestors(Split(g))
         /\ \A o \in OwnFields : <<o>> # Split(f) /\ <<o>> \notin Ancestors(Split(f))
<1> DEFINE m == Mapping(semanticFields)
<1>1. semanticFields \in Seq(Seq(Segments)) /\ DOMAIN resource.content \subseteq Paths
  BY DocumentAssumption DEF DocumentAssumption, LoopTypeOK, FieldsOK, ResourceOK, Trees
<1>2. \A h \in Fields : /\ \E i \in 1 .. Len(semanticFields) : h = semanticFields[i]
                        /\ Split(h) \in Paths
  BY <1>1 DEF Fields, Configured
<1>3. Len(semanticFields) \in Nat
  BY <1>1
<1>4. \A h \in Fields : MappedIn(m, h)
  BY <1>2, <1>3, AcceptedFieldsMapped
<1>5. Extends(m, BaseMapping)
  BY <1>3, AcceptedFieldsMapped
<1> HIDE DEF m
<1>6. \A h \in Fields : /\ m[Split(h)] = "semantic"
                        /\ \A q \in Ancestors(Split(h)) : m[q] = "object"
  BY <1>2, <1>4 DEF MappedIn, Paths
<1>7. \A o \in OwnFields : m[<<o>>] # "semantic" /\ m[<<o>>] # "object"
  BY <1>5, BaseMappingTypes DEF Extends
<1> QED
  BY <1>2, <1>6, <1>7

-----------------------------------------------------------------------------
(* The document                                                            *)

(* A value is put where it belongs, whatever lay there.                    *)
LEMMA PutPuts ==
  ASSUME NEW T, NEW content, NEW path \in Paths, NEW P, P = Put(T, content, path),
         DOMAIN T \subseteq Paths, DOMAIN content \subseteq Paths
  PROVE  /\ \A p : p \in DOMAIN P <=> \/ p \in DOMAIN T \ Below(T, path)
                                    \/ p \in Ancestors(path)
                                    \/ p \in Below(content, path)
         /\ DOMAIN P \subseteq Paths
         /\ \A p \in DOMAIN T \ Below(T, path) : P[p] = T[p]
         /\ \A p \in Ancestors(path) : p \notin DOMAIN T => P[p] = "object"
         /\ Subtree(P, path) = Subtree(content, path)
<1> DEFINE kept == [p \in DOMAIN T \ Below(T, path) |-> T[p]]
           way == [q \in Ancestors(path) |-> "object"]
           value == Subtree(content, path)
           rest == Over(way, value)
<1>1. /\ Ancestors(path) \subseteq Paths
      /\ \A q \in Ancestors(path) : ~IsPrefix(path, q)
  BY AncestorsArePrefixes, PrefixesAreOrdered
<1>2. /\ Below(T, path) \subseteq DOMAIN T
      /\ Below(content, path) \subseteq DOMAIN content
      /\ \A p \in Below(content, path) : IsPrefix(path, p)
      /\ \A p \in DOMAIN T \ Below(T, path) : ~IsPrefix(path, p)
  BY DEF Below
<1>3. /\ DOMAIN value = Below(content, path)
      /\ \A p \in Below(content, path) : value[p] = content[p]
  BY DEF Subtree
<1>4. /\ DOMAIN rest = Ancestors(path) \cup Below(content, path)
      /\ \A p \in Ancestors(path) : rest[p] = "object"
      /\ \A p \in Below(content, path) : rest[p] = content[p]
  <2> HIDE DEF value
  <2> QED
    BY <1>1, <1>2, <1>3 DEF Over
<1>5. /\ DOMAIN kept = DOMAIN T \ Below(T, path)
      /\ \A p \in DOMAIN T \ Below(T, path) : kept[p] = T[p]
  OBVIOUS
<1>6. P = Over(kept, rest)
  BY DEF Put
<1> HIDE DEF kept, way, value, rest
<1>7. /\ DOMAIN P = (DOMAIN T \ Below(T, path)) \cup Ancestors(path) \cup Below(content, path)
      /\ \A p \in DOMAIN T \ Below(T, path) : P[p] = T[p]
      /\ \A p \in DOMAIN rest : p \notin DOMAIN kept => P[p] = rest[p]
  BY <1>4, <1>5, <1>6 DEF Over
<1>8. /\ Below(P, path) = Below(content, path)
      /\ \A p \in Below(content, path) : P[p] = content[p]
  BY <1>1, <1>2, <1>4, <1>5, <1>7 DEF Below
<1>9. Subtree(P, path) = Subtree(content, path)
  BY <1>8 DEF Subtree
<1>10. DOMAIN P \subseteq Paths
  BY <1>1, <1>2, <1>7
<1>11. \A p \in Ancestors(path) : p \notin DOMAIN T => P[p] = "object"
  BY <1>4, <1>5, <1>7
<1> QED
  BY <1>7, <1>9, <1>10, <1>11

(* What lies apart from a path is not touched by a value put there.        *)
LEMMA PutLeavesOthers ==
  ASSUME NEW T, NEW content, NEW path \in Paths, NEW other \in Paths,
         DOMAIN T \subseteq Paths, DOMAIN content \subseteq Paths,
         ~IsPrefix(path, other), ~IsPrefix(other, path)
  PROVE  Subtree(Put(T, content, path), other) = Subtree(T, other)
<1> DEFINE P == Put(T, content, path)
<1> HIDE DEF P
<1>0. P = Put(T, content, path)
  BY DEF P
<1>1. /\ \A p : p \in DOMAIN P <=> \/ p \in DOMAIN T \ Below(T, path)
                                 \/ p \in Ancestors(path)
                                 \/ p \in Below(content, path)
      /\ \A p \in DOMAIN T \ Below(T, path) : P[p] = T[p]
  BY <1>0, PutPuts
<1>2. ASSUME NEW p \in Paths, IsPrefix(other, p)
      PROVE  p \notin Below(T, path) /\ p \notin Below(content, path) /\ p \notin Ancestors(path)
  BY <1>2, PrefixesAreOrdered, AncestorsArePrefixes DEF Below
<1>3. Below(T, path) \subseteq DOMAIN T /\ Below(content, path) \subseteq DOMAIN content
  BY DEF Below
<1>4. Ancestors(path) \subseteq Paths
  BY AncestorsArePrefixes
<1>5. Below(P, other) = Below(T, other)
  BY <1>1, <1>2, <1>3, <1>4 DEF Below
<1>6. \A p \in Below(T, other) : P[p] = T[p]
  BY <1>1, <1>2, <1>3 DEF Below
<1> QED
  BY <1>5, <1>6 DEF Subtree, P

(* The document that the loop starts from.                                 *)
LEMMA OwnSourceOwns ==
  ASSUME NEW content, DOMAIN content \subseteq Paths
  PROVE  /\ DOMAIN OwnSource(content) \subseteq Paths
         /\ \A p \in DOMAIN OwnSource(content) :
              (\E f \in OwnFields : p = <<f>>) \/ p[1] = "custom_fields"
         /\ \A f \in OwnFields : Subtree(OwnSource(content), <<f>>) = [p \in {<<f>>} |-> "own"]
<1> DEFINE own == [p \in {<<f>> : f \in OwnFields} |-> "own"]
           custom == CustomFields(content)
           S == OwnSource(content)
<1>1. /\ DOMAIN own = {<<f>> : f \in OwnFields}
      /\ \A f \in OwnFields : <<f>> \in DOMAIN own /\ own[<<f>>] = "own"
  OBVIOUS
<1>2. \A f \in OwnFields : <<f>> \in Paths /\ <<f>>[1] = f /\ f # "custom_fields"
  <2>1. \A f \in OwnFields : f # "custom_fields"
    BY DEF OwnFields
  <2> QED
    BY <2>1, SegmentsMakePaths DEF Segments
<1>3. \A p \in DOMAIN custom : p \in Paths /\ p[1] = "custom_fields"
  <2>1. DOMAIN custom \subseteq
          {<<"custom_fields">>} \cup {<<"custom_fields">> \o q : q \in DOMAIN content}
    BY DEF CustomFields, Over
  <2>2. "custom_fields" \in Segments
    BY DEF Segments
  <2> HIDE DEF custom
  <2>3. /\ <<"custom_fields">> \in Paths /\ <<"custom_fields">>[1] = "custom_fields"
        /\ \A q \in Paths : /\ <<"custom_fields">> \o q \in Paths
                           /\ (<<"custom_fields">> \o q)[1] = "custom_fields"
    BY <2>2, SegmentsMakePaths
  <2> QED
    BY <2>1, <2>3
<1>4. S = Over(own, custom)
  BY DEF OwnSource
<1> HIDE DEF own, custom
<1>5. /\ DOMAIN S = DOMAIN own \cup DOMAIN custom
      /\ \A p \in DOMAIN own : S[p] = own[p]
  BY <1>4 DEF Over
<1> HIDE DEF S
<1>6. ASSUME NEW f \in OwnFields PROVE Subtree(S, <<f>>) = [p \in {<<f>>} |-> "own"]
  <2>1. \A p \in DOMAIN S : p \in Paths /\ (IsPrefix(<<f>>, p) <=> p = <<f>>)
    BY <1>1, <1>2, <1>3, <1>5, PrefixesAreOrdered
  <2>2. Below(S, <<f>>) = {<<f>>} /\ S[<<f>>] = "own"
    BY <1>1, <1>5, <2>1 DEF Below
  <2> QED
    BY <2>2 DEF Subtree
<1> QED
  BY <1>1, <1>2, <1>3, <1>5, <1>6 DEF S

-----------------------------------------------------------------------------
(* The loop                                                                *)

(* The invariant holds initially.                                          *)
LEMMA InitFields == Init => FieldsIInv
BY DEF Init, FieldsIInv, LoopTypeOK, FieldsBuild, BuiltSteps

(* A field that conflicts with what is in the document is one that the     *)
(* mapping does not accept, or lies in "custom_fields".                    *)
LEMMA ConflictsAreRefused ==
  ASSUME FieldsIInv, step = "fields", NEW field \in todo, Conflict(source, Split(field)),
         Accepted(semanticFields)
  PROVE  Split(field)[1] = "custom_fields"
<1> DEFINE path == Split(field)
<1>1. /\ LoopTypeOK
      /\ field \in Fields
      /\ \A p \in DOMAIN source : p \in Paths /\ Placed(p)
  BY DEF FieldsIInv, LoopTypeOK, BuiltSteps
<1>2. PICK q \in Ancestors(path) : q \in DOMAIN source /\ source[q] # "object"
  BY DEF Conflict
<1>3. path \in Paths /\ \A o \in OwnFields : <<o>> \notin Ancestors(path)
  BY <1>1, AcceptedFieldsApart
<1>4. \A g \in Fields : Split(g) \in Paths /\ Split(g) \notin Ancestors(path)
  BY <1>1, AcceptedFieldsApart
<1> HIDE DEF path
<1>5. q \in Paths /\ q # path /\ IsPrefix(q, path) /\ q[1] = path[1]
  BY <1>2, <1>3, AncestorsArePrefixes, PrefixesAreOrdered
<1>6. ASSUME NEW g \in Fields PROVE ~IsPrefix(Split(g), q)
  <2> SUFFICES ASSUME IsPrefix(Split(g), q) PROVE FALSE
    OBVIOUS
  <2>1. IsPrefix(Split(g), path) /\ Split(g) # path
    BY <1>3, <1>4, <1>5, PrefixesAreOrdered
  <2> QED
    BY <1>3, <1>4, <2>1, AncestorsArePrefixes
<1>7. q[1] = "custom_fields"
  BY <1>1, <1>2, <1>3, <1>6 DEF Placed
<1> QED
  BY <1>5, <1>7 DEF path

(* A turn of the loop puts its field into the document, at its place, and  *)
(* leaves the others as they are.                                          *)
LEMMA FieldIsSet ==
  ASSUME FieldsIInv, NEW field \in todo, SetField(field), Accepted(semanticFields),
         step' = "fields"
  PROVE  Carried' /\ \A p \in DOMAIN source' : Placed(p)'
<1> DEFINE path == Split(field)
           content == resource.content
<1>1. /\ LoopTypeOK /\ Carried
      /\ field \in Fields /\ todo \subseteq Fields
      /\ DOMAIN source \subseteq Paths
      /\ \A p \in DOMAIN source : Placed(p)
  BY DEF FieldsIInv, LoopTypeOK, BuiltSteps, SetField
<1>2. /\ source' = Put(source, content, path)
      /\ todo' = todo \ {field}
      /\ UNCHANGED <<resource, semanticFields>>
  BY DEF SetField
<1>3. Fields' = Fields
  BY <1>2 DEF Fields
<1>4. DOMAIN content \subseteq Paths
  BY <1>1, DocumentAssumption DEF DocumentAssumption, LoopTypeOK, ResourceOK, Trees
<1>5. /\ path \in Paths
      /\ \A o \in OwnFields : <<o>> # path /\ <<o>> \notin Ancestors(path)
      /\ \A g \in Fields : /\ Split(g) \in Paths
                           /\ Split(g) \notin Ancestors(path)
                           /\ path \notin Ancestors(Split(g))
  BY <1>1, AcceptedFieldsApart
<1> HIDE DEF path, content
<1>6. /\ \A p : p \in DOMAIN source' <=> \/ p \in DOMAIN source \ Below(source, path)
                                         \/ p \in Ancestors(path)
                                         \/ p \in Below(content, path)
      /\ \A p \in DOMAIN source \ Below(source, path) : source'[p] = source[p]
      /\ \A p \in Ancestors(path) : p \notin DOMAIN source => source'[p] = "object"
      /\ Subtree(source', path) = Subtree(content, path)
  BY <1>1, <1>2, <1>4, <1>5, PutPuts
<1>7. ASSUME NEW p \in DOMAIN source' PROVE Placed(p)'
  <2>1. CASE p \in DOMAIN source \ Below(source, path)
    BY <1>1, <1>3, <1>6, <2>1 DEF Placed
  <2>2. CASE p \in Ancestors(path) /\ p \notin DOMAIN source
    <3>1. source'[p] = "object" /\ p \in Ancestors(Split(field)) /\ field \in Fields'
      BY <1>1, <1>3, <1>6, <2>2 DEF path
    <3> QED
      BY <3>1 DEF Placed
  <2>3. CASE p \in Below(content, path)
    <3>1. IsPrefix(Split(field), p) /\ field \in Fields'
      BY <1>1, <1>3, <2>3 DEF Below, path
    <3> QED
      BY <3>1 DEF Placed
  <2>4. p \in Ancestors(path) /\ p \in DOMAIN source => p \notin Below(source, path)
    BY <1>5, AncestorsArePrefixes, PrefixesAreOrdered DEF Below
  <2> QED
    BY <1>6, <2>1, <2>2, <2>3, <2>4
<1>8. ASSUME NEW q \in Paths, q # path, q \notin Ancestors(path), path \notin Ancestors(q)
      PROVE  Subtree(source', q) = Subtree(source, q)
  <2>1. ~IsPrefix(path, q) /\ ~IsPrefix(q, path)
    BY <1>5, <1>8, AncestorsArePrefixes
  <2> QED
    BY <1>1, <1>2, <1>4, <1>5, <2>1, PutLeavesOthers
<1>9. ASSUME NEW g \in Fields \ todo'
      PROVE  Subtree(source', Split(g)) = Subtree(content, Split(g))
  <2>1. CASE Split(g) = path
    BY <1>6, <2>1
  <2>2. CASE Split(g) # path
    <3>1. g \in Fields \ todo
      BY <1>2, <2>2 DEF path
    <3>2. Subtree(source, Split(g)) = Subtree(content, Split(g))
      BY <1>1, <3>1 DEF Carried, content
    <3> QED
      BY <1>5, <1>8, <2>2, <3>1, <3>2
  <2> QED
    BY <2>1, <2>2
<1>10. ASSUME NEW o \in OwnFields
       PROVE  Subtree(source', <<o>>) = [p \in {<<o>>} |-> "own"]
  <2>1. <<o>> \in Paths /\ Len(<<o>>) = 1
    BY SegmentsMakePaths DEF Segments
  <2>2. path \notin Ancestors(<<o>>)
    <3> SUFFICES ASSUME path \in Ancestors(<<o>>) PROVE FALSE
      OBVIOUS
    <3>1. path # <<o>> /\ IsPrefix(path, <<o>>)
      BY <2>1, AncestorsArePrefixes
    <3> QED
      BY <1>5, <2>1, <3>1, PrefixPointwise DEF Paths
  <2>3. Subtree(source, <<o>>) = [p \in {<<o>>} |-> "own"]
    BY <1>1 DEF Carried
  <2> QED
    BY <1>5, <1>8, <2>1, <2>2, <2>3
<1>11. resource'.content = content
  BY <1>2 DEF content
<1> QED
  BY <1>3, <1>7, <1>9, <1>10, <1>11 DEF Carried

(* Every step of the reconcile keeps the invariant.                        *)
LEMMA NextFields == FieldsIInv /\ [Next]_vars => FieldsIInv'
<1> SUFFICES ASSUME FieldsIInv, [Next]_vars PROVE FieldsIInv'
  OBVIOUS
<1> USE DEF BuiltSteps
<1>0. LoopTypeOK
  BY DEF FieldsIInv
<1>1. ASSUME UNCHANGED <<resource, semanticFields>>, step' \notin BuiltSteps \cup {"failed"}
      PROVE  FieldsIInv'
  BY <1>0, <1>1 DEF FieldsIInv, LoopTypeOK, FieldsBuild
<1>2. ASSUME UNCHANGED <<resource, semanticFields, step, source, todo>> PROVE FieldsIInv'
  <2>1. Fields' = Fields
    BY <1>2 DEF Fields
  <2>2. LoopTypeOK'
    BY <1>0, <1>2, <2>1 DEF LoopTypeOK
  <2>3. (Carried' <=> Carried) /\ \A p : Placed(p)' <=> Placed(p)
    BY <1>2, <2>1 DEF Carried, Placed
  <2>4. FieldsBuild'
    BY <1>2 DEF FieldsIInv, FieldsBuild
  <2> QED
    BY <1>2, <2>2, <2>3, <2>4 DEF FieldsIInv
<1>3. ASSUME Start \/ LookUpPath \/ LookUp \/ LookUpAgain \/ Again PROVE FieldsIInv'
  <2>1. /\ UNCHANGED <<resource, semanticFields>>
        /\ step' \in {"start", "path", "first", "second", "build", "requeued"}
    BY <1>3 DEF Start, LookUpPath, LookUp, LookUpAgain, Found, NextCandidate, Again
  <2> QED
    BY <1>1, <2>1
<1>4. ASSUME NEW c \in Clusters, ProvideAccountInfo(c) PROVE FieldsIInv'
  BY <1>2, <1>4 DEF ProvideAccountInfo
<1>5. ASSUME BuildDocument PROVE FieldsIInv'
  <2>1. CASE step' = "requeued"
    BY <1>1, <1>5, <2>1 DEF BuildDocument
  <2>2. CASE step' = "fields"
    <3>1. /\ UNCHANGED <<resource, semanticFields>>
          /\ source' = OwnSource(resource.content)
          /\ todo' = Fields /\ Fields' = Fields
      BY <1>5, <2>2 DEF BuildDocument, Fields
    <3>2. DOMAIN resource.content \subseteq Paths
      BY <1>0, DocumentAssumption DEF DocumentAssumption, LoopTypeOK, ResourceOK, Trees
    <3>3. /\ DOMAIN source' \subseteq Paths
          /\ \A p \in DOMAIN source' : (\E f \in OwnFields : p = <<f>>) \/ p[1] = "custom_fields"
          /\ \A f \in OwnFields : Subtree(source', <<f>>) = [p \in {<<f>>} |-> "own"]
      BY <3>1, <3>2, OwnSourceOwns
    <3>4. Carried' /\ \A p \in DOMAIN source' : Placed(p)'
      BY <3>1, <3>3 DEF Carried, Placed
    <3> QED
      BY <1>0, <2>2, <3>1, <3>3, <3>4 DEF FieldsIInv, LoopTypeOK, FieldsBuild
  <2> QED
    BY <1>5, <2>1, <2>2 DEF BuildDocument
<1>6. ASSUME NEW field \in todo, SetField(field) PROVE FieldsIInv'
  <2>1. /\ step = "fields" /\ UNCHANGED <<resource, semanticFields>>
        /\ todo \subseteq Fields /\ DOMAIN source \subseteq Paths
        /\ Fields' = Fields
    BY <1>0, <1>6 DEF SetField, LoopTypeOK, Fields
  <2>2. CASE Conflict(source, Split(field)) /\ step' = "failed"
    <3>1. Accepted(semanticFields) => Split(field)[1] = "custom_fields"
      BY <2>1, <2>2, ConflictsAreRefused
    <3>2. FieldsBuild'
      BY <2>1, <3>1 DEF FieldsBuild, Fields
    <3> QED
      BY <1>0, <2>1, <2>2, <3>2 DEF FieldsIInv, LoopTypeOK
  <2>3. CASE step' = "fields"
    <3>1. /\ source' = Put(source, resource.content, Split(field))
          /\ todo' = todo \ {field}
      BY <1>6, <2>3 DEF SetField
    <3>2. DOMAIN resource.content \subseteq Paths /\ Split(field) \in Paths
      <4>1. DOMAIN resource.content \subseteq Paths
        BY <1>0, DocumentAssumption DEF DocumentAssumption, LoopTypeOK, ResourceOK, Trees
      <4>2. semanticFields \in Seq(Seq(Segments))
        BY <1>0, DocumentAssumption DEF DocumentAssumption, LoopTypeOK, FieldsOK
      <4> QED
        BY <2>1, <4>1, <4>2 DEF Fields, Configured
    <3>3. DOMAIN source' \subseteq Paths
      BY <2>1, <3>1, <3>2, PutPuts
    <3>4. LoopTypeOK'
      BY <1>0, <2>1, <2>3, <3>1, <3>3 DEF LoopTypeOK
    <3>5. Accepted(semanticFields) => Carried' /\ \A p \in DOMAIN source' : Placed(p)'
      BY <1>6, <2>3, FieldIsSet
    <3> QED
      BY <2>1, <2>3, <3>4, <3>5 DEF FieldsIInv, FieldsBuild
  <2> QED
    BY <1>6, <2>1, <2>2, <2>3 DEF SetField
<1>7. ASSUME IndexDocument PROVE FieldsIInv'
  <2>1. /\ UNCHANGED <<resource, semanticFields, source, todo>>
        /\ step = "fields" /\ todo = {} /\ step' = "indexed" /\ Fields' = Fields
    BY <1>7 DEF IndexDocument, Fields
  <2>2. (Carried' <=> Carried) /\ \A p : Placed(p)' <=> Placed(p)
    BY <2>1 DEF Carried, Placed
  <2> QED
    BY <1>0, <2>1, <2>2 DEF FieldsIInv, LoopTypeOK, FieldsBuild
<1>8. ASSUME UNCHANGED vars PROVE FieldsIInv'
  BY <1>2, <1>8 DEF vars
<1> QED
  BY <1>3, <1>4, <1>5, <1>6, <1>7, <1>8 DEF Next

(* What is in a document is its own, or there for a semantic field; each   *)
(* field that has been set is there as the resource has it.                *)
THEOREM FieldsInvariance == Spec => []FieldsIInv
BY InitFields, NextFields, PTL DEF Spec

-----------------------------------------------------------------------------
(* What the mapping promises                                               *)

(* A document can be built for every list of semantic fields that          *)
(* DefaultIndexMapping accepts, but for fields in the resource's own       *)
(* "custom_fields".                                                        *)
THEOREM AcceptedFieldsBuild == Spec => []FieldsBuild
<1>1. FieldsIInv => FieldsBuild
  BY DEF FieldsIInv
<1> QED
  BY <1>1, FieldsInvariance, PTL

(* And the document that is indexed carries all of them, and all of its    *)
(* own fields.                                                             *)
THEOREM AcceptedFieldsCarried == Spec => []FieldsCarried
<1>1. FieldsIInv => FieldsCarried
  BY DEF FieldsIInv, LoopTypeOK, Carried, FieldsCarried, BuiltSteps, Fields
<1> QED
  BY <1>1, FieldsInvariance, PTL
=============================================================================

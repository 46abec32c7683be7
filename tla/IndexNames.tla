----------------------------- MODULE IndexNames -----------------------------
(***************************************************************************)
(* How SearchIndexes, indices and aliases get their names:                 *)
(* internal/subroutine/org_path.go, and buildIndexAliases of               *)
(* index_lifecycle.go.  A string is the sequence of its characters.        *)
(***************************************************************************)
EXTENDS Naturals, Sequences, SequencesExt

CONSTANTS
  Chars,          \* characters
  Alphanumerics,  \* "a" to "z" and "0" to "9"
  Lower           \* Char -> Char: what strings.ToLower makes of each

ASSUME CharactersAssumption ==
  /\ {"a", "l", "m", "p"} \subseteq Alphanumerics
  /\ Alphanumerics \subseteq Chars
  /\ "-" \in Chars \ Alphanumerics
  /\ Lower \in [Chars -> Chars]
  /\ \A c \in Alphanumerics \cup {"-"} : Lower[c] = c

\* strings.Trim(name, "-")
TrimDashes(name) ==
  LET kept == {i \in DOMAIN name : name[i] # "-"}
  IN IF kept = {} THEN <<>> ELSE SubSeq(name, Min(kept), Max(kept))

\* What the loop has written after each character of value: runs of other
\* characters become one dash.
Written(value) ==
  LET written[i \in 0 .. Len(value)] ==
        IF i = 0 THEN <<>>
        ELSE LET before == written[i - 1]
                 c == Lower[value[i]]
             IN IF c \in Alphanumerics THEN Append(before, c)
                ELSE IF before # <<>> /\ Last(before) = "-" THEN before
                ELSE Append(before, "-")
  IN written

SanitizeIndexNamePart(value) == TrimDashes(Written(value)[Len(value)])

\* An empty part gets no dash.
Join(name, part) == IF part = <<>> THEN name ELSE name \o <<"-">> \o part

\* The prefix is taken as it is.
Joined(prefix, organizationClusterID, resource) ==
  Join(Join(prefix, SanitizeIndexNamePart(organizationClusterID)),
       SanitizeIndexNamePart(resource))

BuildCanonicalIndexName(prefix, organizationClusterID, resource, maxLength) ==
  LET joined == Joined(prefix, organizationClusterID, resource)
  IN TrimDashes(IF Len(joined) > maxLength THEN SubSeq(joined, 1, maxLength) ELSE joined)

\* Of the configured prefix, for the alias; names are built with it as it is.
NormalizePrefix(value) ==
  IF SanitizeIndexNamePart(value) # <<>> THEN SanitizeIndexNamePart(value)
  ELSE <<"p", "m">>

AllAliasOf(prefix) == SanitizeIndexNamePart(prefix) \o <<"-", "a", "l", "l">>

\* The alias all SearchIndexes have in common comes first.
BuildIndexAliases(staticPrefix, organizationClusterID, canonicalIndexName) ==
  LET canonical == SanitizeIndexNamePart(canonicalIndexName)
  IN (IF SanitizeIndexNamePart(staticPrefix) = <<>> THEN <<>>
      ELSE <<AllAliasOf(staticPrefix)>>)
     \o (IF canonical \in {<<>>, SanitizeIndexNamePart(organizationClusterID)}
         THEN <<>> ELSE <<canonical>>)

-----------------------------------------------------------------------------
(* What the names guarantee.  clusterIDs and resources are sets of words;  *)
(* a cluster ID has no dash.                                               *)

(* What is sanitized already stays as it is, so that a name built from     *)
(* parts, or used as an alias, is the name that was sanitized before.      *)
SanitizedStays(words) ==
  \A w \in words :
    SanitizeIndexNamePart(SanitizeIndexNamePart(w)) = SanitizeIndexNamePart(w)

(* As long as nothing is cut off, the organization and the resource, but   *)
(* for what sanitizing takes away, can be told from the name, although     *)
(* prefix and resource may contain what separates the parts.               *)
NamedApart(prefix, clusterIDs, resources, maxLength) ==
  \A p, q \in clusterIDs \X resources :
    /\ Len(Joined(prefix, p[1], p[2])) <= maxLength
    /\ Len(Joined(prefix, q[1], q[2])) <= maxLength
    /\ BuildCanonicalIndexName(prefix, p[1], p[2], maxLength)
         = BuildCanonicalIndexName(prefix, q[1], q[2], maxLength)
    => p[1] = q[1] /\ SanitizeIndexNamePart(p[2]) = SanitizeIndexNamePart(q[2])

(* A canonical name is no cluster ID, which names the legacy index, and not*)
(* the alias the SearchIndexes share; as an alias it is itself, and not    *)
(* that of another index.  IndexLifecycle assumes so of its names.         *)
ApartFromAliases(prefix, clusterIDs, resources, maxLength) ==
  \A id \in clusterIDs, r \in resources :
    SanitizeIndexNamePart(r) # <<>> /\ Len(Joined(prefix, id, r)) <= maxLength =>
      LET name == BuildCanonicalIndexName(prefix, id, r, maxLength)
          static == NormalizePrefix(prefix)
      IN /\ name \notin clusterIDs
         /\ name # AllAliasOf(static)
         /\ BuildIndexAliases(static, id, name) = <<AllAliasOf(static), name>>
=============================================================================

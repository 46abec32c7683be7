-------------------------- MODULE IndexNamesProofs --------------------------
(***************************************************************************)
(* Proofs about IndexNames: what the names of SearchIndexes, indices and   *)
(* aliases guarantee, for words of any length over any characters.         *)
(***************************************************************************)
EXTENDS IndexNames, SequenceTheorems, WellFoundedInduction, TLAPS

-----------------------------------------------------------------------------
(* Induction                                                               *)

(* A set that holds 0, and with a number the next one, holds all of them.  *)
LEMMA InductiveSet ==
  ASSUME NEW S, 0 \in S, \A n \in Nat : n \in S => n + 1 \in S
  PROVE  Nat \subseteq S
<1> DEFINE R == OpToRel(<, Nat)
           T == Nat \ S
<1> SUFFICES ASSUME T # {} PROVE FALSE
  OBVIOUS
<1>1. IsWellFoundedOn(R, Nat)
  BY NatLessThanWellFounded
<1>2. \A x, y \in Nat : x < y => <<x, y>> \in R
  BY DEF OpToRel
<1> HIDE DEF R
<1>3. PICK x \in T : \A y \in T : <<y, x>> \notin R
  BY <1>1, WFMin
<1>4. x # 0 /\ x - 1 \in Nat /\ x - 1 < x /\ x = (x - 1) + 1
  OBVIOUS
<1> QED
  BY <1>2, <1>3, <1>4

(* Sets of numbers up to n have a least and a greatest element.            *)
LEMMA Extremes ==
  ASSUME NEW n \in Nat, NEW S \in SUBSET (1 .. n), S # {}
  PROVE  /\ Min(S) \in S /\ \A i \in S : Min(S) <= i
         /\ Max(S) \in S /\ \A i \in S : i <= Max(S)
<1>1. \E x \in S : \A y \in S : x <= y
  <2> DEFINE T == {k \in Nat : \A i \in S : k < i}
  <2> SUFFICES ASSUME ~ \E x \in S : \A y \in S : x <= y PROVE FALSE
    OBVIOUS
  <2>1. 0 \in T
    OBVIOUS
  <2>2. ASSUME NEW k \in Nat, k \in T PROVE k + 1 \in T
    <3>1. k + 1 \notin S
      BY <2>2
    <3> QED
      BY <2>2, <3>1
  <2> HIDE DEF T
  <2>3. n \in T
    BY <2>1, <2>2, InductiveSet
  <2>4. PICK i \in S : i \in 1 .. n
    OBVIOUS
  <2> QED
    BY <2>3, <2>4 DEF T
<1>2. \E x \in S : \A y \in S : x >= y
  <2> DEFINE T == {k \in Nat : \A i \in S : i < n + 1 - k}
  <2> SUFFICES ASSUME ~ \E x \in S : \A y \in S : x >= y PROVE FALSE
    OBVIOUS
  <2>1. 0 \in T
    OBVIOUS
  <2>2. ASSUME NEW k \in Nat, k \in T PROVE k + 1 \in T
    <3>1. n + 1 - (k + 1) \notin S
      BY <2>2
    <3> QED
      BY <2>2, <3>1
  <2> HIDE DEF T
  <2>3. n \in T
    BY <2>1, <2>2, InductiveSet
  <2>4. PICK i \in S : i \in 1 .. n
    OBVIOUS
  <2> QED
    BY <2>3, <2>4 DEF T
<1>3. Min(S) \in S /\ \A i \in S : Min(S) <= i
  BY <1>1 DEF Min
<1>4. Max(S) \in S /\ \A i \in S : i <= Max(S)
  BY <1>2 DEF Max
<1> QED
  BY <1>3, <1>4

-----------------------------------------------------------------------------
(* Words                                                                   *)

\* What the loop of sanitizeIndexNamePart writes: no two dashes in a row.
SingleDashes(s) ==
  /\ s \in Seq(Alphanumerics \cup {"-"})
  /\ \A i \in 1 .. Len(s) - 1 : s[i] = "-" => s[i + 1] # "-"

\* What it returns: neither are there any at an end.
Clean(s) ==
  /\ SingleDashes(s)
  /\ s # <<>> => s[1] # "-" /\ s[Len(s)] # "-"

(* Trimming takes the dashes at both ends, and nothing else.               *)
LEMMA TrimTrims ==
  ASSUME NEW S, NEW s \in Seq(S)
  PROVE  \/ TrimDashes(s) = <<>> /\ \A i \in 1 .. Len(s) : s[i] = "-"
         \/ \E first, last \in 1 .. Len(s) :
              /\ first <= last
              /\ TrimDashes(s) = SubSeq(s, first, last)
              /\ s[first] # "-" /\ s[last] # "-"
              /\ \A i \in 1 .. Len(s) : i < first \/ last < i => s[i] = "-"
<1> DEFINE kept == {i \in DOMAIN s : s[i] # "-"}
<1>0. DOMAIN s = 1 .. Len(s) /\ Len(s) \in Nat
  OBVIOUS
<1>1. CASE kept = {}
  BY <1>0, <1>1 DEF TrimDashes
<1>2. CASE kept # {}
  <2>1. /\ Min(kept) \in kept /\ \A i \in kept : Min(kept) <= i
        /\ Max(kept) \in kept /\ \A i \in kept : i <= Max(kept)
    BY <1>0, <1>2, Extremes
  <2>2. TrimDashes(s) = SubSeq(s, Min(kept), Max(kept))
    BY <1>2 DEF TrimDashes
  <2> DEFINE first == Min(kept)
             last == Max(kept)
  <2> HIDE DEF first, last
  <2>3. /\ first \in 1 .. Len(s) /\ last \in 1 .. Len(s) /\ first <= last
        /\ s[first] # "-" /\ s[last] # "-"
    BY <1>0, <2>1 DEF first, last
  <2>4. ASSUME NEW i \in 1 .. Len(s), i < first \/ last < i PROVE s[i] = "-"
    <3>1. i \notin kept
      <4>1. ASSUME i \in kept PROVE first <= i /\ i <= last
        BY <2>1, <4>1 DEF first, last
      <4> HIDE DEF kept
      <4> QED
        BY <2>3, <2>4, <4>1
    <3> QED
      BY <1>0, <3>1
  <2> QED
    BY <2>2, <2>3, <2>4 DEF first, last
<1> QED
  BY <1>1, <1>2

(* A part of a word.                                                       *)
LEMMA Part ==
  ASSUME NEW S, NEW s \in Seq(S), NEW m \in 1 .. Len(s), NEW n \in 1 .. Len(s), m <= n
  PROVE  /\ SubSeq(s, m, n) \in Seq(S)
         /\ Len(SubSeq(s, m, n)) = n - m + 1
         /\ \A i \in 1 .. n - m + 1 : SubSeq(s, m, n)[i] = s[m + i - 1]
OBVIOUS

(* Trimming cleans what has no two dashes in a row ...                     *)
LEMMA TrimCleans ==
  ASSUME NEW s, SingleDashes(s)
  PROVE  Clean(TrimDashes(s))
<1> DEFINE C == Alphanumerics \cup {"-"}
           t == TrimDashes(s)
<1>0. s \in Seq(C)
  BY DEF SingleDashes
<1>1. CASE t = <<>>
  BY <1>1 DEF Clean, SingleDashes
<1>2. ASSUME NEW first \in 1 .. Len(s), NEW last \in 1 .. Len(s), first <= last,
             t = SubSeq(s, first, last), s[first] # "-", s[last] # "-"
      PROVE  Clean(t)
  <2>1. /\ t \in Seq(C) /\ Len(t) = last - first + 1
        /\ \A i \in 1 .. Len(t) : t[i] = s[first + i - 1]
    BY <1>0, <1>2, Part
  <2> HIDE DEF t
  <2>2. ASSUME NEW i \in 1 .. Len(t) - 1, t[i] = "-" PROVE t[i + 1] # "-"
    <3>1. first + i - 1 \in 1 .. Len(s) - 1
      BY <1>0, <2>1
    <3>2. t[i] = s[first + i - 1] /\ t[i + 1] = s[first + i - 1 + 1]
      BY <1>0, <2>1
    <3> QED
      BY <2>2, <3>1, <3>2 DEF SingleDashes
  <2>3. t[1] # "-" /\ t[Len(t)] # "-"
    BY <1>0, <1>2, <2>1
  <2> QED
    BY <2>1, <2>2, <2>3 DEF Clean, SingleDashes
<1> HIDE DEF t
<1> QED
  BY <1>0, <1>1, <1>2, TrimTrims DEF t

(* ... and leaves what is clean at its ends.                               *)
LEMMA TrimLeaves ==
  ASSUME NEW S, NEW s \in Seq(S), s # <<>> => s[1] # "-" /\ s[Len(s)] # "-"
  PROVE  TrimDashes(s) = s
<1>1. CASE s = <<>>
  BY <1>1 DEF TrimDashes
<1>2. CASE s # <<>>
  <2>1. 1 \in 1 .. Len(s) /\ Len(s) \in 1 .. Len(s)
    BY <1>2
  <2>2. PICK first, last \in 1 .. Len(s) :
          /\ TrimDashes(s) = SubSeq(s, first, last)
          /\ \A i \in 1 .. Len(s) : i < first \/ last < i => s[i] = "-"
    BY <1>2, <2>1, TrimTrims
  <2>3. first = 1 /\ last = Len(s)
    BY <1>2, <2>1, <2>2
  <2> QED
    BY <1>2, <2>2, <2>3
<1> QED
  BY <1>1, <1>2

-----------------------------------------------------------------------------
(* Sanitizing                                                              *)

\* What the loop makes of what it has written, at the next character.
Write(before, char) ==
  IF Lower[char] \in Alphanumerics THEN Append(before, Lower[char])
  ELSE IF before # <<>> /\ Last(before) = "-" THEN before
  ELSE Append(before, "-")

(* The loop takes the characters one by one.                               *)
LEMMA WrittenInTurn ==
  ASSUME NEW value, Len(value) \in Nat
  PROVE  /\ Written(value)[0] = <<>>
         /\ \A i \in 1 .. Len(value) :
              Written(value)[i] = Write(Written(value)[i - 1], value[i])
<1> DEFINE Turns(w, n) ==
             w = [i \in 0 .. n |-> IF i = 0 THEN <<>> ELSE Write(w[i - 1], value[i])]
           S == {n \in Nat : \E w : Turns(w, n)}
<1>1. 0 \in S
  <2> DEFINE w == [i \in 0 .. 0 |-> <<>>]
  <2>1. Turns(w, 0)
    OBVIOUS
  <2> HIDE DEF w
  <2> QED
    BY <2>1
<1>2. ASSUME NEW n \in Nat, n \in S PROVE n + 1 \in S
  <2>1. PICK w : Turns(w, n)
    BY <1>2
  <2> DEFINE next == [i \in 0 .. n + 1 |->
                        IF i <= n THEN w[i] ELSE Write(w[n], value[n + 1])]
  <2>2. Turns(next, n + 1)
    <3>1. \A i \in 0 .. n : w[i] = IF i = 0 THEN <<>> ELSE Write(w[i - 1], value[i])
      BY <2>1
    <3>2. \A i \in 0 .. n + 1 :
            next[i] = IF i = 0 THEN <<>> ELSE Write(next[i - 1], value[i])
      <4> TAKE i \in 0 .. n + 1
      <4>1. CASE i = 0
        BY <3>1, <4>1
      <4>2. CASE i # 0 /\ i <= n
        <5>1. next[i] = w[i] /\ next[i - 1] = w[i - 1]
          BY <4>2
        <5> HIDE DEF next
        <5> QED
          BY <3>1, <4>2, <5>1
      <4>3. CASE i = n + 1
        <5>1. next[i] = Write(w[n], value[n + 1]) /\ next[i - 1] = w[n]
          BY <4>3
        <5> HIDE DEF next
        <5> QED
          BY <4>3, <5>1
      <4> QED
        BY <4>1, <4>2, <4>3
    <3> QED
      BY <3>2
  <2> HIDE DEF next
  <2> QED
    BY <2>2
<1>3. PICK w : Turns(w, Len(value))
  BY <1>1, <1>2, InductiveSet
<1>4. Written(value) = CHOOSE f : Turns(f, Len(value))
  BY Zenon DEF Written, Write
<1> HIDE DEF Turns
<1>5. Turns(Written(value), Len(value))
  BY <1>3, <1>4, Zenon
<1> QED
  BY <1>5 DEF Turns

(* One more character, and there are still no two dashes in a row.         *)
LEMMA WriteKeepsSingle ==
  ASSUME NEW before, SingleDashes(before), NEW char
  PROVE  SingleDashes(Write(before, char))
<1> DEFINE C == Alphanumerics \cup {"-"}
<1>0. /\ before \in Seq(C) /\ Len(before) \in Nat
      /\ \A i \in 1 .. Len(before) - 1 : before[i] = "-" => before[i + 1] # "-"
  BY DEF SingleDashes
<1>1. ASSUME NEW c \in C, c = "-" => before = <<>> \/ before[Len(before)] # "-"
      PROVE  SingleDashes(Append(before, c))
  <2>1. /\ Append(before, c) \in Seq(C)
        /\ Len(Append(before, c)) = Len(before) + 1
        /\ \A i \in 1 .. Len(before) : Append(before, c)[i] = before[i]
        /\ Append(before, c)[Len(before) + 1] = c
    BY <1>0
  <2> DEFINE new == Append(before, c)
  <2> HIDE DEF new
  <2>2. ASSUME NEW i \in 1 .. Len(before), new[i] = "-" PROVE new[i + 1] # "-"
    <3>1. CASE i < Len(before)
      BY <1>0, <2>1, <2>2, <3>1 DEF new
    <3>2. CASE i = Len(before)
      <4>1. before # <<>> /\ before[Len(before)] = "-"
        BY <1>0, <2>1, <2>2, <3>2 DEF new
      <4> QED
        BY <1>1, <2>1, <3>2, <4>1 DEF new
    <3> QED
      BY <1>0, <3>1, <3>2
  <2> QED
    BY <1>0, <2>1, <2>2 DEF new, SingleDashes
<1> HIDE DEF C
<1>2. CASE Lower[char] \in Alphanumerics
  <2>1. Lower[char] \in C /\ Lower[char] # "-"
    BY <1>2, CharactersAssumption DEF CharactersAssumption, C
  <2> QED
    BY <1>1, <1>2, <2>1 DEF Write
<1>3. CASE Lower[char] \notin Alphanumerics
  BY <1>1, <1>3 DEF Write, Last, C
<1> QED
  BY <1>2, <1>3

(* So the loop never writes two dashes in a row.                           *)
LEMMA WrittenIsSingle ==
  ASSUME NEW value \in Seq(Chars), NEW n \in 0 .. Len(value)
  PROVE  SingleDashes(Written(value)[n])
<1> DEFINE w == Written(value)
           S == {k \in Nat : k <= Len(value) => SingleDashes(w[k])}
<1>0. Len(value) \in Nat
  OBVIOUS
<1>1. w[0] = <<>> /\ \A i \in 1 .. Len(value) : w[i] = Write(w[i - 1], value[i])
  BY <1>0, WrittenInTurn
<1> HIDE DEF w
<1>2. 0 \in S
  <2>1. SingleDashes(<<>>)
    BY DEF SingleDashes
  <2> QED
    BY <1>1, <2>1
<1>3. ASSUME NEW k \in Nat, k \in S PROVE k + 1 \in S
  <2> SUFFICES ASSUME k + 1 <= Len(value) PROVE SingleDashes(w[k + 1])
    OBVIOUS
  <2>1. SingleDashes(w[k]) /\ w[k + 1] = Write(w[k], value[k + 1])
    BY <1>0, <1>1, <1>3
  <2> QED
    BY <2>1, WriteKeepsSingle
<1> HIDE DEF S
<1>4. n \in S
  BY <1>2, <1>3, InductiveSet
<1> QED
  BY <1>0, <1>4 DEF S, w

(* What has no two dashes in a row is written as it is.                    *)
LEMMA SingleIsWritten ==
  ASSUME NEW s, SingleDashes(s)
  PROVE  Written(s)[Len(s)] = s
<1> DEFINE C == Alphanumerics \cup {"-"}
           w == Written(s)
           Copied(k) == /\ w[k] \in Seq(C) /\ Len(w[k]) = k
                        /\ \A i \in 1 .. k : w[k][i] = s[i]
           S == {k \in Nat : k <= Len(s) => Copied(k)}
<1>0. /\ s \in Seq(C) /\ Len(s) \in Nat
      /\ \A i \in 1 .. Len(s) : s[i] \in C
      /\ \A i \in 1 .. Len(s) - 1 : s[i] = "-" => s[i + 1] # "-"
  BY DEF SingleDashes
<1>1. w[0] = <<>> /\ \A i \in 1 .. Len(s) : w[i] = Write(w[i - 1], s[i])
  BY <1>0, WrittenInTurn
<1>2. \A c \in C : Lower[c] = c
  BY CharactersAssumption DEF CharactersAssumption
<1> HIDE DEF w
<1>3. 0 \in S
  <2>1. w[0] \in Seq(C) /\ Len(w[0]) = 0
    <3>1. <<>> \in Seq(C) /\ Len(<<>>) = 0
      OBVIOUS
    <3> HIDE DEF C
    <3> QED
      BY <1>1, <3>1
  <2>2. \A i \in 1 .. 0 : w[0][i] = s[i]
    OBVIOUS
  <2> HIDE DEF C
  <2> QED
    BY <2>1, <2>2
<1>4. ASSUME NEW k \in Nat, k \in S PROVE k + 1 \in S
  <2> SUFFICES ASSUME k + 1 <= Len(s) PROVE Copied(k + 1)
    OBVIOUS
  <2>1. Copied(k) /\ w[k + 1] = Write(w[k], s[k + 1]) /\ s[k + 1] \in C
    BY <1>0, <1>1, <1>4
  <2>2. w[k + 1] = Append(w[k], s[k + 1])
    <3>1. CASE s[k + 1] \in Alphanumerics
      BY <1>2, <2>1, <3>1 DEF Write
    <3>2. CASE s[k + 1] \notin Alphanumerics
      <4>1. s[k + 1] = "-" /\ Lower[s[k + 1]] \notin Alphanumerics
        BY <1>2, <2>1, <3>2
      <4>2. ~(w[k] # <<>> /\ Last(w[k]) = "-")
        <5> SUFFICES ASSUME w[k] # <<>>, w[k][Len(w[k])] = "-" PROVE FALSE
          BY DEF Last
        <5>1. k \in 1 .. Len(s) - 1 /\ s[k] = "-"
          BY <1>0, <2>1
        <5> QED
          BY <1>0, <4>1, <5>1
      <4> QED
        BY <2>1, <4>1, <4>2 DEF Write
    <3> QED
      BY <3>1, <3>2
  <2>3. ASSUME NEW v \in Seq(C), Len(v) = k, NEW c \in C
        PROVE  /\ Append(v, c) \in Seq(C) /\ Len(Append(v, c)) = k + 1
               /\ \A i \in 1 .. k : Append(v, c)[i] = v[i]
               /\ Append(v, c)[k + 1] = c
    BY <2>3
  <2>4. /\ w[k + 1] \in Seq(C) /\ Len(w[k + 1]) = k + 1
        /\ \A i \in 1 .. k : w[k + 1][i] = w[k][i]
        /\ w[k + 1][k + 1] = s[k + 1]
    BY <2>1, <2>2, <2>3
  <2>5. ASSUME NEW i \in 1 .. k + 1 PROVE w[k + 1][i] = s[i]
    <3>1. i \in 1 .. k \/ i = k + 1
      OBVIOUS
    <3> QED
      BY <2>1, <2>4, <3>1
  <2> QED
    BY <2>4, <2>5
<1> HIDE DEF S
<1>5. Len(s) \in S
  BY <1>0, <1>3, <1>4, InductiveSet
<1>6. Copied(Len(s))
  BY <1>0, <1>5 DEF S
<1>7. w[Len(s)] = s
  BY <1>0, <1>6
<1> QED
  BY <1>7 DEF w

(* What is sanitized is clean ...                                          *)
LEMMA SanitizedIsClean ==
  ASSUME NEW value \in Seq(Chars)
  PROVE  Clean(SanitizeIndexNamePart(value))
<1>1. Len(value) \in 0 .. Len(value)
  OBVIOUS
<1> QED
  BY <1>1, WrittenIsSingle, TrimCleans DEF SanitizeIndexNamePart

(* ... and what is clean stays as it is.                                   *)
LEMMA CleanStays ==
  ASSUME NEW s, Clean(s)
  PROVE  SanitizeIndexNamePart(s) = s
<1>1. Written(s)[Len(s)] = s
  BY SingleIsWritten DEF Clean
<1>2. TrimDashes(s) = s
  BY TrimLeaves DEF Clean, SingleDashes
<1> QED
  BY <1>1, <1>2 DEF SanitizeIndexNamePart

(* Sanitizing a second time changes nothing, for any word: a canonical     *)
(* name that is listed as an alias, or a prefix that was normalized        *)
(* before, may be sanitized again.                                         *)
THEOREM WordsStay == SanitizedStays(Seq(Chars))
BY SanitizedIsClean, CleanStays DEF SanitizedStays

-----------------------------------------------------------------------------
(* Names                                                                   *)

\* A cluster ID has no dash.
Ids == Seq(Alphanumerics) \ {<<>>}

(* A cluster ID is clean.                                                  *)
LEMMA IdsAreClean ==
  ASSUME NEW id \in Ids
  PROVE  /\ Clean(id) /\ SanitizeIndexNamePart(id) = id
         /\ Len(id) \in Nat \ {0}
         /\ \A i \in 1 .. Len(id) : id[i] \in Alphanumerics /\ id[i] # "-"
<1>1. /\ id \in Seq(Alphanumerics \cup {"-"})
      /\ Len(id) \in Nat \ {0}
      /\ \A i \in 1 .. Len(id) : id[i] \in Alphanumerics
  BY DEF Ids
<1>2. "-" \notin Alphanumerics
  BY CharactersAssumption DEF CharactersAssumption
<1>3. Clean(id)
  BY <1>1, <1>2 DEF Clean, SingleDashes
<1> QED
  BY <1>1, <1>2, <1>3, CleanStays

\* The word s is a name and a part, character by character.
IsJoin(s, name, part) ==
  /\ s \in Seq(Chars)
  /\ Len(s) = Len(name) + 1 + Len(part)
  /\ \A i \in 1 .. Len(name) : s[i] = name[i]
  /\ s[Len(name) + 1] = "-"
  /\ \A i \in 1 .. Len(part) : s[Len(name) + 1 + i] = part[i]

(* So is what Join makes of them.                                          *)
LEMMA JoinJoins ==
  ASSUME NEW name \in Seq(Chars), NEW part \in Seq(Chars), part # <<>>
  PROVE  IsJoin(Join(name, part), name, part)
<1>1. Join(name, part) = (name \o <<"-">>) \o part
  BY DEF Join
<1>2. "-" \in Chars
  BY CharactersAssumption DEF CharactersAssumption
<1> QED
  BY <1>1, <1>2 DEF IsJoin

\* A joined name that has not been trimmed: the prefix, a dash, the cluster ID,
\* and, unless that is empty, a dash and the sanitized resource.
Composed(s, prefix, id, part) ==
  LET n == Len(prefix) + 1
      m == n + Len(id)
  IN /\ s \in Seq(Chars)
     /\ Len(s) = IF part = <<>> THEN m ELSE m + 1 + Len(part)
     /\ \A i \in 1 .. Len(prefix) : s[i] = prefix[i]
     /\ s[n] = "-"
     /\ \A i \in 1 .. Len(id) : s[n + i] = id[i]
     /\ part # <<>> => /\ s[m + 1] = "-"
                       /\ \A i \in 1 .. Len(part) : s[m + 1 + i] = part[i]

(* So is every joined name.                                                *)
LEMMA JoinedIsComposed ==
  ASSUME NEW prefix \in Seq(Chars), NEW id \in Ids, NEW resource \in Seq(Chars),
         NEW part, part = SanitizeIndexNamePart(resource)
  PROVE  /\ Clean(part) /\ part \in Seq(Chars) /\ Len(part) \in Nat
         /\ Composed(Joined(prefix, id, resource), prefix, id, part)
<1>0. "-" \in Chars /\ Alphanumerics \subseteq Chars
  BY CharactersAssumption DEF CharactersAssumption
<1>1. Clean(part) /\ part \in Seq(Chars) /\ Len(part) \in Nat
  <2>1. Clean(part)
    BY SanitizedIsClean
  <2>2. part \in Seq(Alphanumerics \cup {"-"})
    BY <2>1 DEF Clean, SingleDashes
  <2> QED
    BY <1>0, <2>1, <2>2
<1>2. id \in Seq(Chars) /\ id # <<>> /\ SanitizeIndexNamePart(id) = id /\ Len(id) \in Nat
  BY <1>0, IdsAreClean DEF Ids
<1> DEFINE first == Join(prefix, id)
           s == Join(first, part)
<1>3. Joined(prefix, id, resource) = s
  BY <1>2 DEF Joined
<1>a. first = Join(prefix, id) /\ s = Join(first, part)
  OBVIOUS
<1> HIDE DEF first, s
<1>4. /\ first \in Seq(Chars)
      /\ Len(first) = Len(prefix) + 1 + Len(id)
      /\ \A i \in 1 .. Len(prefix) : first[i] = prefix[i]
      /\ first[Len(prefix) + 1] = "-"
      /\ \A i \in 1 .. Len(id) : first[Len(prefix) + 1 + i] = id[i]
  <2>1. IsJoin(first, prefix, id)
    BY <1>2, <1>a, JoinJoins
  <2> QED
    BY <2>1 DEF IsJoin
<1>5. Len(prefix) \in Nat
  OBVIOUS
<1>6. CASE part = <<>>
  <2>1. s = first
    BY <1>6, <1>a DEF Join
  <2> QED
    BY <1>1, <1>3, <1>4, <1>6, <2>1 DEF Composed
<1>7. CASE part # <<>>
  <2>1. /\ s \in Seq(Chars)
        /\ Len(s) = Len(first) + 1 + Len(part)
        /\ \A i \in 1 .. Len(first) : s[i] = first[i]
        /\ s[Len(first) + 1] = "-"
        /\ \A i \in 1 .. Len(part) : s[Len(first) + 1 + i] = part[i]
    <3>1. IsJoin(s, first, part)
      BY <1>1, <1>4, <1>7, <1>a, JoinJoins
    <3> QED
      BY <3>1 DEF IsJoin
  <2>2. \A i \in 1 .. Len(prefix) : s[i] = prefix[i]
    BY <1>2, <1>4, <1>5, <2>1
  <2>3. s[Len(prefix) + 1] = "-"
    BY <1>2, <1>4, <1>5, <2>1
  <2>4. ASSUME NEW i \in 1 .. Len(id) PROVE s[Len(prefix) + 1 + i] = id[i]
    <3>1. Len(prefix) + 1 + i \in 1 .. Len(first)
      BY <1>2, <1>4, <1>5
    <3> QED
      BY <1>4, <2>1, <3>1
  <2> QED
    BY <1>1, <1>3, <1>4, <1>7, <2>1, <2>2, <2>3, <2>4 DEF Composed
<1> QED
  BY <1>6, <1>7

(* Trimming such a name takes dashes from its front only, and of them none *)
(* behind the prefix but the one that stands there.                        *)
LEMMA TrimComposed ==
  ASSUME NEW prefix \in Seq(Chars), NEW id \in Ids, NEW part, Clean(part),
         NEW s, Composed(s, prefix, id, part)
  PROVE  /\ s[Len(prefix) + 2] # "-" /\ s[Len(s)] # "-"
         /\ \E first \in 1 .. Len(prefix) + 2 :
              /\ TrimDashes(s) = SubSeq(s, first, Len(s))
              /\ s[first] # "-"
              /\ \A i \in 1 .. first - 1 : s[i] = "-"
<1> DEFINE n == Len(prefix) + 1
           m == n + Len(id)
<1>0. /\ Len(prefix) \in Nat /\ Len(id) \in Nat \ {0}
      /\ \A i \in 1 .. Len(id) : id[i] # "-"
      /\ Len(part) \in Nat /\ (part # <<>> => Len(part) > 0)
  BY IdsAreClean DEF Clean, SingleDashes
<1>1. /\ s \in Seq(Chars)
      /\ Len(s) = IF part = <<>> THEN m ELSE m + 1 + Len(part)
      /\ \A i \in 1 .. Len(id) : s[n + i] = id[i]
      /\ part # <<>> => \A i \in 1 .. Len(part) : s[m + 1 + i] = part[i]
  BY DEF Composed
<1>2. s[n + 1] # "-" /\ n + 1 \in 1 .. Len(s)
  BY <1>0, <1>1
<1>3. s[Len(s)] # "-" /\ Len(s) \in 1 .. Len(s)
  <2>1. CASE part = <<>>
    BY <1>0, <1>1, <2>1
  <2>2. CASE part # <<>>
    <3>1. s[m + 1 + Len(part)] = part[Len(part)]
      BY <1>0, <1>1, <2>2
    <3> QED
      BY <1>0, <1>1, <2>2, <3>1 DEF Clean
  <2> QED
    BY <2>1, <2>2
<1>4. PICK first, last \in 1 .. Len(s) :
        /\ TrimDashes(s) = SubSeq(s, first, last)
        /\ s[first] # "-"
        /\ \A i \in 1 .. Len(s) : i < first \/ last < i => s[i] = "-"
  BY <1>1, <1>3, TrimTrims
<1>5. last = Len(s)
  BY <1>3, <1>4
<1>6. first <= n + 1
  BY <1>0, <1>2, <1>4
<1>7. ASSUME NEW i \in 1 .. first - 1 PROVE s[i] = "-"
  BY <1>4
<1>8. n + 1 = Len(prefix) + 2 /\ first \in 1 .. Len(prefix) + 2
  BY <1>0, <1>3, <1>6
<1> HIDE DEF n
<1> QED
  BY <1>2, <1>3, <1>4, <1>5, <1>7, <1>8

(* Two names that are the same when trimmed were the same before, behind   *)
(* their prefix ...                                                        *)
LEMMA TrimmedApart ==
  ASSUME NEW prefix \in Seq(Chars),
         NEW id1 \in Ids, NEW part1, Clean(part1), NEW s, Composed(s, prefix, id1, part1),
         NEW id2 \in Ids, NEW part2, Clean(part2), NEW t, Composed(t, prefix, id2, part2),
         TrimDashes(s) = TrimDashes(t)
  PROVE  Len(s) = Len(t) /\ \A i \in Len(prefix) + 2 .. Len(s) : s[i] = t[i]
<1> DEFINE n == Len(prefix) + 1
<1>0. /\ Len(prefix) \in Nat
      /\ s \in Seq(Chars) /\ Len(s) \in Nat /\ n + 1 <= Len(s)
      /\ t \in Seq(Chars) /\ Len(t) \in Nat /\ n + 1 <= Len(t)
      /\ \A i \in 1 .. n : s[i] = t[i]
  <2>1. /\ Len(prefix) \in Nat /\ Len(id1) \in Nat \ {0} /\ Len(id2) \in Nat \ {0}
        /\ Len(part1) \in Nat /\ Len(part2) \in Nat
    BY IdsAreClean DEF Clean, SingleDashes
  <2>2. /\ s \in Seq(Chars) /\ Len(s) \in Nat /\ n + 1 <= Len(s)
        /\ t \in Seq(Chars) /\ Len(t) \in Nat /\ n + 1 <= Len(t)
    BY <2>1 DEF Composed
  <2>3. ASSUME NEW i \in 1 .. n PROVE s[i] = t[i]
    <3>1. CASE i = n
      BY <3>1 DEF Composed
    <3>2. CASE i \in 1 .. Len(prefix)
      BY <3>2 DEF Composed
    <3> QED
      BY <2>1, <3>1, <3>2
  <2> QED
    BY <2>1, <2>2, <2>3
<1>1. PICK f \in 1 .. n + 1 :
        /\ TrimDashes(s) = SubSeq(s, f, Len(s))
        /\ s[f] # "-"
        /\ \A i \in 1 .. f - 1 : s[i] = "-"
  BY TrimComposed
<1>2. PICK g \in 1 .. n + 1 :
        /\ TrimDashes(t) = SubSeq(t, g, Len(t))
        /\ t[g] # "-"
        /\ \A i \in 1 .. g - 1 : t[i] = "-"
  BY TrimComposed
<1>3. f = g
  <2>1. CASE f < g
    <3>1. f \in 1 .. g - 1 /\ f \in 1 .. n
      BY <1>0, <2>1
    <3> QED
      BY <1>0, <1>1, <1>2, <3>1
  <2>2. CASE g < f
    <3>1. g \in 1 .. f - 1 /\ g \in 1 .. n
      BY <1>0, <2>2
    <3> QED
      BY <1>0, <1>1, <1>2, <3>1
  <2> QED
    BY <1>0, <2>1, <2>2
<1>4. /\ Len(SubSeq(s, f, Len(s))) = Len(s) - f + 1
      /\ Len(SubSeq(t, f, Len(t))) = Len(t) - f + 1
      /\ \A i \in 1 .. Len(s) - f + 1 : SubSeq(s, f, Len(s))[i] = s[f + i - 1]
      /\ \A i \in 1 .. Len(t) - f + 1 : SubSeq(t, f, Len(t))[i] = t[f + i - 1]
  BY <1>0, Part
<1>5. SubSeq(s, f, Len(s)) = SubSeq(t, f, Len(t))
  BY <1>1, <1>2, <1>3
<1>6. Len(s) = Len(t)
  BY <1>0, <1>4, <1>5
<1>7. ASSUME NEW i \in n + 1 .. Len(s) PROVE s[i] = t[i]
  <2>1. i - f + 1 \in 1 .. Len(s) - f + 1 /\ f + (i - f + 1) - 1 = i
    BY <1>0
  <2> QED
    BY <1>4, <1>5, <1>6, <2>1
<1> QED
  BY <1>0, <1>6, <1>7

(* ... and are of one organization and one resource: where the cluster ID  *)
(* ends is where the first dash behind the prefix is, or the end.          *)
LEMMA ComposedApart ==
  ASSUME NEW prefix \in Seq(Chars),
         NEW id1 \in Ids, NEW part1, Clean(part1), NEW s, Composed(s, prefix, id1, part1),
         NEW id2 \in Ids, NEW part2, Clean(part2), NEW t, Composed(t, prefix, id2, part2),
         Len(s) = Len(t), \A i \in Len(prefix) + 2 .. Len(s) : s[i] = t[i]
  PROVE  id1 = id2 /\ part1 = part2
<1> DEFINE n == Len(prefix) + 1
<1>0. /\ n \in Nat \ {0} /\ Len(id1) \in Nat \ {0} /\ Len(id2) \in Nat \ {0}
      /\ part1 \in Seq(Alphanumerics \cup {"-"}) /\ part2 \in Seq(Alphanumerics \cup {"-"})
      /\ Len(part1) \in Nat /\ Len(part2) \in Nat
      /\ part1 # <<>> => Len(part1) > 0
      /\ part2 # <<>> => Len(part2) > 0
      /\ id1 \in Seq(Alphanumerics) /\ id2 \in Seq(Alphanumerics)
      /\ \A i \in 1 .. Len(id1) : id1[i] # "-"
      /\ \A i \in 1 .. Len(id2) : id2[i] # "-"
  BY IdsAreClean DEF Clean, SingleDashes, Ids
<1>1. /\ Len(s) = IF part1 = <<>> THEN n + Len(id1) ELSE n + Len(id1) + 1 + Len(part1)
      /\ \A i \in 1 .. Len(id1) : s[n + i] = id1[i]
      /\ part1 # <<>> => /\ s[n + Len(id1) + 1] = "-"
                         /\ \A i \in 1 .. Len(part1) : s[n + Len(id1) + 1 + i] = part1[i]
  BY DEF Composed
<1>2. /\ Len(t) = IF part2 = <<>> THEN n + Len(id2) ELSE n + Len(id2) + 1 + Len(part2)
      /\ \A i \in 1 .. Len(id2) : t[n + i] = id2[i]
      /\ part2 # <<>> => /\ t[n + Len(id2) + 1] = "-"
                         /\ \A i \in 1 .. Len(part2) : t[n + Len(id2) + 1 + i] = part2[i]
  BY DEF Composed
<1>a. /\ n \in Nat \ {0} /\ Len(id1) \in Nat \ {0} /\ Len(id2) \in Nat \ {0}
      /\ Len(part1) \in Nat /\ Len(part2) \in Nat
      /\ part1 = <<>> <=> Len(part1) = 0
      /\ part2 = <<>> <=> Len(part2) = 0
  BY <1>0
<1>b. /\ Len(s) = IF Len(part1) = 0 THEN n + Len(id1) ELSE n + Len(id1) + 1 + Len(part1)
      /\ Len(s) = IF Len(part2) = 0 THEN n + Len(id2) ELSE n + Len(id2) + 1 + Len(part2)
  BY <1>a, <1>1, <1>2
<1>3. ASSUME NEW i \in 1 .. Len(s) - n PROVE s[n + i] = t[n + i]
  <2>1. n + i \in Len(prefix) + 2 .. Len(s)
    BY <1>a, <1>b
  <2> QED
    BY <2>1
<1> HIDE DEF n
<1>4. Len(id1) = Len(id2)
  <2>1. ASSUME Len(id1) < Len(id2) PROVE FALSE
    <3>0. Len(part1) # 0
      BY <1>a, <1>b, <2>1
    <3>1. part1 # <<>> /\ s[n + Len(id1) + 1] = "-"
      BY <1>a, <1>1, <3>0
    <3>2. Len(id1) + 1 \in 1 .. Len(id2) /\ Len(id1) + 1 \in 1 .. Len(s) - n
      BY <1>a, <1>b, <2>1, <3>0
    <3>3. s[n + (Len(id1) + 1)] = id2[Len(id1) + 1]
      BY <1>2, <1>3, <3>2
    <3> QED
      BY <1>0, <3>1, <3>2, <3>3
  <2>2. ASSUME Len(id2) < Len(id1) PROVE FALSE
    <3>0. Len(part2) # 0
      BY <1>a, <1>b, <2>2
    <3>1. part2 # <<>> /\ t[n + Len(id2) + 1] = "-"
      BY <1>a, <1>2, <3>0
    <3>2. Len(id2) + 1 \in 1 .. Len(id1) /\ Len(id2) + 1 \in 1 .. Len(s) - n
      BY <1>a, <1>b, <2>2, <3>0
    <3>3. t[n + (Len(id2) + 1)] = id1[Len(id2) + 1]
      BY <1>1, <1>3, <3>2
    <3> QED
      BY <1>0, <3>1, <3>2, <3>3
  <2> QED
    BY <1>a, <2>1, <2>2
<1>5. id1 = id2
  <2>1. ASSUME NEW i \in 1 .. Len(id1) PROVE id1[i] = id2[i]
    <3>1. i \in 1 .. Len(s) - n
      BY <1>a, <1>b
    <3> QED
      BY <1>1, <1>2, <1>3, <1>4, <3>1
  <2> QED
    BY <1>0, <1>4, <2>1
<1>6. Len(part1) = Len(part2) /\ (part1 = <<>> <=> part2 = <<>>)
  BY <1>a, <1>b, <1>4
<1>7. part1 = part2
  <2>1. ASSUME NEW i \in 1 .. Len(part1), part1 # <<>> PROVE part1[i] = part2[i]
    <3>1. /\ Len(id1) + 1 + i \in 1 .. Len(s) - n
          /\ n + (Len(id1) + 1 + i) = n + Len(id1) + 1 + i
      BY <1>a, <1>b, <2>1
    <3>2. s[n + Len(id1) + 1 + i] = t[n + Len(id1) + 1 + i]
      BY <1>3, <3>1
    <3> QED
      BY <1>1, <1>2, <1>4, <1>6, <2>1, <3>2
  <2>2. CASE part1 = <<>>
    BY <1>6, <2>2
  <2>3. CASE part1 # <<>>
    BY <1>0, <1>6, <2>1, <2>3
  <2> QED
    BY <2>2, <2>3
<1> QED
  BY <1>5, <1>7

(* The organization and the sanitized resource can be told from the name   *)
(* of a SearchIndex, whatever the prefix: bindings and resources of two    *)
(* kinds, or of two organizations, never meet in one SearchIndex, unless   *)
(* their names are cut off or sanitizing makes them the same.              *)
THEOREM ResourcesAreNamedApart ==
  \A prefix \in Seq(Chars), maxLength \in Nat :
    NamedApart(prefix, Ids, Seq(Chars), maxLength)
<1> SUFFICES ASSUME NEW prefix \in Seq(Chars), NEW maxLength \in Nat,
                    NEW p \in Ids \X Seq(Chars), NEW q \in Ids \X Seq(Chars),
                    Len(Joined(prefix, p[1], p[2])) <= maxLength,
                    Len(Joined(prefix, q[1], q[2])) <= maxLength,
                    BuildCanonicalIndexName(prefix, p[1], p[2], maxLength)
                      = BuildCanonicalIndexName(prefix, q[1], q[2], maxLength)
             PROVE  p[1] = q[1] /\ SanitizeIndexNamePart(p[2]) = SanitizeIndexNamePart(q[2])
  BY DEF NamedApart
<1> DEFINE s == Joined(prefix, p[1], p[2])
           t == Joined(prefix, q[1], q[2])
           part1 == SanitizeIndexNamePart(p[2])
           part2 == SanitizeIndexNamePart(q[2])
<1>1. /\ p[1] \in Ids /\ Clean(part1) /\ Composed(s, prefix, p[1], part1)
      /\ q[1] \in Ids /\ Clean(part2) /\ Composed(t, prefix, q[1], part2)
  BY JoinedIsComposed
<1>2. Len(s) \in Nat /\ Len(t) \in Nat
  BY <1>1 DEF Composed
<1>3. TrimDashes(s) = TrimDashes(t)
  BY <1>2 DEF BuildCanonicalIndexName
<1> HIDE DEF s, t, part1, part2
<1>4. Len(s) = Len(t) /\ \A i \in Len(prefix) + 2 .. Len(s) : s[i] = t[i]
  BY <1>1, <1>3, TrimmedApart
<1>5. p[1] = q[1] /\ part1 = part2
  BY <1>1, <1>4, ComposedApart
<1> QED
  BY <1>5 DEF part1, part2

(* Under a prefix that is clean itself nothing is trimmed from a name.     *)
LEMMA NameIsClean ==
  ASSUME NEW prefix \in Seq(Chars), Clean(prefix), prefix # <<>>,
         NEW id \in Ids, NEW part, Clean(part), NEW s, Composed(s, prefix, id, part)
  PROVE  Clean(s)
<1> DEFINE C == Alphanumerics \cup {"-"}
           n == Len(prefix) + 1
           m == n + Len(id)
<1>0. /\ Len(prefix) \in Nat \ {0} /\ prefix[1] # "-" /\ prefix[Len(prefix)] # "-"
      /\ \A i \in 1 .. Len(prefix) : prefix[i] \in C
      /\ \A i \in 1 .. Len(prefix) - 1 : prefix[i] = "-" => prefix[i + 1] # "-"
  BY DEF Clean, SingleDashes
<1>1. Len(id) \in Nat \ {0} /\ \A i \in 1 .. Len(id) : id[i] \in C /\ id[i] # "-"
  BY IdsAreClean
<1>2. /\ Len(part) \in Nat /\ part # <<>> => Len(part) > 0
      /\ \A i \in 1 .. Len(part) : part[i] \in C
      /\ \A i \in 1 .. Len(part) - 1 : part[i] = "-" => part[i + 1] # "-"
      /\ part # <<>> => part[1] # "-"
  BY DEF Clean, SingleDashes
<1>3. /\ s \in Seq(Chars)
      /\ Len(s) = IF part = <<>> THEN m ELSE m + 1 + Len(part)
      /\ \A i \in 1 .. Len(prefix) : s[i] = prefix[i]
      /\ s[n] = "-"
      /\ \A i \in 1 .. Len(id) : s[n + i] = id[i]
      /\ part # <<>> => /\ s[m + 1] = "-"
                        /\ \A i \in 1 .. Len(part) : s[m + 1 + i] = part[i]
  BY DEF Composed
<1>4. n \in Nat /\ m \in Nat /\ n < m /\ Len(prefix) < n /\ 1 < n /\ m <= Len(s) /\ Len(s) \in Nat
  BY <1>0, <1>1, <1>2, <1>3
\* Where a character of the name comes from.
<1>5. ASSUME NEW i \in 1 .. Len(s)
      PROVE  \/ i \in 1 .. Len(prefix)
             \/ i = n
             \/ \E j \in 1 .. Len(id) : i = n + j
             \/ i = m + 1 /\ part # <<>>
             \/ part # <<>> /\ \E j \in 1 .. Len(part) : i = m + 1 + j
  <2>1. CASE i <= Len(prefix)
    BY <1>0, <2>1
  <2>2. CASE Len(prefix) < i /\ i <= m
    <3>1. i # n => i - n \in 1 .. Len(id) /\ i = n + (i - n)
      BY <1>0, <1>1, <2>2
    <3> HIDE DEF n
    <3> QED
      BY <3>1
  <2>3. CASE m < i
    <3>1. part # <<>> /\ (i # m + 1 => i - (m + 1) \in 1 .. Len(part) /\ i = m + 1 + (i - (m + 1)))
      BY <1>2, <1>3, <1>4, <2>3
    <3> HIDE DEF m
    <3> QED
      BY <3>1
  <2> QED
    BY <1>0, <1>4, <2>1, <2>2, <2>3
<1> HIDE DEF C, n, m
<1>6. ASSUME NEW i \in 1 .. Len(s) PROVE s[i] \in C
  <2>1. CASE i \in 1 .. Len(prefix)
    BY <1>0, <1>3, <2>1
  <2>2. CASE i = n \/ (i = m + 1 /\ part # <<>>)
    BY <1>3, <2>2 DEF C
  <2>3. ASSUME NEW j \in 1 .. Len(id), i = n + j PROVE s[i] \in C
    BY <1>1, <1>3, <2>3
  <2>4. ASSUME part # <<>>, NEW j \in 1 .. Len(part), i = m + 1 + j PROVE s[i] \in C
    BY <1>2, <1>3, <2>4
  <2> QED
    BY <1>5, <2>1, <2>2, <2>3, <2>4
<1>7. ASSUME NEW i \in 1 .. Len(s) - 1, s[i] = "-" PROVE s[i + 1] # "-"
  <2>0. i \in 1 .. Len(s) /\ i + 1 \in 1 .. Len(s)
    BY <1>4
  <2>1. CASE i \in 1 .. Len(prefix)
    <3>1. i \in 1 .. Len(prefix) - 1
      BY <1>0, <1>3, <1>7, <2>1
    <3>2. prefix[i] = "-" /\ i + 1 \in 1 .. Len(prefix)
      BY <1>0, <1>3, <1>7, <3>1
    <3> QED
      BY <1>0, <1>3, <3>1, <3>2
  <2>2. CASE i = n
    <3>1. 1 \in 1 .. Len(id)
      BY <1>1
    <3> QED
      BY <1>1, <1>3, <2>2, <3>1
  <2>3. ASSUME NEW j \in 1 .. Len(id), i = n + j PROVE FALSE
    BY <1>1, <1>3, <1>7, <2>3
  <2>4. CASE i = m + 1 /\ part # <<>>
    <3>1. 1 \in 1 .. Len(part)
      BY <1>2, <2>4
    <3> QED
      BY <1>2, <1>3, <2>4, <3>1
  <2>5. ASSUME part # <<>>, NEW j \in 1 .. Len(part), i = m + 1 + j PROVE s[i + 1] # "-"
    <3>1. j \in 1 .. Len(part) - 1 /\ j + 1 \in 1 .. Len(part) /\ i + 1 = m + 1 + (j + 1)
      BY <1>2, <1>3, <1>4, <2>0, <2>5
    <3>2. part[j] = "-"
      BY <1>3, <1>7, <2>5
    <3>3. part[j + 1] # "-"
      BY <1>2, <3>1, <3>2
    <3> QED
      BY <1>3, <2>5, <3>1, <3>3
  <2> QED
    BY <1>5, <2>0, <2>1, <2>2, <2>3, <2>4, <2>5
<1>8. s \in Seq(C)
  BY <1>3, <1>4, <1>6
<1>9. s[1] # "-" /\ s[Len(s)] # "-"
  <2>1. s[1] # "-"
    BY <1>0, <1>3
  <2>2. s[Len(s)] # "-"
    BY TrimComposed
  <2> QED
    BY <2>1, <2>2
<1> QED
  BY <1>4, <1>7, <1>8, <1>9 DEF Clean, SingleDashes, C

(* What the store relies on when it tells indices from aliases: under a    *)
(* prefix that needs no sanitizing, no SearchIndex takes the name of a     *)
(* legacy index or of the common alias, and each is listed under its own   *)
(* name, whatever the organizations and resources.                         *)
THEOREM NamesAreApartFromAliases ==
  ASSUME NEW prefix \in Seq(Chars) \ {<<>>}, SanitizeIndexNamePart(prefix) = prefix,
         NEW maxLength \in Nat
  PROVE  ApartFromAliases(prefix, Ids, Seq(Chars), maxLength)
<1> SUFFICES ASSUME NEW id \in Ids, NEW r \in Seq(Chars),
                    SanitizeIndexNamePart(r) # <<>>,
                    Len(Joined(prefix, id, r)) <= maxLength,
                    NEW name, name = BuildCanonicalIndexName(prefix, id, r, maxLength),
                    NEW static, static = NormalizePrefix(prefix)
             PROVE  /\ name \notin Ids
                    /\ name # AllAliasOf(static)
                    /\ BuildIndexAliases(static, id, name) = <<AllAliasOf(static), name>>
  BY Zenon DEF ApartFromAliases
<1> DEFINE s == Joined(prefix, id, r)
           part == SanitizeIndexNamePart(r)
<1>1. Clean(prefix) /\ Clean(part) /\ Composed(s, prefix, id, part)
  BY SanitizedIsClean, JoinedIsComposed
<1>2. Clean(s)
  BY <1>1, NameIsClean
<1>3. name = s
  <2>1. Len(s) \in Nat /\ TrimDashes(s) = s
    BY <1>2, TrimLeaves DEF Clean, SingleDashes
  <2>2. name = TrimDashes(s)
    BY <2>1 DEF BuildCanonicalIndexName
  <2> QED
    BY <2>1, <2>2
<1>4. static = prefix
  BY DEF NormalizePrefix
<1> DEFINE n == Len(prefix) + 1
           m == n + Len(id)
<1>5. /\ Len(prefix) \in Nat /\ Len(id) \in Nat \ {0} /\ Len(part) \in Nat \ {0}
      /\ Len(s) = m + 1 + Len(part)
      /\ s[n] = "-" /\ s[m + 1] = "-"
  <2>1. Len(part) \in Nat \ {0}
    BY <1>1 DEF Clean, SingleDashes
  <2> QED
    BY <1>1, <2>1, IdsAreClean DEF Composed
<1> HIDE DEF s, part
<1>6. name \notin Ids
  <2> SUFFICES ASSUME s \in Ids PROVE FALSE
    BY <1>3
  <2>1. n \in 1 .. Len(s)
    BY <1>5
  <2> QED
    BY <1>5, <2>1, IdsAreClean
<1>7. name # AllAliasOf(static)
  <2> DEFINE alias == prefix \o <<"-", "a", "l", "l">>
  <2> SUFFICES ASSUME s = alias PROVE FALSE
    BY <1>3, <1>4 DEF AllAliasOf
  <2>1. /\ Len(alias) = Len(prefix) + 4
        /\ alias[Len(prefix) + 2] = "a"
        /\ alias[Len(prefix) + 3] = "l"
        /\ alias[Len(prefix) + 4] = "l"
    OBVIOUS
  <2>2. m + 1 \in {Len(prefix) + 3, Len(prefix) + 4}
    BY <1>5, <2>1
  <2>3. s[m + 1] = "l"
    BY <2>1, <2>2
  <2> QED
    BY <1>5, <2>3
<1>8. BuildIndexAliases(static, id, name) = <<AllAliasOf(static), name>>
  <2>1. SanitizeIndexNamePart(name) = name /\ SanitizeIndexNamePart(id) = id
    BY <1>2, <1>3, CleanStays, IdsAreClean
  <2>2. name # <<>> /\ name # id
    BY <1>3, <1>5, <1>6
  <2>3. SanitizeIndexNamePart(static) # <<>>
    BY <1>4
  <2> DEFINE all == AllAliasOf(static)
  <2>4. BuildIndexAliases(static, id, name) = <<all>> \o <<name>>
    BY <2>1, <2>2, <2>3 DEF BuildIndexAliases
  <2> HIDE DEF all
  <2>5. <<all>> \o <<name>> = <<all, name>>
    <3> DEFINE pair == <<all>> \o <<name>>
    <3>1. pair \in Seq({all, name}) /\ Len(pair) = 2 /\ pair[1] = all /\ pair[2] = name
      OBVIOUS
    <3> HIDE DEF pair
    <3>2. pair = <<all, name>>
      BY <3>1
    <3> QED
      BY <3>2 DEF pair
  <2> QED
    BY <2>4, <2>5 DEF all
<1> QED
  BY <1>6, <1>7, <1>8
=============================================================================

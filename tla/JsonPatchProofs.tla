---------------------------- MODULE JsonPatchProofs ----------------------------
(***************************************************************************)
(* What JSON documents and patches do, for any documents and patches.      *)
(***************************************************************************)
EXTENDS JsonPatch, SequenceTheorems, WellFoundedInduction, TLAPS

----------------------------------------------------------------------------
(* Induction over the natural numbers, for a set instead of a predicate.   *)

LEMMA Induction ==
    ASSUME NEW T, 0 \in T, \A n \in Nat : n \in T => n + 1 \in T
    PROVE  Nat \subseteq T
<1>. DEFINE Others == Nat \ T
<1>1. SUFFICES ASSUME Others # {}
               PROVE  FALSE
  OBVIOUS
<1>2. PICK m \in Others : \A k \in Others : ~ (<<k, m>> \in OpToRel(<, Nat))
  BY <1>1, WFMin, NatLessThanWellFounded, Zenon
<1>3. \A k \in Others : ~ (k < m)
  BY <1>2, Zenon DEF OpToRel
<1>4. m \in Nat /\ m # 0 /\ m \notin T
  OBVIOUS
<1>. HIDE DEF Others
<1>5. m - 1 \in Nat /\ m - 1 < m /\ (m - 1) + 1 = m
  BY <1>4
<1>6. m - 1 \in T
  BY <1>3, <1>5 DEF Others
<1>. QED  BY <1>4, <1>5, <1>6

----------------------------------------------------------------------------
(* Paths                                                                   *)

LEMMA PrefixOf ==
    ASSUME NEW S, NEW s \in Seq(S), NEW t \in Seq(S)
    PROVE  IsPrefix(s, t) <=> Len(s) <= Len(t) /\ \A i \in 1..Len(s) : s[i] = t[i]
<1>1. SubSeq(s, 1, Len(s)) = s
  BY SubSeqFull
<1>2. ASSUME Len(s) <= Len(t)
      PROVE  /\ SubSeq(t, 1, Len(s)) \in Seq(S)
             /\ Len(SubSeq(t, 1, Len(s))) = Len(s)
             /\ \A i \in 1..Len(s) : SubSeq(t, 1, Len(s))[i] = t[i]
  <2>1. Len(s) \in Nat /\ Len(t) \in Nat /\ \A i \in 1..Len(s) : t[i] \in S
    BY <1>2, LenProperties, ElementOfSeq
  <2>. QED  BY <2>1, SubSeqProperties
<1>3. ASSUME Len(s) <= Len(t), \A i \in 1..Len(s) : s[i] = t[i]
      PROVE  s = SubSeq(t, 1, Len(s))
  BY <1>2, <1>3, SeqEqual
<1>. QED  BY <1>1, <1>2, <1>3 DEF IsPrefix

\* The first elements of a path.
LEMMA FirstOf ==
    ASSUME NEW S, NEW s \in Seq(S), NEW n \in 0..Len(s)
    PROVE  /\ SubSeq(s, 1, n) \in Seq(S) /\ Len(SubSeq(s, 1, n)) = n
           /\ \A i \in 1..n : SubSeq(s, 1, n)[i] = s[i]
<1>1. n \in Nat /\ Len(s) \in Nat /\ \A i \in 1..n : s[i] \in S
  BY LenProperties, ElementOfSeq
<1>. QED  BY <1>1, SubSeqProperties

\* The rest of a path.
LEMMA RestOf ==
    ASSUME NEW S, NEW s \in Seq(S), NEW t \in Seq(S)
    PROVE  /\ s \o t \in Seq(S) /\ Len(s \o t) = Len(s) + Len(t)
           /\ IsPrefix(s, s \o t)
           /\ SubSeq(s \o t, Len(s) + 1, Len(s \o t)) = t
<1>1. /\ s \o t \in Seq(S) /\ Len(s \o t) = Len(s) + Len(t)
      /\ \A i \in 1..Len(s) + Len(t) :
            (s \o t)[i] = IF i <= Len(s) THEN s[i] ELSE t[i - Len(s)]
  BY ConcatProperties
<1>2. Len(s) \in Nat /\ Len(t) \in Nat
  BY LenProperties
<1>3. IsPrefix(s, s \o t)
  <2>. DEFINE both == s \o t
  <2>1. both \in Seq(S) /\ Len(s) <= Len(both) /\ \A i \in 1..Len(s) : s[i] = both[i]
    BY <1>1, <1>2
  <2>. HIDE DEF both
  <2>2. IsPrefix(s, both)
    BY <2>1, PrefixOf
  <2>. QED  BY <2>2 DEF both
<1>. DEFINE rest == SubSeq(s \o t, Len(s) + 1, Len(s \o t))
<1>4. /\ rest \in Seq(S) /\ Len(rest) = Len(t)
      /\ \A i \in 1..Len(t) : rest[i] = t[i]
  <2>1. \A i \in Len(s) + 1..Len(s \o t) : (s \o t)[i] \in S
    BY <1>1, <1>2, ElementOfSeq
  <2>2. /\ rest \in Seq(S)
        /\ Len(rest) = IF Len(s) + 1 <= Len(s \o t) THEN Len(s \o t) - (Len(s) + 1) + 1 ELSE 0
        /\ \A i \in 1..Len(s \o t) - (Len(s) + 1) + 1 : rest[i] = (s \o t)[Len(s) + 1 + i - 1]
    <3>1. Len(s) + 1 \in Int /\ Len(s \o t) \in Int
      BY <1>1, <1>2
    <3>. QED  BY <2>1, <3>1, SubSeqProperties
  <2>. QED  BY <1>1, <1>2, <2>2
<1>5. rest = t
  BY <1>4, SeqEqual
<1>. QED  BY <1>1, <1>3, <1>5

\* What does not go through a path has no first elements that do.
LEMMA ShorterHasLess ==
    ASSUME NEW path \in Seq(Keys), NEW q \in Seq(Keys), NEW n \in 0..Len(q),
           ~IsPrefix(path, q)
    PROVE  ~IsPrefix(path, SubSeq(q, 1, n))
<1>. DEFINE first == SubSeq(q, 1, n)
<1>1. Len(q) \in Nat /\ Len(path) \in Nat
  BY LenProperties
<1>2. first \in Seq(Keys) /\ Len(first) = n /\ \A i \in 1..n : first[i] = q[i]
  BY FirstOf
<1>. HIDE DEF first
<1>3. IsPrefix(path, first) => IsPrefix(path, q)
  BY <1>1, <1>2, PrefixOf
<1>. QED  BY <1>3 DEF first

----------------------------------------------------------------------------
(* Adding to a document                                                    *)

\* A document has all that another one has.
Extends(doc, more) ==
    /\ DOMAIN doc \subseteq DOMAIN more
    /\ \A path \in DOMAIN doc : more[path] = doc[path]

\* It has these paths, too, and no others.
Gains(doc, more, paths) ==
    Extends(doc, more) /\ DOMAIN more = DOMAIN doc \cup paths

\* The same, where there may be other values at some paths.
Keeps(doc, more, but) ==
    /\ DOMAIN doc \subseteq DOMAIN more
    /\ \A path \in DOMAIN doc \ but : more[path] = doc[path]

Obtains(doc, more, paths, but) ==
    Keeps(doc, more, but) /\ DOMAIN more = DOMAIN doc \cup paths

\* What is kept when something is added at a path, and what is new.
Kept(doc, path) == {q \in DOMAIN doc : ~IsPrefix(path, q)}
New(path, v) == {path \o r : r \in DOMAIN v}

\* What was added is there.
Brings(path, v, result) == \A r \in DOMAIN v : result[path \o r] = v[r]

\* Adding takes nothing away: there is nothing yet, or nothing below it.
Free(doc, path, v) ==
    /\ \A q \in DOMAIN doc : ~IsStrictPrefix(path, q)
    /\ Has(doc, path) => doc[path] = v[<<>>]

LEMMA AddedBrings ==
    ASSUME NEW doc, NEW v, NEW path \in Seq(Keys), IsDocument(doc), IsDocument(v)
    PROVE  Brings(path, v, Added(doc, Add(path, v)))
<1>. DEFINE old(q) == v[SubSeq(q, Len(path) + 1, Len(q))]
<1>1. Added(doc, Add(path, v)) =
        [q \in Kept(doc, path) \cup New(path, v) |->
            IF q \in Kept(doc, path) THEN doc[q] ELSE old(q)]
  BY DEF Added, Add, Kept, New
<1>2. ASSUME NEW r \in DOMAIN v
      PROVE  path \o r \notin Kept(doc, path) /\ old(path \o r) = v[r]
  <2>1. r \in Seq(Keys)
    BY DEF IsDocument
  <2>2. IsPrefix(path, path \o r) /\ SubSeq(path \o r, Len(path) + 1, Len(path \o r)) = r
    BY <2>1, RestOf
  <2>. QED  BY <2>2 DEF Kept
<1>3. \A r \in DOMAIN v : path \o r \in New(path, v)
  BY DEF New
<1>. HIDE DEF old
<1>. QED  BY <1>1, <1>2, <1>3 DEF Brings

LEMMA AddedKeeps ==
    ASSUME NEW doc, NEW v, NEW path \in Seq(Keys), IsDocument(doc), IsDocument(v)
    PROVE  /\ DOMAIN Added(doc, Add(path, v)) = Kept(doc, path) \cup New(path, v)
           /\ \A q \in Kept(doc, path) : Added(doc, Add(path, v))[q] = doc[q]
BY DEF Added, Add, Kept, New

LEMMA AddedIsFunction ==
    ASSUME NEW doc, NEW v, NEW path,
           NEW result, result = Added(doc, Add(path, v))
    PROVE  result = [q \in DOMAIN result |-> result[q]]
BY DEF Added

LEMMA AddedIsDocument ==
    ASSUME NEW doc, NEW v, NEW path \in Seq(Keys), NEW result,
           path # <<>>, IsDocument(doc), IsDocument(v), Has(doc, Front(path)),
           result = Added(doc, Add(path, v))
    PROVE  IsDocument(result)
<1>. DEFINE kept == Kept(doc, path)
            new == New(path, v)
<1>1. result = [q \in DOMAIN result |-> result[q]] /\ DOMAIN result = kept \cup new
  <2>1. result = [q \in DOMAIN result |-> result[q]]
    BY AddedIsFunction
  <2>2. DOMAIN result = kept \cup new
    BY AddedKeeps
  <2>. QED  BY <2>1, <2>2
<1>. USE DEF Kept, New
<1>2. /\ DOMAIN doc \subseteq Seq(Keys) /\ DOMAIN v \subseteq Seq(Keys)
      /\ <<>> \in DOMAIN doc /\ Len(path) \in Nat \ {0}
  BY EmptySeq DEF IsDocument
<1>3. DOMAIN result \subseteq Seq(Keys)
  <2>1. \A r \in DOMAIN v : path \o r \in Seq(Keys)
    BY <1>2, ConcatProperties
  <2>. QED  BY <1>1, <1>2, <2>1
<1>4. <<>> \in kept
  BY <1>2, PrefixOf, EmptySeq
<1>6. ASSUME NEW q \in kept, NEW n \in 0..Len(q)
      PROVE  SubSeq(q, 1, n) \in kept
  <2>1. q \in DOMAIN doc /\ ~IsPrefix(path, q) /\ SubSeq(q, 1, n) \in DOMAIN doc
    BY DEF IsDocument
  <2>. QED  BY <1>2, <2>1, ShorterHasLess
<1>7. ASSUME NEW n \in 0..Len(path) - 1
      PROVE  SubSeq(path, 1, n) \in kept
  <2>. DEFINE up == SubSeq(path, 1, Len(path) - 1)
              first == SubSeq(path, 1, n)
  <2>1. /\ up \in Seq(Keys) /\ Len(up) = Len(path) - 1
        /\ \A i \in 1..Len(path) - 1 : up[i] = path[i]
    <3>. HIDE DEF up
    <3>1. Len(path) - 1 \in 0..Len(path)
      BY <1>2
    <3>. QED  BY <3>1, FirstOf DEF up
  <2>2. first \in Seq(Keys) /\ Len(first) = n /\ \A i \in 1..n : first[i] = path[i]
    <3>. HIDE DEF first
    <3>1. n \in 0..Len(path)
      BY <1>2
    <3>. QED  BY <3>1, FirstOf DEF first
  <2>3. SubSeq(up, 1, n) = first
    <3>. HIDE DEF up, first
    <3>1. n \in 0..Len(up)
      BY <2>1
    <3>2. /\ SubSeq(up, 1, n) \in Seq(Keys) /\ Len(SubSeq(up, 1, n)) = n
          /\ \A i \in 1..n : SubSeq(up, 1, n)[i] = up[i]
      BY <2>1, <3>1, FirstOf
    <3>3. \A i \in 1..n : SubSeq(up, 1, n)[i] = first[i]
      <4>1. \A i \in 1..n : i \in 1..Len(path) - 1
        BY <1>2
      <4>. QED  BY <2>1, <2>2, <3>2, <4>1
    <3>. QED  BY <2>2, <3>2, <3>3, SeqEqual
  <2>4. up \in DOMAIN doc
    BY DEF Has, Front
  <2>5. first \in DOMAIN doc
    <3>. HIDE DEF up, first
    <3>1. n \in 0..Len(up)
      BY <2>1
    <3>. QED  BY <2>3, <2>4, <3>1 DEF IsDocument
  <2>6. ~IsPrefix(path, first)
    <3>. HIDE DEF first
    <3>. QED  BY <1>2, <2>2, PrefixOf
  <2>. QED  BY <2>5, <2>6
<1>8. ASSUME NEW r \in DOMAIN v, NEW n \in 0..Len(path \o r)
      PROVE  SubSeq(path \o r, 1, n) \in kept \cup new
  <2>1. r \in Seq(Keys) /\ Len(r) \in Nat
    BY <1>2, LenProperties
  <2>. DEFINE both == path \o r
  <2>2. /\ both \in Seq(Keys) /\ Len(both) = Len(path) + Len(r)
        /\ \A i \in 1..Len(path) + Len(r) :
              both[i] = IF i <= Len(path) THEN path[i] ELSE r[i - Len(path)]
    BY <2>1, ConcatProperties
  <2>. HIDE DEF both
  <2>3. n \in 0..Len(both)
    BY DEF both
  <2>4. /\ SubSeq(both, 1, n) \in Seq(Keys) /\ Len(SubSeq(both, 1, n)) = n
        /\ \A i \in 1..n : SubSeq(both, 1, n)[i] = both[i]
    BY <2>2, <2>3, FirstOf
  <2>5. CASE n < Len(path)
    <3>1. n \in 0..Len(path) - 1
      BY <1>2, <2>5
    <3>2. SubSeq(path, 1, n) \in Seq(Keys) /\ Len(SubSeq(path, 1, n)) = n
          /\ \A i \in 1..n : SubSeq(path, 1, n)[i] = path[i]
      BY <1>2, <3>1, FirstOf
    <3>3. SubSeq(path, 1, n) = SubSeq(both, 1, n)
      <4>1. \A i \in 1..n : SubSeq(path, 1, n)[i] = SubSeq(both, 1, n)[i]
        BY <1>2, <2>1, <2>2, <2>4, <2>5, <3>2
      <4>. QED  BY <2>4, <3>2, <4>1, SeqEqual
    <3>. QED  BY <1>7, <3>1, <3>3 DEF both
  <2>6. CASE n >= Len(path)
    <3>. DEFINE m == n - Len(path)
                rest == SubSeq(r, 1, m)
    <3>1. m \in 0..Len(r) /\ m \in Nat
      BY <1>2, <2>1, <2>2, <2>3, <2>6
    <3>2. rest \in Seq(Keys) /\ Len(rest) = m /\ \A i \in 1..m : rest[i] = r[i]
      BY <2>1, <3>1, FirstOf
    <3>3. rest \in DOMAIN v
      BY <3>1 DEF IsDocument
    <3>. HIDE DEF rest
    <3>4. /\ path \o rest \in Seq(Keys) /\ Len(path \o rest) = n
          /\ \A i \in 1..n : (path \o rest)[i] =
                IF i <= Len(path) THEN path[i] ELSE rest[i - Len(path)]
      <4>1. Len(path) + m = n
        BY <1>2, <2>2, <2>3, <2>1
      <4>. QED  BY <3>2, <4>1, ConcatProperties
    <3>. DEFINE joined == path \o rest
    <3>5. joined \in new
      BY <3>3
    <3>6. joined \in Seq(Keys) /\ Len(joined) = n
      BY <3>4
    <3>7. \A i \in 1..n : joined[i] = SubSeq(both, 1, n)[i]
      <4>1. \A i \in 1..n : joined[i] = IF i <= Len(path) THEN path[i] ELSE rest[i - Len(path)]
        BY <3>4
      <4>. HIDE DEF joined
      <4>2. ASSUME NEW i \in 1..n, i > Len(path)
            PROVE  rest[i - Len(path)] = both[i]
        <5>1. i - Len(path) \in 1..m /\ i \in 1..Len(path) + Len(r) /\ ~(i <= Len(path))
          BY <1>2, <2>1, <2>2, <2>3, <4>2
        <5>. QED  BY <2>2, <3>2, <5>1
      <4>3. ASSUME NEW i \in 1..n, i <= Len(path)
            PROVE  path[i] = both[i]
        <5>1. i \in 1..Len(path) + Len(r)
          BY <1>2, <2>1, <2>2, <2>3
        <5>. QED  BY <2>2, <4>3, <5>1
      <4>4. \A i \in 1..n : i <= Len(path) \/ i > Len(path)
        BY <1>2
      <4>. QED  BY <2>4, <4>1, <4>2, <4>3, <4>4
    <3>8. joined = SubSeq(both, 1, n)
      <4>. HIDE DEF joined
      <4>. QED  BY <2>4, <3>6, <3>7, SeqEqual
    <3>. QED  BY <3>5, <3>8 DEF both
  <2>7. n \in Nat
    BY <1>2, <2>1, <2>2, <2>3
  <2>8. n < Len(path) \/ n >= Len(path)
    BY <1>2, <2>7
  <2>. QED  BY <2>5, <2>6, <2>8
<1>9. \A q \in kept \cup new : \A n \in 0..Len(q) : SubSeq(q, 1, n) \in kept \cup new
  BY <1>6, <1>8
<1>. HIDE DEF kept, new
<1>. QED  BY <1>1, <1>3, <1>4, <1>9 DEF IsDocument

\* Adding where nothing is below replaces what is there, and nothing else.
LEMMA AddedReplaces ==
    ASSUME NEW doc, NEW v, NEW path \in Seq(Keys), NEW result,
           IsDocument(doc), IsDocument(v), \A q \in DOMAIN doc : ~IsStrictPrefix(path, q),
           result = Added(doc, Add(path, v))
    PROVE  Obtains(doc, result, New(path, v), {path}) /\ result[path] = v[<<>>]
<1>. DEFINE kept == Kept(doc, path)
            new == New(path, v)
<1>1. /\ DOMAIN result = kept \cup new
      /\ \A q \in kept : result[q] = doc[q]
  BY AddedKeeps
<1>2. \A r \in DOMAIN v : result[path \o r] = v[r]
  BY AddedBrings DEF Brings
<1>3. <<>> \in DOMAIN v /\ path \o <<>> = path
  BY ConcatEmptySeq DEF IsDocument
<1>4. path \in new /\ result[path] = v[<<>>]
  BY <1>2, <1>3 DEF New
<1>5. \A q \in DOMAIN doc : q \in kept \/ q = path
  BY DEF Kept, IsStrictPrefix
<1>6. kept \subseteq DOMAIN doc
  BY DEF Kept
<1>. HIDE DEF kept, new
<1>7. DOMAIN result = DOMAIN doc \cup new
  BY <1>1, <1>4, <1>5, <1>6
<1>8. Keeps(doc, result, {path})
  BY <1>1, <1>5, <1>7 DEF Keeps
<1>. QED  BY <1>4, <1>7, <1>8 DEF new, Obtains

\* Adding where there is nothing yet, or an object without members.
LEMMA AddedExtends ==
    ASSUME NEW doc, NEW v, NEW path \in Seq(Keys), NEW result,
           IsDocument(doc), IsDocument(v), Free(doc, path, v),
           result = Added(doc, Add(path, v))
    PROVE  Gains(doc, result, New(path, v))
<1>1. Obtains(doc, result, New(path, v), {path}) /\ result[path] = v[<<>>]
  BY AddedReplaces DEF Free
<1>2. Extends(doc, result)
  BY <1>1 DEF Obtains, Keeps, Extends, Free, Has
<1>. QED  BY <1>1, <1>2 DEF Obtains, Gains

\* What is left of a document without one of its members.
LEMMA WithoutIsDocument ==
    ASSUME NEW doc, NEW path \in Seq(Keys), path # <<>>, IsDocument(doc),
           NEW result, result = Without(doc, path)
    PROVE  /\ IsDocument(result)
           /\ DOMAIN result = Kept(doc, path)
           /\ \A q \in Kept(doc, path) : result[q] = doc[q]
<1>1. /\ result = [q \in DOMAIN result |-> result[q]]
      /\ DOMAIN result = Kept(doc, path)
      /\ \A q \in Kept(doc, path) : result[q] = doc[q]
  BY DEF Without, Kept
<1>2. DOMAIN doc \subseteq Seq(Keys) /\ <<>> \in DOMAIN doc /\ Len(path) \in Nat \ {0}
  BY EmptySeq DEF IsDocument
<1>3. <<>> \in Kept(doc, path)
  BY <1>2, PrefixOf, EmptySeq DEF Kept
<1>4. ASSUME NEW q \in Kept(doc, path), NEW n \in 0..Len(q)
      PROVE  SubSeq(q, 1, n) \in Kept(doc, path)
  <2>1. q \in DOMAIN doc /\ ~IsPrefix(path, q) /\ SubSeq(q, 1, n) \in DOMAIN doc
    BY DEF Kept, IsDocument
  <2>2. ~IsPrefix(path, SubSeq(q, 1, n))
    BY <1>2, <2>1, ShorterHasLess
  <2>. QED  BY <2>1, <2>2 DEF Kept
<1>. QED  BY <1>1, <1>2, <1>3, <1>4 DEF IsDocument, Kept

LEMMA ScalarIsDocument ==
    ASSUME NEW v
    PROVE  /\ IsDocument(Scalar(v))
           /\ DOMAIN Scalar(v) = {<<>>}
           /\ Scalar(v)[<<>>] = v
<1>1. /\ Scalar(v) = [path \in DOMAIN Scalar(v) |-> Scalar(v)[path]]
      /\ DOMAIN Scalar(v) = {<<>>}
      /\ Scalar(v)[<<>>] = v
  BY DEF Scalar
<1>2. <<>> \in Seq(Keys) /\ Len(<<>>) = 0
  BY EmptySeq
<1>3. \A n \in 0..Len(<<>>) : SubSeq(<<>>, 1, n) = <<>>
  BY <1>2, SubSeqEmpty
<1>. HIDE DEF Scalar
<1>. QED  BY <1>1, <1>2, <1>3 DEF IsDocument

LEMMA ObjectIsDocument ==
    ASSUME NEW members, DOMAIN members \subseteq Keys,
           NEW object, object = Object(members)
    PROVE  /\ IsDocument(object)
           /\ DOMAIN object = {<<>>} \cup {<<key>> : key \in DOMAIN members}
           /\ object[<<>>] = Braces
           /\ \A key \in DOMAIN members : object[<<key>>] = members[key]
<1>1. /\ object = [path \in DOMAIN object |-> object[path]]
      /\ DOMAIN object = {<<>>} \cup {<<key>> : key \in DOMAIN members}
      /\ object[<<>>] = Braces
      /\ \A key \in DOMAIN members : object[<<key>>] = members[key]
  BY DEF Object
<1>2. <<>> \in Seq(Keys) /\ Len(<<>>) = 0
  BY EmptySeq
<1>3. \A n \in 0..Len(<<>>) : SubSeq(<<>>, 1, n) = <<>>
  BY <1>2, SubSeqEmpty
<1>4. ASSUME NEW key \in DOMAIN members
      PROVE  /\ <<key>> \in Seq(Keys)
             /\ \A n \in 0..Len(<<key>>) : SubSeq(<<key>>, 1, n) \in {<<>>, <<key>>}
  <2>1. <<key>> \in Seq(Keys) /\ Len(<<key>>) = 1
    OBVIOUS
  <2>2. SubSeq(<<key>>, 1, 0) = <<>>
    BY SubSeqEmpty
  <2>3. SubSeq(<<key>>, 1, 1) = <<key>>
    BY <2>1, SubSeqFull
  <2>. QED  BY <2>1, <2>2, <2>3
<1>5. \A path \in DOMAIN object : path = <<>> \/ \E key \in DOMAIN members : path = <<key>>
  BY <1>1
<1>6. DOMAIN object \subseteq Seq(Keys) /\ <<>> \in DOMAIN object
  BY <1>1, <1>2, <1>4, <1>5
<1>7. \A path \in DOMAIN object : \A n \in 0..Len(path) : SubSeq(path, 1, n) \in DOMAIN object
  <2>. TAKE path \in DOMAIN object
  <2>1. CASE path = <<>>
    BY <1>3, <1>6, <2>1
  <2>2. ASSUME NEW key \in DOMAIN members, path = <<key>>
        PROVE  \A n \in 0..Len(path) : SubSeq(path, 1, n) \in DOMAIN object
    <3>1. \A n \in 0..Len(path) : SubSeq(path, 1, n) \in {<<>>, path}
      BY <1>4, <2>2, Zenon
    <3>. QED  BY <1>6, <3>1
  <2>. QED  BY <1>5, <2>1, <2>2
<1>8. IsDocument(object)
  BY <1>1, <1>6, <1>7 DEF IsDocument
<1>. QED  BY <1>1, <1>8

----------------------------------------------------------------------------
(* Applying a patch                                                        *)

IsPatch(patch) == patch \in Seq({patch[i] : i \in DOMAIN patch})

LEMMA EmptyPatch == IsPatch(<<>>) /\ Len(<<>>) = 0
BY EmptySeq DEF IsPatch

LEMMA LongerPatch ==
    ASSUME NEW patch, IsPatch(patch), NEW op
    PROVE  /\ Len(patch) \in Nat /\ DOMAIN patch = 1..Len(patch)
           /\ IsPatch(Append(patch, op))
           /\ Len(Append(patch, op)) = Len(patch) + 1
           /\ DOMAIN Append(patch, op) = 1..Len(patch) + 1
           /\ \A i \in 1..Len(patch) : Append(patch, op)[i] = patch[i]
           /\ Append(patch, op)[Len(patch) + 1] = op
<1>. DEFINE S == {patch[i] : i \in DOMAIN patch} \cup {op}
            longer == Append(patch, op)
<1>1. patch \in Seq(S) /\ op \in S
  BY SeqMonotonic DEF IsPatch
<1>2. /\ Len(patch) \in Nat /\ DOMAIN patch = 1..Len(patch)
      /\ longer \in Seq(S) /\ Len(longer) = Len(patch) + 1
      /\ \A i \in 1..Len(patch) : longer[i] = patch[i]
      /\ longer[Len(patch) + 1] = op
  <2>. HIDE DEF S
  <2>. QED  BY <1>1
<1>. HIDE DEF S, longer
<1>3. DOMAIN longer = 1..Len(longer)
  BY <1>2, LenProperties
<1>4. longer \in Seq({longer[i] : i \in DOMAIN longer})
  <2>. DEFINE own == {longer[i] : i \in DOMAIN longer}
  <2>1. longer = [i \in 1..Len(longer) |-> longer[i]]
    BY <1>2
  <2>2. \A i \in 1..Len(longer) : longer[i] \in own
    BY <1>3
  <2>. HIDE DEF own
  <2>3. Len(longer) \in Nat
    BY <1>2
  <2>4. [i \in 1..Len(longer) |-> longer[i]] \in Seq(own)
    BY <2>2, <2>3
  <2>. QED  BY <2>1, <2>4 DEF own
<1>. QED  BY <1>2, <1>3, <1>4 DEF IsPatch, longer

LEMMA LongerBy ==
    ASSUME NEW patch, IsPatch(patch), NEW a, NEW b
    PROVE  /\ patch \o <<>> = patch
           /\ patch \o <<a>> = Append(patch, a)
           /\ patch \o <<a, b>> = Append(Append(patch, a), b)
<1>. DEFINE S == {patch[i] : i \in DOMAIN patch} \cup {a, b}
            one == <<a>>
            two == <<a, b>>
<1>1. patch \in Seq(S) /\ a \in S /\ b \in S
  BY SeqMonotonic DEF IsPatch
<1>. HIDE DEF S
<1>2. /\ one \in Seq(S) /\ Len(one) = 1 /\ one[1] = a
      /\ two \in Seq(S) /\ Len(two) = 2 /\ two[1] = a /\ two[2] = b
      /\ Len(patch) \in Nat
  BY <1>1
<1>. HIDE DEF one, two
<1>3. patch \o one = Append(patch, a)
  <2>. DEFINE longer == patch \o one
              more == Append(patch, a)
  <2>1. /\ longer \in Seq(S) /\ Len(longer) = Len(patch) + 1
        /\ \A i \in 1..Len(patch) + 1 :
              longer[i] = IF i <= Len(patch) THEN patch[i] ELSE one[i - Len(patch)]
    BY <1>1, <1>2, ConcatProperties
  <2>2. /\ more \in Seq(S) /\ Len(more) = Len(patch) + 1
        /\ \A i \in 1..Len(patch) : more[i] = patch[i]
        /\ more[Len(patch) + 1] = a
    BY <1>1
  <2>. HIDE DEF longer, more
  <2>3. \A i \in 1..Len(longer) : longer[i] = more[i]
    <3>. TAKE i \in 1..Len(longer)
    <3>1. CASE i <= Len(patch)
      BY <1>2, <2>1, <2>2, <3>1
    <3>2. CASE i = Len(patch) + 1
      <4>1. i - Len(patch) = 1 /\ ~(i <= Len(patch))
        BY <1>2, <3>2
      <4>. QED  BY <1>2, <2>1, <2>2, <3>2, <4>1
    <3>. QED  BY <1>2, <2>1, <3>1, <3>2
  <2>4. longer = more
    BY <2>1, <2>2, <2>3, SeqEqual
  <2>. QED  BY <2>4 DEF longer, more
<1>4. patch \o two = Append(Append(patch, a), b)
  <2>. DEFINE longer == patch \o two
              more == Append(Append(patch, a), b)
  <2>1. /\ longer \in Seq(S) /\ Len(longer) = Len(patch) + 2
        /\ \A i \in 1..Len(patch) + 2 :
              longer[i] = IF i <= Len(patch) THEN patch[i] ELSE two[i - Len(patch)]
    <3>1. /\ longer \in Seq(S) /\ Len(longer) = Len(patch) + Len(two)
          /\ \A i \in 1..Len(patch) + Len(two) :
                longer[i] = IF i <= Len(patch) THEN patch[i] ELSE two[i - Len(patch)]
      BY <1>1, <1>2, ConcatProperties
    <3>. HIDE DEF longer
    <3>. QED  BY <1>2, <3>1
  <2>2. /\ more \in Seq(S) /\ Len(more) = Len(patch) + 2
        /\ \A i \in 1..Len(patch) : more[i] = patch[i]
        /\ more[Len(patch) + 1] = a /\ more[Len(patch) + 2] = b
    <3>. DEFINE half == Append(patch, a)
    <3>1. /\ half \in Seq(S) /\ Len(half) = Len(patch) + 1
          /\ \A i \in 1..Len(patch) : half[i] = patch[i]
          /\ half[Len(patch) + 1] = a
      BY <1>1
    <3>. HIDE DEF half
    <3>2. /\ Append(half, b) \in Seq(S) /\ Len(Append(half, b)) = Len(half) + 1
          /\ \A i \in 1..Len(half) : Append(half, b)[i] = half[i]
          /\ Append(half, b)[Len(half) + 1] = b
      BY <1>1, <3>1
    <3>3. /\ Append(half, b) \in Seq(S) /\ Len(Append(half, b)) = Len(patch) + 2
          /\ \A i \in 1..Len(patch) : Append(half, b)[i] = patch[i]
          /\ Append(half, b)[Len(patch) + 1] = a /\ Append(half, b)[Len(patch) + 2] = b
      BY <1>2, <3>1, <3>2
    <3>. QED  BY <3>3 DEF half
  <2>. HIDE DEF longer, more
  <2>3. \A i \in 1..Len(longer) : longer[i] = more[i]
    <3>. TAKE i \in 1..Len(longer)
    <3>1. CASE i <= Len(patch)
      BY <1>2, <2>1, <2>2, <3>1
    <3>2. CASE i = Len(patch) + 1
      <4>1. i - Len(patch) = 1 /\ ~(i <= Len(patch))
        BY <1>2, <3>2
      <4>. QED  BY <1>2, <2>1, <2>2, <3>2, <4>1
    <3>3. CASE i = Len(patch) + 2
      <4>1. i - Len(patch) = 2 /\ ~(i <= Len(patch))
        BY <1>2, <3>3
      <4>. QED  BY <1>2, <2>1, <2>2, <3>3, <4>1
    <3>. QED  BY <1>2, <2>1, <3>1, <3>2, <3>3
  <2>4. longer = more
    BY <2>1, <2>2, <2>3, SeqEqual
  <2>. QED  BY <2>4 DEF longer, more
<1>. QED  BY <1>1, <1>3, <1>4, ConcatEmptySeq DEF one, two

\* The states that a document goes through with the first operations.
IsRun(doc, patch, n, state) ==
    state = [i \in 0..n |-> IF i = 0 THEN [ok |-> TRUE, doc |-> doc]
                            ELSE Performed(state[i - 1], patch[i])]

LEMMA RunExists ==
    ASSUME NEW doc, NEW patch, NEW n \in Nat
    PROVE  \E state : IsRun(doc, patch, n, state)
<1>. DEFINE T == {m \in Nat : \E state : IsRun(doc, patch, m, state)}
<1>1. 0 \in T
  <2>. DEFINE start == [i \in 0..0 |-> [ok |-> TRUE, doc |-> doc]]
  <2>1. IsRun(doc, patch, 0, start)
    BY DEF IsRun
  <2>. QED  BY <2>1
<1>2. ASSUME NEW m \in Nat, m \in T
      PROVE  m + 1 \in T
  <2>1. PICK state : IsRun(doc, patch, m, state)
    BY <1>2
  <2>. DEFINE further == [i \in 0..m + 1 |->
                            IF i <= m THEN state[i] ELSE Performed(state[m], patch[m + 1])]
  <2>2. \A i \in 0..m : further[i] = state[i]
    OBVIOUS
  <2>3. further[m + 1] = Performed(state[m], patch[m + 1])
    OBVIOUS
  <2>4. \A i \in 0..m + 1 :
            further[i] = IF i = 0 THEN [ok |-> TRUE, doc |-> doc]
                         ELSE Performed(further[i - 1], patch[i])
    <3>. HIDE DEF further
    <3>. TAKE i \in 0..m + 1
    <3>1. CASE i = 0
      <4>1. state[0] = [ok |-> TRUE, doc |-> doc]
        BY <2>1 DEF IsRun
      <4>. QED  BY <2>2, <3>1, <4>1
    <3>2. CASE i \in 1..m
      <4>1. state[i] = Performed(state[i - 1], patch[i])
        <5>1. i \in 0..m /\ i # 0
          BY <3>2
        <5>. QED  BY <2>1, <5>1 DEF IsRun
      <4>2. i \in 0..m /\ i - 1 \in 0..m /\ i # 0
        BY <3>2
      <4>. QED  BY <2>2, <4>1, <4>2
    <3>3. CASE i = m + 1
      BY <2>2, <2>3, <3>3
    <3>. QED  BY <3>1, <3>2, <3>3
  <2>5. further = [i \in 0..m + 1 |-> further[i]]
    OBVIOUS
  <2>. HIDE DEF further
  <2>6. IsRun(doc, patch, m + 1, further)
    BY <2>4, <2>5 DEF IsRun
  <2>. QED  BY <2>6
<1>. HIDE DEF T
<1>3. Nat \subseteq T
  BY <1>1, <1>2, Induction
<1>. QED  BY <1>3 DEF T

LEMMA RunUnique ==
    ASSUME NEW doc, NEW p, NEW q, NEW n \in Nat, NEW m \in Nat, NEW s, NEW t,
           IsRun(doc, p, n, s), IsRun(doc, q, m, t), n <= m, \A i \in 1..n : p[i] = q[i]
    PROVE  \A i \in 0..n : s[i] = t[i]
<1>. DEFINE T == {i \in Nat : i <= n => s[i] = t[i]}
<1>1. 0 \in T
  BY DEF IsRun
<1>2. ASSUME NEW i \in Nat, i \in T
      PROVE  i + 1 \in T
  <2>1. SUFFICES ASSUME i + 1 <= n
                 PROVE  s[i + 1] = t[i + 1]
    OBVIOUS
  <2>2. s[i + 1] = Performed(s[i], p[i + 1])
    <3>1. i + 1 \in 0..n /\ i + 1 # 0 /\ (i + 1) - 1 = i
      BY <2>1
    <3>. QED  BY <3>1 DEF IsRun
  <2>3. t[i + 1] = Performed(t[i], q[i + 1])
    <3>1. i + 1 \in 0..m /\ i + 1 # 0 /\ (i + 1) - 1 = i
      BY <2>1
    <3>. QED  BY <3>1 DEF IsRun
  <2>4. s[i] = t[i] /\ p[i + 1] = q[i + 1]
    BY <1>2, <2>1
  <2>. QED  BY <2>2, <2>3, <2>4
<1>. HIDE DEF T
<1>3. Nat \subseteq T
  BY <1>1, <1>2, Induction
<1>. QED  BY <1>3 DEF T

\* The result of a patch is the end of any run of it.
LEMMA PatchedIs ==
    ASSUME NEW doc, NEW patch, Len(patch) \in Nat
    PROVE  \E state : /\ IsRun(doc, patch, Len(patch), state)
                      /\ Patched(doc, patch) = state[Len(patch)]
<1>. DEFINE chosen == CHOOSE state : IsRun(doc, patch, Len(patch), state)
<1>1. IsRun(doc, patch, Len(patch), chosen)
  BY RunExists, Zenon
<1>2. Patched(doc, patch) = chosen[Len(patch)]
  BY DEF Patched, IsRun
<1>. QED  BY <1>1, <1>2

LEMMA PatchedByNothing ==
    ASSUME NEW doc
    PROVE  Patched(doc, <<>>) = [ok |-> TRUE, doc |-> doc]
<1>1. Len(<<>>) = 0
  BY EmptyPatch
<1>2. PICK state : IsRun(doc, <<>>, 0, state) /\ Patched(doc, <<>>) = state[0]
  BY <1>1, PatchedIs
<1>. QED  BY <1>2 DEF IsRun

LEMMA PatchedFurther ==
    ASSUME NEW doc, NEW patch, IsPatch(patch), NEW op
    PROVE  Patched(doc, Append(patch, op)) = Performed(Patched(doc, patch), op)
<1>. DEFINE n == Len(patch)
            longer == Append(patch, op)
<1>1. /\ n \in Nat /\ Len(longer) = n + 1
      /\ \A i \in 1..n : longer[i] = patch[i]
      /\ longer[n + 1] = op
  BY LongerPatch
<1>. HIDE DEF n, longer
<1>2. PICK s : IsRun(doc, patch, n, s) /\ Patched(doc, patch) = s[n]
  BY <1>1, PatchedIs DEF n
<1>3. PICK t : IsRun(doc, longer, n + 1, t) /\ Patched(doc, longer) = t[n + 1]
  BY <1>1, PatchedIs
<1>4. s[n] = t[n]
  <2>1. \A i \in 0..n : s[i] = t[i]
    BY <1>1, <1>2, <1>3, RunUnique
  <2>. QED  BY <1>1, <2>1
<1>5. t[n + 1] = Performed(t[n], op)
  <2>1. n + 1 \in 0..n + 1 /\ n + 1 # 0 /\ (n + 1) - 1 = n
    BY <1>1
  <2>. QED  BY <1>1, <1>3, <2>1 DEF IsRun
<1>. QED  BY <1>2, <1>3, <1>4, <1>5 DEF longer

\* The operations so far, and one more that can be applied.
LEMMA PatchedOnce ==
    ASSUME NEW doc, NEW patch, NEW now, NEW path, NEW v,
           IsPatch(patch), Patched(doc, patch) = [ok |-> TRUE, doc |-> now],
           Has(now, Front(path))
    PROVE  Patched(doc, Append(patch, Add(path, v))) =
             [ok |-> TRUE, doc |-> Added(now, Add(path, v))]
<1>1. Patched(doc, Append(patch, Add(path, v))) =
        Performed(Patched(doc, patch), Add(path, v))
  BY PatchedFurther
<1>2. CanAdd(now, Add(path, v))
  BY DEF CanAdd, Add
<1>. QED  BY <1>1, <1>2 DEF Performed

----------------------------------------------------------------------------
(* Short paths                                                             *)

LEMMA NothingBelow ==
    ASSUME NEW doc, IsDocument(doc), NEW path \in Seq(Keys), ~Has(doc, path)
    PROVE  \A q \in DOMAIN doc : ~IsPrefix(path, q)
<1>1. SUFFICES ASSUME NEW q \in DOMAIN doc, IsPrefix(path, q)
               PROVE  FALSE
  OBVIOUS
<1>2. q \in Seq(Keys) /\ Len(q) \in Nat /\ Len(path) \in Nat
  BY LenProperties DEF IsDocument
<1>3. Len(path) \in 0..Len(q) /\ \A i \in 1..Len(path) : path[i] = q[i]
  BY <1>1, <1>2, PrefixOf
<1>4. /\ SubSeq(q, 1, Len(path)) \in Seq(Keys) /\ Len(SubSeq(q, 1, Len(path))) = Len(path)
      /\ \A i \in 1..Len(path) : SubSeq(q, 1, Len(path))[i] = q[i]
  BY <1>2, <1>3, FirstOf
<1>5. SubSeq(q, 1, Len(path)) = path
  BY <1>3, <1>4, SeqEqual
<1>. QED  BY <1>3, <1>5 DEF IsDocument, Has

LEMMA PathOfOne ==
    ASSUME NEW a \in Keys
    PROVE  /\ <<a>> \in Seq(Keys) /\ Len(<<a>>) = 1 /\ <<a>>[1] = a
           /\ <<a>> # <<>> /\ Front(<<a>>) = <<>>
<1>1. Front(<<a>>) = SubSeq(<<a>>, 1, 0)
  BY DEF Front
<1>2. SubSeq(<<a>>, 1, 0) = <<>>
  BY SubSeqEmpty
<1>. QED  BY <1>1, <1>2

LEMMA PathOfTwo ==
    ASSUME NEW a \in Keys, NEW b \in Keys
    PROVE  /\ <<a, b>> \in Seq(Keys) /\ Len(<<a, b>>) = 2
           /\ <<a, b>>[1] = a /\ <<a, b>>[2] = b
           /\ <<a, b>> # <<>> /\ Front(<<a, b>>) = <<a>>
           /\ <<a>> \o <<b>> = <<a, b>>
<1>. DEFINE path == <<a, b>>
            up == <<a>>
            rest == <<b>>
<1>1. /\ path \in Seq(Keys) /\ Len(path) = 2 /\ path[1] = a /\ path[2] = b
      /\ path # <<>>
  OBVIOUS
<1>2. up \in Seq(Keys) /\ Len(up) = 1 /\ up[1] = a
  OBVIOUS
<1>3. rest \in Seq(Keys) /\ Len(rest) = 1 /\ rest[1] = b
  OBVIOUS
<1>. HIDE DEF path, up, rest
<1>4. Front(path) = up
  <2>. DEFINE first == SubSeq(path, 1, 1)
  <2>1. first \in Seq(Keys) /\ Len(first) = 1 /\ \A i \in 1..1 : first[i] = path[i]
    <3>1. 1 \in 0..Len(path)
      BY <1>1
    <3>. QED  BY <1>1, <3>1, FirstOf
  <2>. HIDE DEF first
  <2>2. \A i \in 1..Len(first) : first[i] = up[i]
    BY <1>1, <1>2, <2>1
  <2>3. first = up
    BY <1>2, <2>1, <2>2, SeqEqual
  <2>. QED  BY <1>1, <2>3 DEF first, Front
<1>5. up \o rest = path
  <2>. DEFINE both == up \o rest
  <2>1. /\ both \in Seq(Keys) /\ Len(both) = 2
        /\ both[1] = a /\ both[2] = b
    BY <1>2, <1>3, ConcatProperties
  <2>. HIDE DEF both
  <2>2. \A i \in 1..Len(path) : path[i] = both[i]
    BY <1>1, <2>1
  <2>3. path = both
    BY <1>1, <2>1, <2>2, SeqEqual
  <2>. QED  BY <2>3 DEF both
<1>. QED  BY <1>1, <1>4, <1>5 DEF path, up, rest

LEMMA PathOfMore ==
    ASSUME NEW path \in Seq(Keys), NEW key \in Keys
    PROVE  /\ Append(path, key) \in Seq(Keys)
           /\ Len(Append(path, key)) = Len(path) + 1 /\ Len(path) \in Nat
           /\ \A i \in 1..Len(path) : Append(path, key)[i] = path[i]
           /\ Append(path, key)[Len(path) + 1] = key
           /\ Append(path, key) # <<>> /\ Front(Append(path, key)) = path
           /\ path \o <<key>> = Append(path, key)
<1>. DEFINE more == Append(path, key)
            rest == <<key>>
<1>1. /\ more \in Seq(Keys) /\ Len(more) = Len(path) + 1 /\ Len(path) \in Nat
      /\ \A i \in 1..Len(path) : more[i] = path[i]
      /\ more[Len(path) + 1] = key
  OBVIOUS
<1>2. rest \in Seq(Keys) /\ Len(rest) = 1 /\ rest[1] = key
  OBVIOUS
<1>. HIDE DEF more, rest
<1>3. more # <<>>
  BY <1>1, EmptySeq
<1>4. Front(more) = path
  <2>. DEFINE first == SubSeq(more, 1, Len(path))
  <2>1. /\ first \in Seq(Keys) /\ Len(first) = Len(path)
        /\ \A i \in 1..Len(path) : first[i] = more[i]
    <3>1. Len(path) \in 0..Len(more)
      BY <1>1
    <3>. QED  BY <1>1, <3>1, FirstOf
  <2>. HIDE DEF first
  <2>2. first = path
    BY <1>1, <2>1, SeqEqual
  <2>3. Len(more) - 1 = Len(path)
    BY <1>1
  <2>. QED  BY <2>2, <2>3 DEF first, Front
<1>5. path \o rest = more
  <2>. DEFINE both == path \o rest
  <2>1. /\ both \in Seq(Keys) /\ Len(both) = Len(path) + 1
        /\ \A i \in 1..Len(path) + 1 :
              both[i] = IF i <= Len(path) THEN path[i] ELSE rest[i - Len(path)]
    BY <1>2, ConcatProperties
  <2>. HIDE DEF both
  <2>2. \A i \in 1..Len(more) : both[i] = more[i]
    <3>. TAKE i \in 1..Len(more)
    <3>1. CASE i <= Len(path)
      BY <1>1, <2>1, <3>1
    <3>2. CASE i = Len(path) + 1
      <4>1. i - Len(path) = 1 /\ ~(i <= Len(path))
        BY <1>1, <3>2
      <4>. QED  BY <1>1, <1>2, <2>1, <3>2, <4>1
    <3>. QED  BY <1>1, <3>1, <3>2
  <2>3. both = more
    BY <1>1, <2>1, <2>2, SeqEqual
  <2>. QED  BY <2>3 DEF both
<1>. QED  BY <1>1, <1>3, <1>4, <1>5 DEF more, rest
=============================================================================

--------------------------- MODULE AdmissionProofs ---------------------------
(***************************************************************************)
(* What holds of the admission requests for any configs, annotations,      *)
(* objects and replicas.                                                   *)
(***************************************************************************)
EXTENDS Admission, JsonPatchProofs

----------------------------------------------------------------------------
(* Paths in pods and service accounts                                      *)

LEMMA Names ==
    /\ "annotations" \in Keys /\ Seccomp[2] \in Keys /\ \A f \in Features : Internal[f] \in Keys
    /\ "securityContext" \in Keys /\ "runAsUser" \in Keys /\ "runAsGroup" \in Keys
    /\ "automountServiceAccountToken" \in Keys /\ "deletionTimestamp" \in Keys
    /\ "containers" \in Keys /\ "allowPrivilegeEscalation" \in Keys
    /\ Seccomp = Note(Seccomp[2])
BY KeysAssumption DEF Seccomp, Note

LEMMA Records ==
    /\ Internal["seccompProfile"] = "karydia.gardener.cloud/seccompProfile.internal"
    /\ Internal["podSecurityContext"] = "karydia.gardener.cloud/podSecurityContext.internal"
    /\ Internal["automountServiceAccountToken"] =
         "karydia.gardener.cloud/automountServiceAccountToken.internal"
    /\ Seccomp[2] = "seccomp.security.alpha.kubernetes.io/pod"
BY DEF Internal, Features, Seccomp

LEMMA RootOf ==
    /\ <<"annotations">> \in Seq(Keys) /\ Len(<<"annotations">>) = 1
    /\ <<"annotations">>[1] = "annotations" /\ <<"annotations">> # <<>>
    /\ Front(<<"annotations">>) = <<>>
BY Names, PathOfOne, Zenon

LEMMA NoteOf ==
    ASSUME NEW key \in Keys
    PROVE  /\ Note(key) \in Seq(Keys) /\ Len(Note(key)) = 2
           /\ Note(key)[1] = "annotations" /\ Note(key)[2] = key
           /\ Note(key) # <<>> /\ Front(Note(key)) = <<"annotations">>
           /\ <<"annotations">> \o <<key>> = Note(key)
<1>1. "annotations" \in Keys
  BY Names
<1>. QED  BY <1>1, PathOfTwo, Zenon DEF Note

\* Whether a document has annotations depends on what is below their path.
LEMMA AnnotationsBelow ==
    ASSUME NEW doc, IsDocument(doc), ~NoAnnotations(doc)
    PROVE  Has(doc, <<"annotations">>)
<1>1. PICK path \in DOMAIN doc : IsStrictPrefix(<<"annotations">>, path)
  BY DEF NoAnnotations
<1>2. <<"annotations">> \in Seq(Keys)
  BY RootOf
<1>. QED  BY <1>1, <1>2, NothingBelow DEF IsStrictPrefix

LEMMA NoteIsBelow ==
    ASSUME NEW key \in Keys
    PROVE  IsStrictPrefix(<<"annotations">>, Note(key))
<1>. DEFINE path == Note(key)
            root == <<"annotations">>
<1>1. /\ path \in Seq(Keys) /\ Len(path) = 2 /\ path[1] = "annotations"
      /\ root \in Seq(Keys) /\ Len(root) = 1 /\ root[1] = "annotations"
  BY NoteOf, RootOf
<1>. HIDE DEF path, root
<1>2. Len(root) <= Len(path) /\ \A i \in 1..Len(root) : root[i] = path[i]
  BY <1>1
<1>3. IsPrefix(root, path)
  BY <1>1, <1>2, PrefixOf
<1>4. root # path
  BY <1>1
<1>. QED  BY <1>3, <1>4 DEF IsStrictPrefix, path, root

\* A path that begins with something else is not below the annotations.
LEMMA NotBelow ==
    ASSUME NEW path \in Seq(Keys), path # <<>>, path[1] # "annotations"
    PROVE  ~IsPrefix(<<"annotations">>, path)
<1>. DEFINE root == <<"annotations">>
<1>1. root \in Seq(Keys) /\ Len(root) = 1 /\ root[1] = "annotations"
  BY RootOf
<1>. HIDE DEF root
<1>2. 1 \in 1..Len(root)
  BY <1>1
<1>3. IsPrefix(root, path) => \A i \in 1..Len(root) : root[i] = path[i]
  BY <1>1, PrefixOf
<1>4. ~IsPrefix(root, path)
  BY <1>1, <1>2, <1>3
<1>. QED  BY <1>4 DEF root

----------------------------------------------------------------------------
(* What patches lead to                                                    *)

Succeeds(doc, patch, now) ==
    IsPatch(patch) /\ Patched(doc, patch) = [ok |-> TRUE, doc |-> now]

RecordPaths == {Record(f) : f \in Features}

\* Annotations are strings.
Flat(doc) == \A path \in DOMAIN doc : IsStrictPrefix(<<"annotations">>, path) => Len(path) = 2

\* The patches so far can be applied, change nothing of the original but its
\* records, and Annotate sees from it and them whether there are annotations
\* by now.
Leads(doc, patch, now) ==
    /\ Succeeds(doc, patch, now)
    /\ IsDocument(now)
    /\ Has(now, <<"annotations">>) => now[<<"annotations">>] = Braces
    /\ Flat(now)
    /\ Keeps(doc, now, RecordPaths)
    /\ NoAnnotations(now) <=> NoAnnotations(doc) /\ ~AnnotationsAdded(patch)

\* There is nothing below an annotation.
LEMMA NoteIsLast ==
    ASSUME NEW doc, IsDocument(doc), Flat(doc), NEW key \in Keys
    PROVE  \A q \in DOMAIN doc : ~IsStrictPrefix(Note(key), q)
<1>1. SUFFICES ASSUME NEW q \in DOMAIN doc, IsStrictPrefix(Note(key), q)
               PROVE  FALSE
  OBVIOUS
<1>. DEFINE path == Note(key)
            root == <<"annotations">>
<1>2. /\ path \in Seq(Keys) /\ Len(path) = 2 /\ path[1] = "annotations"
      /\ root \in Seq(Keys) /\ Len(root) = 1 /\ root[1] = "annotations"
  BY NoteOf, RootOf
<1>3. q \in Seq(Keys) /\ Len(q) \in Nat
  BY LenProperties DEF IsDocument
<1>4. IsPrefix(path, q) /\ path # q
  BY <1>1 DEF IsStrictPrefix
<1>. HIDE DEF path, root
<1>5. Len(path) <= Len(q) /\ \A i \in 1..Len(path) : path[i] = q[i]
  BY <1>2, <1>3, <1>4, PrefixOf
<1>6. IsPrefix(root, q)
  <2>1. Len(root) <= Len(q) /\ \A i \in 1..Len(root) : root[i] = q[i]
    BY <1>2, <1>3, <1>5
  <2>. QED  BY <1>2, <1>3, <2>1, PrefixOf
<1>7. root # q
  BY <1>2, <1>3, <1>5
<1>8. Len(q) = 2
  BY <1>6, <1>7 DEF Flat, IsStrictPrefix, root
<1>9. path = q
  BY <1>2, <1>3, <1>5, <1>8, SeqEqual
<1>. QED  BY <1>4, <1>9

LEMMA LeadsNowhere ==
    ASSUME NEW doc, WellFormed(doc)
    PROVE  Leads(doc, <<>>, doc)
<1>1. IsPatch(<<>>) /\ DOMAIN <<>> = {}
  BY EmptyPatch
<1>2. ~AnnotationsAdded(<<>>)
  BY <1>1 DEF AnnotationsAdded
<1>. QED  BY <1>1, <1>2, PatchedByNothing DEF Leads, Succeeds, WellFormed, Flat, Keeps

LEMMA AddedRoot ==
    ASSUME NEW patch, IsPatch(patch), NEW path, NEW v
    PROVE  AnnotationsAdded(Append(patch, Add(path, v))) <=>
             AnnotationsAdded(patch) \/ path = <<"annotations">>
<1>. DEFINE longer == Append(patch, Add(path, v))
            n == Len(patch)
<1>1. /\ n \in Nat /\ DOMAIN patch = 1..n /\ DOMAIN longer = 1..n + 1
      /\ \A i \in 1..n : longer[i] = patch[i]
      /\ longer[n + 1] = Add(path, v)
  BY LongerPatch
<1>2. Add(path, v).path = path
  BY DEF Add
<1>. HIDE DEF longer, n
<1>3. \A i \in 1..n + 1 : i \in 1..n \/ i = n + 1
  BY <1>1
<1>4. \A i \in 1..n : i \in 1..n + 1
  BY <1>1
<1>5. n + 1 \in 1..n + 1
  BY <1>1
<1>6. AnnotationsAdded(longer) <=> AnnotationsAdded(patch) \/ path = <<"annotations">>
  BY <1>1, <1>2, <1>3, <1>4, <1>5 DEF AnnotationsAdded
<1>. QED  BY <1>6 DEF longer

\* One more operation, that replaces nothing, or a record.
LEMMA LeadsOn ==
    ASSUME NEW doc, NEW patch, NEW now, Leads(doc, patch, now),
           NEW path \in Seq(Keys), path # <<>>, NEW v, IsDocument(v),
           Has(now, Front(path)), \A q \in DOMAIN now : ~IsStrictPrefix(path, q),
           Free(now, path, v) \/ path \in RecordPaths
    PROVE  /\ Succeeds(doc, Append(patch, Add(path, v)), Added(now, Add(path, v)))
           /\ IsDocument(Added(now, Add(path, v)))
           /\ Keeps(doc, Added(now, Add(path, v)), RecordPaths)
           /\ Obtains(now, Added(now, Add(path, v)), New(path, v), {path})
           /\ Free(now, path, v) => Gains(now, Added(now, Add(path, v)), New(path, v))
<1>. DEFINE next == Added(now, Add(path, v))
<1>1. /\ IsPatch(patch) /\ Patched(doc, patch) = [ok |-> TRUE, doc |-> now]
      /\ IsDocument(now) /\ Keeps(doc, now, RecordPaths)
  BY DEF Leads, Succeeds
<1>2. IsPatch(Append(patch, Add(path, v)))
  BY <1>1, LongerPatch
<1>3. Patched(doc, Append(patch, Add(path, v))) = [ok |-> TRUE, doc |-> next]
  BY <1>1, PatchedOnce
<1>4. IsDocument(next)
  BY <1>1, AddedIsDocument
<1>5. Free(now, path, v) => Gains(now, next, New(path, v))
  BY <1>1, AddedExtends
<1>6. Obtains(now, next, New(path, v), {path})
  BY <1>1, AddedReplaces
<1>7. Keeps(doc, next, RecordPaths)
  <2>. HIDE DEF next
  <2>1. CASE Free(now, path, v)
    BY <1>1, <1>5, <2>1 DEF Gains, Extends, Keeps
  <2>2. CASE path \in RecordPaths
    BY <1>1, <1>6, <2>2 DEF Obtains, Keeps
  <2>. QED  BY <2>1, <2>2
<1>. QED  BY <1>2, <1>3, <1>4, <1>5, <1>6, <1>7 DEF Succeeds

\* Outside of the annotations.
LEMMA LeadsElsewhere ==
    ASSUME NEW doc, NEW patch, NEW now, Leads(doc, patch, now),
           NEW path \in Seq(Keys), path # <<>>, path[1] # "annotations",
           NEW v, IsDocument(v), Has(now, Front(path)), ~Has(now, path)
    PROVE  \E next :
              /\ Leads(doc, Append(patch, Add(path, v)), next)
              /\ Gains(now, next, New(path, v))
              /\ Brings(path, v, next)
<1>. DEFINE next == Added(now, Add(path, v))
            longer == Append(patch, Add(path, v))
<1>1. \A q \in DOMAIN now : ~IsPrefix(path, q)
  BY NothingBelow DEF Leads
<1>2. /\ Succeeds(doc, longer, next)
      /\ IsDocument(next) /\ Keeps(doc, next, RecordPaths)
      /\ Gains(now, next, New(path, v))
  <2>1. Free(now, path, v)
    BY <1>1 DEF IsStrictPrefix, Free
  <2>. QED  BY <2>1, LeadsOn DEF Free
<1>3. Brings(path, v, next)
  BY AddedBrings DEF Leads
<1>4. AnnotationsAdded(longer) <=> AnnotationsAdded(patch)
  <2>1. path # <<"annotations">>
    BY RootOf
  <2>. QED  BY <2>1, AddedRoot DEF Leads, Succeeds
\* What is new has another beginning.
<1>5. \A q \in New(path, v) : ~IsPrefix(<<"annotations">>, q)
  <2>. TAKE q \in New(path, v)
  <2>1. PICK r \in DOMAIN v : q = path \o r
    BY DEF New
  <2>2. r \in Seq(Keys)
    BY DEF IsDocument
  <2>3. Len(path) \in Nat \ {0}
    BY EmptySeq
  <2>. DEFINE both == path \o r
  <2>4. both \in Seq(Keys) /\ Len(both) = Len(path) + Len(r) /\ both[1] = path[1]
    <3>1. Len(r) \in Nat /\ 1 \in 1..Len(path) + Len(r) /\ 1 <= Len(path)
      BY <2>2, <2>3, LenProperties
    <3>. QED  BY <2>2, <3>1, ConcatProperties
  <2>5. both # <<>>
    <3>1. Len(r) \in Nat
      BY <2>2, LenProperties
    <3>. HIDE DEF both
    <3>. QED  BY <2>3, <2>4, <3>1, EmptySeq
  <2>. HIDE DEF both
  <2>6. ~IsPrefix(<<"annotations">>, both)
    BY <2>4, <2>5, NotBelow
  <2>. QED  BY <2>1, <2>6 DEF both
<1>. HIDE DEF next, longer
<1>6. NoAnnotations(next) <=> NoAnnotations(now)
  BY <1>2, <1>5 DEF NoAnnotations, IsStrictPrefix, Gains
<1>7. Has(next, <<"annotations">>) => next[<<"annotations">>] = Braces
  <2>1. ~ (<<"annotations">> \in New(path, v))
    <3>1. IsPrefix(<<"annotations">>, <<"annotations">>)
      BY RootOf DEF IsPrefix
    <3>. QED  BY <1>5, <3>1
  <2>. QED  BY <1>2, <2>1 DEF Leads, Gains, Extends, Has
<1>8. Flat(next)
  BY <1>2, <1>5 DEF Leads, Flat, IsStrictPrefix, Gains
<1>9. Leads(doc, longer, next)
  BY <1>2, <1>4, <1>6, <1>7, <1>8 DEF Leads
<1>. QED  BY <1>2, <1>3, <1>9 DEF longer

\* Annotate, with the map where it is missing; records may be there already.
LEMMA LeadsToNote ==
    ASSUME NEW doc, NEW patch, NEW now, Leads(doc, patch, now),
           NEW key \in Keys, ~Has(now, Note(key)) \/ Note(key) \in RecordPaths, NEW v
    PROVE  \E next :
              /\ Leads(doc, Annotate(doc, patch, key, v), next)
              /\ Obtains(now, next, {<<"annotations">>, Note(key)}, {Note(key)})
              /\ next[Note(key)] = v
<1>. DEFINE root == <<"annotations">>
            whole == Object([k \in {key} |-> v])
            longer == Annotate(doc, patch, key, v)
<1>1. IsDocument(now)
  BY DEF Leads
<1>2. \A q \in DOMAIN now : ~IsStrictPrefix(Note(key), q)
  BY <1>1, NoteIsLast DEF Leads
<1>3. IsStrictPrefix(root, Note(key))
  BY NoteIsBelow
<1>4. CASE NoAnnotations(now)
  <2>. DEFINE next == Added(now, Add(root, whole))
  <2>1. longer = Append(patch, Add(root, whole))
    BY <1>4 DEF Annotate, Leads
  <2>2. /\ IsDocument(whole) /\ DOMAIN whole = {<<>>, <<key>>}
        /\ whole[<<>>] = Braces /\ whole[<<key>>] = v
    <3>. DEFINE members == [k \in {key} |-> v]
    <3>1. DOMAIN members = {key} /\ members[key] = v
      OBVIOUS
    <3>. HIDE DEF members
    <3>2. DOMAIN members \subseteq Keys
      BY <3>1
    <3>3. /\ IsDocument(Object(members))
          /\ DOMAIN Object(members) = {<<>>} \cup {<<k>> : k \in DOMAIN members}
          /\ Object(members)[<<>>] = Braces
          /\ \A k \in DOMAIN members : Object(members)[<<k>>] = members[k]
      BY <3>2, ObjectIsDocument
    <3>. QED  BY <3>1, <3>3 DEF members
  <2>. HIDE DEF whole
  <2>3. /\ root \in Seq(Keys) /\ root # <<>> /\ Has(now, Front(root))
        /\ root \o <<>> = root
    BY <1>1, RootOf, ConcatEmptySeq DEF IsDocument, Has
  <2>4. \A q \in DOMAIN now : ~IsStrictPrefix(root, q)
    BY <1>4 DEF NoAnnotations
  <2>5. Free(now, root, whole)
    BY <2>2, <2>4 DEF Leads, Free
  <2>6. /\ Succeeds(doc, longer, next)
        /\ IsDocument(next) /\ Keeps(doc, next, RecordPaths)
        /\ Gains(now, next, New(root, whole))
    BY <2>1, <2>2, <2>3, <2>4, <2>5, LeadsOn
  <2>7. \A r \in DOMAIN whole : next[root \o r] = whole[r]
    <3>1. Brings(root, whole, next)
      BY <1>1, <2>2, <2>3, AddedBrings
    <3>. QED  BY <3>1 DEF Brings
  <2>8. New(root, whole) = {root, Note(key)}
    BY <2>2, <2>3, NoteOf DEF New
  <2>9. next[root] = Braces /\ next[Note(key)] = v
    BY <2>2, <2>3, <2>7, NoteOf
  <2>10. AnnotationsAdded(longer)
    BY <2>1, AddedRoot DEF Leads, Succeeds
  <2>. HIDE DEF next, longer, root
  <2>11. ~NoAnnotations(next)
    BY <1>3, <2>6, <2>8 DEF NoAnnotations, Gains, root
  <2>12. Flat(next)
    <3>1. ~IsStrictPrefix(root, root) /\ Len(Note(key)) = 2
      BY NoteOf DEF IsStrictPrefix
    <3>. QED  BY <2>6, <2>8, <3>1 DEF Leads, Flat, Gains, root
  <2>13. Leads(doc, longer, next)
    BY <2>6, <2>9, <2>10, <2>11, <2>12 DEF Leads, root
  <2>14. Obtains(now, next, {root, Note(key)}, {Note(key)})
    BY <2>6, <2>8 DEF Gains, Extends, Obtains, Keeps
  <2>. QED  BY <2>9, <2>13, <2>14 DEF longer, root
<1>5. CASE ~NoAnnotations(now)
  <2>. DEFINE next == Added(now, Add(Note(key), Scalar(v)))
  <2>1. longer = Append(patch, Add(Note(key), Scalar(v)))
    BY <1>5 DEF Annotate, Leads, Note
  <2>2. IsDocument(Scalar(v)) /\ DOMAIN Scalar(v) = {<<>>} /\ Scalar(v)[<<>>] = v
    BY ScalarIsDocument
  <2>3. /\ Note(key) \in Seq(Keys) /\ Note(key) # <<>> /\ Has(now, Front(Note(key)))
        /\ Note(key) \o <<>> = Note(key)
    BY <1>1, <1>5, NoteOf, ConcatEmptySeq, AnnotationsBelow
  <2>4. Free(now, Note(key), Scalar(v)) \/ Note(key) \in RecordPaths
    BY <1>2 DEF Free
  <2>5. /\ Succeeds(doc, longer, next)
        /\ IsDocument(next) /\ Keeps(doc, next, RecordPaths)
        /\ Obtains(now, next, New(Note(key), Scalar(v)), {Note(key)})
    BY <1>2, <2>1, <2>2, <2>3, <2>4, LeadsOn
  <2>6. next[Note(key)] = v
    <3>1. Brings(Note(key), Scalar(v), next)
      BY <1>1, <2>2, <2>3, AddedBrings
    <3>. QED  BY <2>2, <2>3, <3>1 DEF Brings
  <2>7. New(Note(key), Scalar(v)) = {Note(key)}
    BY <2>2, <2>3 DEF New
  <2>8. Has(now, root)
    BY <2>3, NoteOf
  <2>9. AnnotationsAdded(longer) <=> AnnotationsAdded(patch)
    <3>1. Note(key) # root
      BY NoteOf, RootOf
    <3>. QED  BY <2>1, <3>1, AddedRoot DEF Leads, Succeeds
  <2>. HIDE DEF next, longer, root
  <2>10. ~NoAnnotations(next)
    BY <1>5, <2>5 DEF NoAnnotations, Obtains
  <2>11. next[root] = Braces
    <3>1. Note(key) # root
      BY NoteOf, RootOf DEF root
    <3>. QED  BY <2>5, <2>8, <3>1 DEF Leads, Obtains, Keeps, Has, root
  <2>12. Flat(next)
    <3>1. Len(Note(key)) = 2
      BY NoteOf
    <3>. QED  BY <2>5, <2>7, <3>1 DEF Leads, Flat, Obtains
  <2>13. Leads(doc, longer, next)
    BY <1>5, <2>5, <2>9, <2>10, <2>11, <2>12 DEF Leads, root
  <2>14. Obtains(now, next, {root, Note(key)}, {Note(key)})
    BY <2>5, <2>7, <2>8 DEF Has, Obtains
  <2>. QED  BY <2>6, <2>13, <2>14 DEF longer, root
<1>. QED  BY <1>4, <1>5

----------------------------------------------------------------------------
(* What the features lead to                                               *)

LEMMA RecordsDiffer ==
    /\ \A f \in Features : Record(f) # <<"annotations">> /\ Record(f) # Seccomp
    /\ \A f, g \in Features : Record(f) = Record(g) => f = g
<1>1. \A f \in Features : Internal[f] \in Keys /\ Record(f)[2] = Internal[f] /\ Len(Record(f)) = 2
  BY Names, NoteOf DEF Record
<1>2. Len(<<"annotations">>) = 1 /\ Seccomp[2] = "seccomp.security.alpha.kubernetes.io/pod"
  BY RootOf, Records
<1>3. \A f \in Features : Internal[f] # Seccomp[2]
  BY Records DEF Features
<1>4. \A f, g \in Features : Internal[f] = Internal[g] => f = g
  BY Records DEF Features
<1>. QED  BY <1>1, <1>2, <1>3, <1>4

LEMMA SettledNoUser ==
    ASSUME NEW doc, NEW more, DOMAIN doc \subseteq DOMAIN more, ~NoUser(doc)
    PROVE  ~NoUser(more)
BY DEF NoUser, Has

\* What a feature and its record are about.
About(f) ==
    {Record(f)} \cup (CASE f = "seccompProfile" -> {Seccomp}
                       [] f = "podSecurityContext" -> {RunAsUser, RunAsGroup}
                       [] OTHER -> {Automount})

LEMMA AboutIs ==
    /\ About("seccompProfile") = {Record("seccompProfile"), Seccomp}
    /\ About("podSecurityContext") = {Record("podSecurityContext"), RunAsUser, RunAsGroup}
    /\ About("automountServiceAccountToken") =
         {Record("automountServiceAccountToken"), Automount}
BY DEF About

\* Nothing of that has changed.
Same(f, now, next) ==
    \A path \in About(f) : /\ Has(next, path) <=> Has(now, path)
                           /\ Has(now, path) => next[path] = now[path]

LEMMA ObtainsSame ==
    ASSUME NEW now, NEW next, NEW paths, NEW but, Obtains(now, next, paths, but),
           NEW f, \A path \in About(f) : path \notin paths /\ path \notin but
    PROVE  Same(f, now, next)
BY DEF Obtains, Keeps, Same, Has

LEMMA GainsSame ==
    ASSUME NEW now, NEW next, NEW paths, Gains(now, next, paths),
           NEW f, \A path \in About(f) : path \notin paths
    PROVE  Same(f, now, next)
BY DEF Gains, Extends, Same, Has

LEMMA SameFurther ==
    ASSUME NEW f, NEW doc, NEW now, NEW next, Same(f, doc, now), Same(f, now, next)
    PROVE  Same(f, doc, next)
BY DEF Same

LEMMA ExplicitIs ==
    ASSUME NEW doc
    PROVE  /\ Explicit("seccompProfile", doc) <=> Has(doc, Seccomp)
           /\ Explicit("podSecurityContext", doc) <=> ~NoUser(doc)
           /\ Explicit("automountServiceAccountToken", doc) <=> Has(doc, Automount)
BY DEF Explicit

LEMMA SameExplicit ==
    ASSUME NEW f \in Features, NEW now, NEW next, Same(f, now, next)
    PROVE  Explicit(f, next) <=> Explicit(f, now)
<1>1. f \in {"seccompProfile", "podSecurityContext", "automountServiceAccountToken"}
  BY DEF Features
<1>2. CASE f = "seccompProfile"
  BY <1>2, AboutIs, ExplicitIs DEF Same
<1>3. CASE f = "podSecurityContext"
  BY <1>3, AboutIs, ExplicitIs DEF Same, NoUser
<1>4. CASE f = "automountServiceAccountToken"
  BY <1>4, AboutIs, ExplicitIs DEF Same
<1>. QED  BY <1>1, <1>2, <1>3, <1>4

LEMMA SameIsRight ==
    ASSUME NEW f \in Features, NEW now, NEW next, Same(f, now, next), NEW setting
    PROVE  RecordedRight(f, now, next, setting)
<1>1. Record(f) \in About(f)
  BY DEF About
<1>. QED  BY <1>1, SameExplicit DEF RecordedRight, Same

\* What is recorded stays right if nothing happens before or after it.
LEMMA RightThenSame ==
    ASSUME NEW f \in Features, NEW doc, NEW now, NEW next, NEW setting,
           RecordedRight(f, doc, now, setting), Same(f, now, next)
    PROVE  RecordedRight(f, doc, next, setting)
<1>1. Record(f) \in About(f) /\ (f = "seccompProfile" => Seccomp \in About(f))
  BY AboutIs DEF About
<1>2. Explicit(f, next) <=> Explicit(f, now)
  BY SameExplicit
<1>3. f = "seccompProfile" /\ Explicit(f, now) => Has(now, Seccomp)
  BY ExplicitIs
<1>. QED  BY <1>1, <1>2, <1>3 DEF RecordedRight, Same

LEMMA SameThenRight ==
    ASSUME NEW f \in Features, NEW doc, NEW now, NEW next, NEW setting,
           Same(f, doc, now), RecordedRight(f, now, next, setting)
    PROVE  RecordedRight(f, doc, next, setting)
<1>1. Record(f) \in About(f)
  BY DEF About
<1>2. Explicit(f, now) <=> Explicit(f, doc)
  BY SameExplicit
<1>. QED  BY <1>1, <1>2 DEF RecordedRight, Same

LEMMA LeadsToRecord ==
    ASSUME NEW doc, NEW patch, NEW now, Leads(doc, patch, now),
           NEW f \in Features, NEW setting
    PROVE  \E next :
              /\ Leads(doc, Annotate(doc, patch, Internal[f], setting), next)
              /\ Obtains(now, next, {<<"annotations">>, Record(f)}, {Record(f)})
              /\ next[Record(f)] = setting
<1>. DEFINE key == Internal[f]
<1>1. key \in Keys /\ Record(f) = Note(key) /\ Note(key) \in RecordPaths
  BY Names DEF RecordPaths, Record
<1>. HIDE DEF key
<1>2. \E next :
         /\ Leads(doc, Annotate(doc, patch, key, setting), next)
         /\ Obtains(now, next, {<<"annotations">>, Note(key)}, {Note(key)})
         /\ next[Note(key)] = setting
  BY <1>1, LeadsToNote
<1>. QED  BY <1>1, <1>2 DEF key

\* What is new begins with one of these.
Within(doc, more, roots) ==
    \A path \in DOMAIN more : path \in DOMAIN doc \/ path[1] \in roots

LEMMA FeaturesAre ==
    /\ "seccompProfile" \in Features /\ "podSecurityContext" \in Features
    /\ "automountServiceAccountToken" \in Features
    /\ \A f \in Features : f \in {"seccompProfile", "podSecurityContext",
                                  "automountServiceAccountToken"}
BY DEF Features

LEMMA ContextPaths ==
    /\ Context \in Seq(Keys) /\ Context # <<>> /\ Context[1] = "securityContext"
    /\ Len(Context) = 1 /\ Front(Context) = <<>>
    /\ \A path \in {RunAsUser, RunAsGroup} :
          /\ path \in Seq(Keys) /\ path # <<>> /\ path[1] = "securityContext"
          /\ Len(path) = 2 /\ Front(path) = Context
    /\ Append(Context, "runAsUser") = RunAsUser
    /\ Append(Context, "runAsGroup") = RunAsGroup
    /\ RunAsUser # RunAsGroup
<1>1. "securityContext" \in Keys /\ "runAsUser" \in Keys /\ "runAsGroup" \in Keys
  BY Names
<1>2. /\ Context \in Seq(Keys) /\ Context # <<>> /\ Context[1] = "securityContext"
      /\ Len(Context) = 1 /\ Front(Context) = <<>>
  BY <1>1, PathOfOne, Zenon DEF Context
<1>3. \A path \in {RunAsUser, RunAsGroup} :
          /\ path \in Seq(Keys) /\ path # <<>> /\ path[1] = "securityContext"
          /\ Len(path) = 2 /\ Front(path) = Context
  <2>1. /\ RunAsUser \in Seq(Keys) /\ RunAsUser # <<>>
        /\ RunAsUser[1] = "securityContext" /\ Len(RunAsUser) = 2 /\ Front(RunAsUser) = Context
    BY <1>1, PathOfTwo, Zenon DEF RunAsUser, Context
  <2>2. /\ RunAsGroup \in Seq(Keys) /\ RunAsGroup # <<>>
        /\ RunAsGroup[1] = "securityContext" /\ Len(RunAsGroup) = 2 /\ Front(RunAsGroup) = Context
    BY <1>1, PathOfTwo, Zenon DEF RunAsGroup, Context
  <2>. QED  BY <2>1, <2>2
<1>4. RunAsUser[2] = "runAsUser" /\ RunAsGroup[2] = "runAsGroup"
  BY <1>1, PathOfTwo, Zenon DEF RunAsUser, RunAsGroup
<1>5. /\ Context \o <<"runAsUser">> = RunAsUser
      /\ Context \o <<"runAsGroup">> = RunAsGroup
  BY <1>1, PathOfTwo, Zenon DEF RunAsUser, RunAsGroup, Context
<1>6. /\ Context \o <<"runAsUser">> = Append(Context, "runAsUser")
      /\ Context \o <<"runAsGroup">> = Append(Context, "runAsGroup")
  BY <1>1, <1>2, PathOfMore, Zenon
<1>7. RunAsUser # RunAsGroup
  BY <1>4
<1>. QED  BY <1>2, <1>3, <1>5, <1>6, <1>7

LEMMA AutomountPath ==
    /\ Automount \in Seq(Keys) /\ Automount # <<>> /\ Front(Automount) = <<>>
    /\ Automount[1] = "automountServiceAccountToken"
    /\ Automount # <<"annotations">> /\ \A f \in Features : Automount # Record(f)
<1>1. /\ Automount \in Seq(Keys) /\ Automount # <<>> /\ Front(Automount) = <<>>
      /\ Automount[1] = "automountServiceAccountToken"
  BY Names, PathOfOne, Zenon DEF Automount
<1>2. \A f \in Features : Record(f)[1] = "annotations"
  BY Names, NoteOf DEF Record
<1>. QED  BY <1>1, <1>2, RootOf

\* Features are about different things, and none of them about a whole map.
LEMMA AboutDiffer ==
    /\ \A f \in Features : <<"annotations">> \notin About(f) /\ Context \notin About(f)
    /\ \A f, g \in Features : f # g => About(f) \cap About(g) = {}
    /\ \A f \in Features : \A path \in About(f) : path[1] # "containers"
<1>1. /\ \A f \in Features : Record(f)[1] = "annotations" /\ Len(Record(f)) = 2
      /\ Seccomp[1] = "annotations" /\ Len(Seccomp) = 2
      /\ Len(<<"annotations">>) = 1 /\ Len(Context) = 1
      /\ RunAsUser[1] = "securityContext" /\ Len(RunAsUser) = 2
      /\ RunAsGroup[1] = "securityContext" /\ Len(RunAsGroup) = 2
      /\ Automount[1] = "automountServiceAccountToken"
      /\ Context[1] = "securityContext" /\ <<"annotations">>[1] = "annotations"
  BY Names, NoteOf, RootOf, ContextPaths, AutomountPath DEF Record
<1>2. \A f \in Features : \/ f = "seccompProfile" /\ About(f) = {Record(f), Seccomp}
                          \/ f = "podSecurityContext" /\ About(f) = {Record(f), RunAsUser, RunAsGroup}
                          \/ f = "automountServiceAccountToken" /\ About(f) = {Record(f), Automount}
  BY AboutIs, FeaturesAre
<1>3. ASSUME NEW f \in Features
      PROVE  /\ <<"annotations">> \notin About(f) /\ Context \notin About(f)
             /\ \A path \in About(f) : path[1] # "containers"
  BY <1>1, <1>2
<1>4. ASSUME NEW f \in Features, NEW g \in Features, f # g
      PROVE  About(f) \cap About(g) = {}
  BY <1>1, <1>2, <1>4, RecordsDiffer
<1>. QED  BY <1>3, <1>4

LEMMA SeccompLeads ==
    ASSUME NEW doc, NEW patch, Leads(doc, patch, doc), NEW setting
    PROVE  \E next :
              /\ Leads(doc, MutatePodSeccompProfile(doc, setting, patch), next)
              /\ RecordedRight("seccompProfile", doc, next, setting)
              /\ \A g \in Features \ {"seccompProfile"} : Same(g, doc, next)
              /\ Has(next, Seccomp)
              /\ Within(doc, next, {"annotations"})
<1>1. Leads(doc, patch, doc)
  OBVIOUS
<1>2. CASE Has(doc, Seccomp)
  <2>1. \A g : Same(g, doc, doc)
    BY DEF Same
  <2>2. RecordedRight("seccompProfile", doc, doc, setting)
    BY <2>1, FeaturesAre, SameIsRight
  <2>. QED  BY <1>1, <1>2, <2>1, <2>2 DEF MutatePodSeccompProfile, Within
<1>3. CASE ~Has(doc, Seccomp)
  <2>. DEFINE profile == Plain(setting.value)
              first == Annotate(doc, patch, Seccomp[2], profile)
              f == "seccompProfile"
  <2>1. PICK now : /\ Leads(doc, first, now)
                   /\ Obtains(doc, now, {<<"annotations">>, Seccomp}, {Seccomp})
                   /\ now[Seccomp] = profile
    <3>. DEFINE key == Seccomp[2]
    <3>1. key \in Keys /\ Seccomp = Note(key)
      BY Names
    <3>. HIDE DEF profile, key
    <3>2. ~Has(doc, Note(key))
      BY <1>3, <3>1
    <3>3. \E next : /\ Leads(doc, Annotate(doc, patch, key, profile), next)
                    /\ Obtains(doc, next, {<<"annotations">>, Note(key)}, {Note(key)})
                    /\ next[Note(key)] = profile
      BY <1>1, <3>1, <3>2, LeadsToNote
    <3>. QED  BY <3>1, <3>3 DEF key
  <2>2. profile.value = setting.value
    BY DEF Plain
  <2>. HIDE DEF profile, first
  <2>3. f \in Features
    BY DEF Features
  <2>4. PICK next : /\ Leads(doc, Annotate(doc, first, Internal[f], setting), next)
                    /\ Obtains(now, next, {<<"annotations">>, Record(f)}, {Record(f)})
                    /\ next[Record(f)] = setting
    <3>1. Leads(doc, first, now)
      BY <2>1
    <3>2. f \in Features
      BY <2>3
    <3>. HIDE DEF f
    <3>. QED  BY <3>1, <3>2, LeadsToRecord
  <2>5. MutatePodSeccompProfile(doc, setting, patch) =
          Annotate(doc, first, Internal[f], setting)
    BY <1>3 DEF MutatePodSeccompProfile, first, profile
  <2>6. Has(next, Seccomp) /\ next[Seccomp] = profile
    BY <2>1, <2>3, <2>4, RecordsDiffer DEF Obtains, Keeps, Has
  <2>7. RecordedRight(f, doc, next, setting)
    <3>1. Explicit(f, next) /\ ~Explicit(f, doc) /\ Has(next, Record(f))
      BY <1>3, <2>4, <2>6, ExplicitIs DEF Obtains, Has
    <3>. QED  BY <2>2, <2>4, <2>6, <3>1 DEF RecordedRight
  <2>8. ASSUME NEW g \in Features \ {f}
        PROVE  Same(g, doc, next)
    <3>1. \A path \in About(g) : path \notin {<<"annotations">>, Seccomp, Record(f)}
      <4>1. Seccomp \in About(f) /\ Record(f) \in About(f)
        BY AboutIs
      <4>. QED  BY <2>3, <4>1, AboutDiffer
    <3>2. Same(g, doc, now) /\ Same(g, now, next)
      BY <2>1, <2>4, <3>1, ObtainsSame
    <3>. QED  BY <3>2, SameFurther
  <2>9. Within(doc, next, {"annotations"})
    <3>1. /\ <<"annotations">>[1] = "annotations" /\ Seccomp[1] = "annotations"
          /\ Record(f)[1] = "annotations"
      BY RootOf, NoteOf, Names, <2>3 DEF Record
    <3>. QED  BY <2>1, <2>4, <3>1 DEF Within, Obtains
  <2>. QED  BY <2>4, <2>5, <2>6, <2>7, <2>8, <2>9
<1>. QED  BY <1>2, <1>3

\* A value where there is none yet, outside of the annotations.
LEMMA LeadsToScalar ==
    ASSUME NEW doc, NEW patch, NEW now, Leads(doc, patch, now),
           NEW path \in Seq(Keys), path # <<>>, path[1] # "annotations",
           Has(now, Front(path)), ~Has(now, path), NEW v
    PROVE  \E next :
              /\ Leads(doc, Append(patch, Add(path, Scalar(v))), next)
              /\ Gains(now, next, {path})
<1>. DEFINE value == Scalar(v)
<1>1. IsDocument(value) /\ DOMAIN value = {<<>>}
  BY ScalarIsDocument
<1>. HIDE DEF value
<1>2. PICK next : /\ Leads(doc, Append(patch, Add(path, value)), next)
                  /\ Gains(now, next, New(path, value))
  BY <1>1, LeadsElsewhere
<1>3. New(path, value) = {path}
  BY <1>1, ConcatEmptySeq DEF New
<1>. QED  BY <1>2, <1>3 DEF value

\* An object with members that are values.
WithMembers(path, members) == {path} \cup {Append(path, key) : key \in DOMAIN members}

LEMMA LeadsToObject ==
    ASSUME NEW doc, NEW patch, NEW now, Leads(doc, patch, now),
           NEW path \in Seq(Keys), path # <<>>, path[1] # "annotations",
           Has(now, Front(path)), ~Has(now, path),
           NEW members, DOMAIN members \subseteq Keys
    PROVE  \E next :
              /\ Leads(doc, Append(patch, Add(path, Object(members))), next)
              /\ Gains(now, next, WithMembers(path, members))
<1>. DEFINE value == Object(members)
<1>1. /\ IsDocument(value)
      /\ DOMAIN value = {<<>>} \cup {<<key>> : key \in DOMAIN members}
  BY ObjectIsDocument
<1>. HIDE DEF value
<1>2. PICK next : /\ Leads(doc, Append(patch, Add(path, value)), next)
                  /\ Gains(now, next, New(path, value))
  BY <1>1, LeadsElsewhere
<1>3. New(path, value) = WithMembers(path, members)
  <2>1. path \o <<>> = path
    BY ConcatEmptySeq
  <2>2. \A key \in DOMAIN members : path \o <<key>> = Append(path, key)
    BY PathOfMore
  <2>. QED  BY <1>1, <2>1, <2>2 DEF New, WithMembers
<1>. QED  BY <1>2, <1>3 DEF value

LEMMA AddUserLeads ==
    ASSUME NEW doc, NEW patch, NEW now, Leads(doc, patch, now), IsDocument(doc),
           Within(doc, now, {"annotations"}), NoUser(doc)
    PROVE  \E next :
              /\ Leads(doc, patch \o AddUser(doc), next)
              /\ Gains(now, next, {Context, RunAsUser, RunAsGroup})
<1>1. /\ \A path : Has(now, path) /\ path[1] # "annotations" => Has(doc, path)
      /\ \A path : Has(doc, path) => Has(now, path)
      /\ IsDocument(now) /\ IsPatch(patch)
  BY DEF Within, Leads, Succeeds, Keeps, Has
<1>2. ~Has(now, RunAsUser) /\ ~Has(now, RunAsGroup)
  BY <1>1, ContextPaths DEF NoUser
<1>3. CASE ~Has(doc, Context)
  <2>. DEFINE users == [key \in {"runAsUser", "runAsGroup"} |-> Nobody]
  <2>1. DOMAIN users = {"runAsUser", "runAsGroup"} /\ DOMAIN users \subseteq Keys
    BY Names
  <2>2. AddUser(doc) = <<Add(Context, Object(users))>>
    BY <1>3 DEF AddUser
  <2>. HIDE DEF users
  <2>3. patch \o AddUser(doc) = Append(patch, Add(Context, Object(users)))
    BY <1>1, <2>2, LongerBy
  <2>4. ~Has(now, Context) /\ Has(now, Front(Context))
    BY <1>1, <1>3, ContextPaths DEF IsDocument, Has
  <2>5. PICK next :
           /\ Leads(doc, Append(patch, Add(Context, Object(users))), next)
           /\ Gains(now, next, WithMembers(Context, users))
    BY <2>1, <2>4, ContextPaths, LeadsToObject
  <2>6. WithMembers(Context, users) = {Context, RunAsUser, RunAsGroup}
    BY <2>1, ContextPaths DEF WithMembers
  <2>. QED  BY <2>3, <2>5, <2>6
<1>4. CASE Has(doc, Context)
  <2>. DEFINE one == Append(patch, Add(RunAsUser, Scalar(Nobody)))
              two == Append(one, Add(RunAsGroup, Scalar(Nobody)))
  <2>1. patch \o AddUser(doc) = two
    BY <1>1, <1>4, LongerBy DEF AddUser
  <2>2. Has(now, Front(RunAsUser))
    BY <1>1, <1>4, ContextPaths
  <2>3. PICK half : Leads(doc, one, half) /\ Gains(now, half, {RunAsUser})
    BY <1>2, <2>2, ContextPaths, LeadsToScalar
  <2>4. Has(half, Front(RunAsGroup)) /\ ~Has(half, RunAsGroup)
    BY <1>1, <1>2, <1>4, <2>3, ContextPaths DEF Gains, Has
  <2>5. PICK next : Leads(doc, two, next) /\ Gains(half, next, {RunAsGroup})
    <3>. HIDE DEF one
    <3>. QED  BY <2>3, <2>4, ContextPaths, LeadsToScalar
  <2>6. Gains(now, next, {Context, RunAsUser, RunAsGroup})
    BY <1>1, <1>4, <2>3, <2>5 DEF Gains, Extends, Has
  <2>. HIDE DEF two
  <2>. QED  BY <2>1, <2>5, <2>6
<1>. QED  BY <1>3, <1>4

LEMMA UserLeads ==
    ASSUME NEW doc, NEW patch, NEW now, Leads(doc, patch, now),
           IsDocument(doc), Within(doc, now, {"annotations"}), NEW setting
    PROVE  \E next :
              /\ Leads(doc, SetUser(doc, setting, patch), next)
              /\ RecordedRight("podSecurityContext", now, next, setting)
              /\ \A g \in Features \ {"podSecurityContext"} : Same(g, now, next)
              /\ DOMAIN now \subseteq DOMAIN next
              /\ ~NoUser(next)
              /\ Within(doc, next, {"annotations", "securityContext"})
<1>. DEFINE f == "podSecurityContext"
<1>1. CASE ~NoUser(doc)
  <2>1. SetUser(doc, setting, patch) = patch
    BY <1>1 DEF SetUser
  <2>2. ~NoUser(now)
    BY <1>1, SettledNoUser DEF Leads, Keeps
  <2>3. \A g : Same(g, now, now)
    BY DEF Same
  <2>4. RecordedRight(f, now, now, setting)
    BY <2>3, FeaturesAre, SameIsRight
  <2>. QED  BY <2>1, <2>2, <2>3, <2>4 DEF Within
<1>2. CASE NoUser(doc)
  <2>. DEFINE longer == patch \o AddUser(doc)
  <2>1. PICK half : /\ Leads(doc, longer, half)
                    /\ Gains(now, half, {Context, RunAsUser, RunAsGroup})
    BY <1>2, AddUserLeads
  <2>2. SetUser(doc, setting, patch) = Annotate(doc, longer, Internal[f], setting)
    BY <1>2 DEF SetUser
  <2>. HIDE DEF longer
  <2>3. f \in Features
    BY DEF Features
  <2>4. PICK next : /\ Leads(doc, Annotate(doc, longer, Internal[f], setting), next)
                    /\ Obtains(half, next, {<<"annotations">>, Record(f)}, {Record(f)})
                    /\ next[Record(f)] = setting
    <3>1. Leads(doc, longer, half)
      BY <2>1
    <3>2. f \in Features
      BY <2>3
    <3>. HIDE DEF f
    <3>. QED  BY <3>1, <3>2, LeadsToRecord
  <2>5. NoUser(now)
    BY <1>2, ContextPaths DEF NoUser, Within, Has
  <2>6. DOMAIN now \subseteq DOMAIN next /\ ~NoUser(next)
    <3>1. ~NoUser(half)
      BY <2>1 DEF Gains, NoUser, Has
    <3>. QED  BY <2>1, <2>4, <3>1, SettledNoUser DEF Gains, Obtains
  <2>7. RecordedRight(f, now, next, setting)
    <3>1. Explicit(f, next) /\ ~Explicit(f, now) /\ Has(next, Record(f))
      BY <2>4, <2>5, <2>6, ExplicitIs DEF Obtains, Has
    <3>. QED  BY <2>4, <3>1 DEF RecordedRight
  <2>8. ASSUME NEW g \in Features \ {f}
        PROVE  Same(g, now, next)
    <3>1. \A path \in About(g) : path \notin {<<"annotations">>, Context, RunAsUser,
                                             RunAsGroup, Record(f)}
      <4>1. RunAsUser \in About(f) /\ RunAsGroup \in About(f) /\ Record(f) \in About(f)
        BY AboutIs
      <4>. QED  BY <2>3, <4>1, AboutDiffer
    <3>2. Same(g, now, half)
      BY <2>1, <3>1, GainsSame
    <3>3. Same(g, half, next)
      BY <2>4, <3>1, ObtainsSame
    <3>. QED  BY <3>2, <3>3, SameFurther
  <2>9. Within(doc, next, {"annotations", "securityContext"})
    <3>1. Record(f)[1] = "annotations"
      BY <2>3, Names, NoteOf DEF Record
    <3>. QED  BY <2>1, <2>4, <3>1, ContextPaths, RootOf DEF Within, Gains, Obtains
  <2>. QED  BY <2>2, <2>4, <2>6, <2>7, <2>8, <2>9
<1>. QED  BY <1>1, <1>2

Escalation(i) == Append(ContextOf(i), "allowPrivilegeEscalation")

LEMMA ContainerPaths ==
    ASSUME NEW i \in Keys
    PROVE  /\ Container(i) \in Seq(Keys) /\ Len(Container(i)) = 2
           /\ Container(i)[1] = "containers" /\ Container(i)[2] = i
           /\ ContextOf(i) \in Seq(Keys) /\ Len(ContextOf(i)) = 3
           /\ ContextOf(i)[1] = "containers" /\ ContextOf(i)[2] = i
           /\ ContextOf(i) # <<>> /\ Front(ContextOf(i)) = Container(i)
           /\ Escalation(i) \in Seq(Keys) /\ Len(Escalation(i)) = 4
           /\ Escalation(i)[1] = "containers" /\ Escalation(i)[2] = i
           /\ Escalation(i) # <<>> /\ Front(Escalation(i)) = ContextOf(i)
<1>1. /\ "containers" \in Keys /\ "securityContext" \in Keys
      /\ "allowPrivilegeEscalation" \in Keys
  BY Names
<1>2. /\ Container(i) \in Seq(Keys) /\ Len(Container(i)) = 2
      /\ Container(i)[1] = "containers" /\ Container(i)[2] = i
  BY <1>1, PathOfTwo, Zenon DEF Container
<1>3. /\ ContextOf(i) \in Seq(Keys) /\ Len(ContextOf(i)) = 3
      /\ ContextOf(i)[1] = "containers" /\ ContextOf(i)[2] = i
      /\ ContextOf(i) # <<>> /\ Front(ContextOf(i)) = Container(i)
  <2>. DEFINE path == Container(i)
              more == ContextOf(i)
  <2>1. path \in Seq(Keys) /\ Len(path) = 2 /\ path[1] = "containers" /\ path[2] = i
    BY <1>2
  <2>2. /\ more \in Seq(Keys) /\ Len(more) = Len(path) + 1
        /\ \A j \in 1..Len(path) : more[j] = path[j]
        /\ more # <<>> /\ Front(more) = path
    <3>. HIDE DEF path
    <3>. QED  BY <1>1, <2>1, PathOfMore DEF ContextOf, path
  <2>. HIDE DEF path, more
  <2>3. more[1] = path[1] /\ more[2] = path[2]
    BY <2>1, <2>2
  <2>. QED  BY <2>1, <2>2, <2>3 DEF path, more
<1>4. /\ Escalation(i) \in Seq(Keys) /\ Len(Escalation(i)) = 4
      /\ Escalation(i)[1] = "containers" /\ Escalation(i)[2] = i
      /\ Escalation(i) # <<>> /\ Front(Escalation(i)) = ContextOf(i)
  <2>. DEFINE path == ContextOf(i)
              more == Escalation(i)
  <2>1. path \in Seq(Keys) /\ Len(path) = 3 /\ path[1] = "containers" /\ path[2] = i
    BY <1>3
  <2>2. /\ more \in Seq(Keys) /\ Len(more) = Len(path) + 1
        /\ \A j \in 1..Len(path) : more[j] = path[j]
        /\ more # <<>> /\ Front(more) = path
    <3>. HIDE DEF path
    <3>. QED  BY <1>1, <2>1, PathOfMore DEF Escalation, path
  <2>. HIDE DEF path, more
  <2>3. more[1] = path[1] /\ more[2] = path[2]
    BY <2>1, <2>2
  <2>. QED  BY <2>1, <2>2, <2>3 DEF path, more
<1>. QED  BY <1>2, <1>3, <1>4

LEMMA ForbidLeads ==
    ASSUME NEW doc, NEW patch, NEW now, Leads(doc, patch, now),
           NEW i \in Keys, Has(doc, Container(i)),
           Has(now, ContextOf(i)) => Has(doc, ContextOf(i)),
           Has(now, Escalation(i)) => Has(doc, Escalation(i))
    PROVE  \E next :
              /\ Leads(doc, patch \o ForbidEscalation(doc, ContextOf(i)), next)
              /\ Gains(now, next, {ContextOf(i), Escalation(i)})
<1>. DEFINE longer == patch \o ForbidEscalation(doc, ContextOf(i))
<1>1. IsPatch(patch) /\ \A path : Has(doc, path) => Has(now, path)
  BY DEF Leads, Succeeds, Keeps, Has
<1>2. MayEscalate(doc, ContextOf(i)) <=> ~Has(doc, Escalation(i))
  BY DEF MayEscalate, Escalation
<1>3. CASE ~Has(doc, ContextOf(i))
  <2>. DEFINE members == [key \in {"allowPrivilegeEscalation"} |-> False]
  <2>1. DOMAIN members = {"allowPrivilegeEscalation"} /\ DOMAIN members \subseteq Keys
    BY Names
  <2>2. ForbidEscalation(doc, ContextOf(i)) = <<Add(ContextOf(i), Object(members))>>
    BY <1>3 DEF ForbidEscalation
  <2>. HIDE DEF members
  <2>3. longer = Append(patch, Add(ContextOf(i), Object(members)))
    BY <1>1, <2>2, LongerBy
  <2>4. Has(now, Front(ContextOf(i))) /\ ~Has(now, ContextOf(i))
    BY <1>1, <1>3, ContainerPaths
  <2>5. PICK next : /\ Leads(doc, Append(patch, Add(ContextOf(i), Object(members))), next)
                    /\ Gains(now, next, WithMembers(ContextOf(i), members))
    BY <2>1, <2>4, ContainerPaths, LeadsToObject
  <2>6. WithMembers(ContextOf(i), members) = {ContextOf(i), Escalation(i)}
    BY <2>1 DEF WithMembers, Escalation
  <2>. QED  BY <2>3, <2>5, <2>6
<1>4. CASE Has(doc, ContextOf(i)) /\ ~Has(doc, Escalation(i))
  <2>1. ForbidEscalation(doc, ContextOf(i)) = <<Add(Escalation(i), Scalar(False))>>
    BY <1>2, <1>4 DEF ForbidEscalation, Escalation
  <2>2. longer = Append(patch, Add(Escalation(i), Scalar(False)))
    BY <1>1, <2>1, LongerBy
  <2>3. Has(now, Front(Escalation(i))) /\ ~Has(now, Escalation(i))
    BY <1>1, <1>4, ContainerPaths
  <2>4. PICK next : /\ Leads(doc, Append(patch, Add(Escalation(i), Scalar(False))), next)
                    /\ Gains(now, next, {Escalation(i)})
    BY <2>3, ContainerPaths, LeadsToScalar
  <2>5. Gains(now, next, {ContextOf(i), Escalation(i)})
    BY <1>1, <1>4, <2>4 DEF Gains, Has
  <2>. QED  BY <2>2, <2>4, <2>5
<1>5. CASE Has(doc, ContextOf(i)) /\ Has(doc, Escalation(i))
  <2>1. ForbidEscalation(doc, ContextOf(i)) = <<>>
    BY <1>2, <1>5 DEF ForbidEscalation
  <2>2. longer = patch
    BY <1>1, <2>1, LongerBy
  <2>3. Gains(now, now, {ContextOf(i), Escalation(i)})
    BY <1>1, <1>5 DEF Gains, Extends, Has
  <2>. QED  BY <2>2, <2>3
<1>. QED  BY <1>3, <1>4, <1>5

\* The loop of ForbidAll, up to some container.
IsLoop(doc, patch, n, upTo) ==
    upTo = [k \in 0..n |->
              IF k = 0 THEN patch
              ELSE IF k \in Containers(doc)
              THEN upTo[k - 1] \o ForbidEscalation(doc, ContextOf(Indices[k]))
              ELSE upTo[k - 1]]

LEMMA LoopExists ==
    ASSUME NEW doc, NEW patch, NEW n \in Nat
    PROVE  \E upTo : IsLoop(doc, patch, n, upTo)
<1>. DEFINE T == {m \in Nat : \E upTo : IsLoop(doc, patch, m, upTo)}
            turn(before, k) == IF k \in Containers(doc)
                               THEN before \o ForbidEscalation(doc, ContextOf(Indices[k]))
                               ELSE before
<1>1. 0 \in T
  <2>. DEFINE start == [k \in 0..0 |-> patch]
  <2>1. IsLoop(doc, patch, 0, start)
    BY DEF IsLoop
  <2>. QED  BY <2>1
<1>2. ASSUME NEW m \in Nat, m \in T
      PROVE  m + 1 \in T
  <2>1. PICK upTo : IsLoop(doc, patch, m, upTo)
    BY <1>2
  <2>2. /\ upTo[0] = patch
        /\ \A k \in 1..m : upTo[k] = turn(upTo[k - 1], k)
    <3>1. upTo = [k \in 0..m |-> IF k = 0 THEN patch ELSE turn(upTo[k - 1], k)]
      BY <2>1 DEF IsLoop
    <3>. HIDE DEF turn
    <3>2. \A k \in 1..m : k \in 0..m /\ k # 0
      OBVIOUS
    <3>. QED  BY <3>1, <3>2
  <2>. HIDE DEF turn
  <2>. DEFINE further == [k \in 0..m + 1 |-> IF k <= m THEN upTo[k] ELSE turn(upTo[m], m + 1)]
  <2>3. \A k \in 0..m : further[k] = upTo[k]
    OBVIOUS
  <2>4. further[m + 1] = turn(upTo[m], m + 1)
    OBVIOUS
  <2>5. further = [k \in 0..m + 1 |-> further[k]]
    OBVIOUS
  <2>. HIDE DEF further
  <2>6. \A k \in 0..m + 1 : further[k] = IF k = 0 THEN patch ELSE turn(further[k - 1], k)
    <3>. TAKE k \in 0..m + 1
    <3>1. CASE k = 0
      BY <2>2, <2>3, <3>1
    <3>2. CASE k \in 1..m
      <4>1. k \in 0..m /\ k - 1 \in 0..m /\ k # 0
        BY <3>2
      <4>. QED  BY <2>2, <2>3, <3>2, <4>1
    <3>3. CASE k = m + 1
      <4>1. k - 1 = m /\ m \in 0..m /\ k # 0
        BY <3>3
      <4>. QED  BY <2>3, <2>4, <3>3, <4>1
    <3>. QED  BY <3>1, <3>2, <3>3
  <2>7. IsLoop(doc, patch, m + 1, further)
    BY <2>5, <2>6 DEF IsLoop, turn
  <2>. QED  BY <2>7
<1>. HIDE DEF T
<1>3. Nat \subseteq T
  BY <1>1, <1>2, Induction
<1>. QED  BY <1>3 DEF T

LEMMA ForbidAllIs ==
    ASSUME NEW doc, NEW patch
    PROVE  \E upTo : /\ IsLoop(doc, patch, Len(Indices), upTo)
                     /\ ForbidAll(doc, patch) = upTo[Len(Indices)]
<1>. DEFINE chosen == CHOOSE upTo : IsLoop(doc, patch, Len(Indices), upTo)
<1>1. Len(Indices) \in Nat
  BY IndicesAssumption, LenProperties
<1>2. IsLoop(doc, patch, Len(Indices), chosen)
  BY <1>1, LoopExists, Zenon
<1>3. ForbidAll(doc, patch) = chosen[Len(Indices)]
  BY DEF ForbidAll, IsLoop
<1>. QED  BY <1>2, <1>3

\* What the first turns of the loop have added to a document.
Turned(doc, now, next, k) ==
    /\ Extends(now, next)
    /\ \A path \in DOMAIN next :
          \/ path \in DOMAIN now
          \/ \E j \in 1..k : path \in {ContextOf(Indices[j]), Escalation(Indices[j])}
    /\ \A j \in 1..k : j \in Containers(doc) => Has(next, Escalation(Indices[j]))

LEMMA IndicesAre ==
    /\ Len(Indices) \in Nat /\ DOMAIN Indices = 1..Len(Indices)
    /\ \A k \in 1..Len(Indices) : Indices[k] \in Keys
    /\ \A j, k \in 1..Len(Indices) : Indices[j] = Indices[k] => j = k
<1>1. Len(Indices) \in Nat /\ DOMAIN Indices = 1..Len(Indices)
  BY IndicesAssumption, LenProperties
<1>. QED  BY <1>1, IndicesAssumption, ElementOfSeq

\* One more turn.
LEMMA TurnLeads ==
    ASSUME NEW doc, NEW patch, NEW now, NEW then, IsDocument(doc),
           Within(doc, now, {"annotations", "securityContext"}),
           Leads(doc, patch, then),
           NEW k \in Nat, k + 1 \in Containers(doc), Turned(doc, now, then, k)
    PROVE  \E next :
              /\ Leads(doc, patch \o ForbidEscalation(doc, ContextOf(Indices[k + 1])), next)
              /\ Turned(doc, now, next, k + 1)
<1>. DEFINE i == Indices[k + 1]
<1>1. k + 1 \in 1..Len(Indices) /\ i \in Keys /\ Has(doc, Container(i))
  BY IndicesAre DEF Containers
<1>2. \A j \in 1..k : Indices[j] \in Keys /\ Indices[j] # i
  <2>1. \A j \in 1..k : j \in 1..Len(Indices) /\ j # k + 1
    BY <1>1
  <2>. QED  BY <1>1, <2>1, IndicesAre
<1>. HIDE DEF i
<1>3. ASSUME NEW path \in {ContextOf(i), Escalation(i)}, Has(then, path)
      PROVE  Has(doc, path)
  <2>1. path[1] = "containers" /\ path[2] = i
    BY <1>1, ContainerPaths
  <2>2. \A j \in 1..k : path \notin {ContextOf(Indices[j]), Escalation(Indices[j])}
    BY <1>2, <2>1, ContainerPaths
  <2>3. path \in DOMAIN now
    BY <1>3, <2>2 DEF Turned, Has
  <2>. QED  BY <2>1, <2>3 DEF Within, Has
<1>4. PICK next : /\ Leads(doc, patch \o ForbidEscalation(doc, ContextOf(i)), next)
                  /\ Gains(then, next, {ContextOf(i), Escalation(i)})
  BY <1>1, <1>3, ForbidLeads
<1>6. Extends(now, next)
  BY <1>4 DEF Turned, Gains, Extends
<1>7. \A j \in 1..k + 1 : j \in 1..k \/ j = k + 1
  OBVIOUS
<1>8. \A path \in DOMAIN next :
         \/ path \in DOMAIN now
         \/ \E j \in 1..k + 1 : path \in {ContextOf(Indices[j]), Escalation(Indices[j])}
  <2>. TAKE path \in DOMAIN next
  <2>1. path \in DOMAIN then \/ path \in {ContextOf(i), Escalation(i)}
    BY <1>4 DEF Gains
  <2>2. CASE path \in DOMAIN then
    <3>1. \A j \in 1..k : j \in 1..k + 1
      OBVIOUS
    <3>. QED  BY <2>2, <3>1 DEF Turned
  <2>3. CASE path \in {ContextOf(i), Escalation(i)}
    <3>1. k + 1 \in 1..k + 1
      OBVIOUS
    <3>. QED  BY <2>3, <3>1 DEF i
  <2>. QED  BY <2>1, <2>2, <2>3
<1>9. \A j \in 1..k + 1 : j \in Containers(doc) => Has(next, Escalation(Indices[j]))
  <2>1. Has(next, Escalation(i))
    BY <1>4 DEF Gains, Has
  <2>2. \A path : Has(then, path) => Has(next, path)
    BY <1>4 DEF Gains, Has
  <2>. QED  BY <1>7, <2>1, <2>2 DEF Turned, i
<1>10. Turned(doc, now, next, k + 1)
  BY <1>6, <1>8, <1>9 DEF Turned
<1>. QED  BY <1>4, <1>10 DEF i

LEMMA ForbidAllLeads ==
    ASSUME NEW doc, NEW patch, NEW now, IsDocument(doc),
           Within(doc, now, {"annotations", "securityContext"}),
           Leads(doc, patch, now)
    PROVE  \E next :
              /\ Leads(doc, ForbidAll(doc, patch), next)
              /\ Turned(doc, now, next, Len(Indices))
<1>. DEFINE n == Len(Indices)
<1>1. n \in Nat
  BY IndicesAre
<1>2. PICK upTo : IsLoop(doc, patch, n, upTo) /\ ForbidAll(doc, patch) = upTo[n]
  BY ForbidAllIs
<1>. HIDE DEF n
<1>. DEFINE T == {k \in Nat : k <= n => \E next : /\ Leads(doc, upTo[k], next)
                                                 /\ Turned(doc, now, next, k)}
<1>3. 0 \in T
  <2>1. upTo[0] = patch
    BY <1>1, <1>2 DEF IsLoop
  <2>2. Turned(doc, now, now, 0)
    BY DEF Turned, Extends
  <2>. QED  BY <2>1, <2>2
<1>4. ASSUME NEW k \in Nat, k \in T
      PROVE  k + 1 \in T
  <2>1. SUFFICES ASSUME k + 1 <= n
                 PROVE  \E next : /\ Leads(doc, upTo[k + 1], next)
                                  /\ Turned(doc, now, next, k + 1)
    OBVIOUS
  <2>2. PICK then : Leads(doc, upTo[k], then) /\ Turned(doc, now, then, k)
    BY <1>1, <1>4, <2>1
  <2>3. upTo[k + 1] = IF k + 1 \in Containers(doc)
                      THEN upTo[k] \o ForbidEscalation(doc, ContextOf(Indices[k + 1]))
                      ELSE upTo[k]
    <3>1. k + 1 \in 0..n /\ k + 1 # 0 /\ (k + 1) - 1 = k
      BY <1>1, <2>1
    <3>. QED  BY <1>2, <3>1 DEF IsLoop
  <2>4. CASE k + 1 \in Containers(doc)
    BY <2>2, <2>3, <2>4, TurnLeads
  <2>5. CASE k + 1 \notin Containers(doc)
    <3>1. \A j \in 1..k : j \in 1..k + 1
      OBVIOUS
    <3>2. \A j \in 1..k + 1 : j \in Containers(doc) => j \in 1..k
      BY <2>5
    <3>3. Turned(doc, now, then, k + 1)
      BY <2>2, <3>1, <3>2 DEF Turned
    <3>. QED  BY <2>2, <2>3, <2>5, <3>3
  <2>. QED  BY <2>4, <2>5
<1>. HIDE DEF T
<1>5. Nat \subseteq T
  BY <1>3, <1>4, Induction
<1>6. n \in T /\ n <= n
  BY <1>1, <1>5
<1>. QED  BY <1>2, <1>6 DEF T, n

LEMMA ContextIsAbove ==
    ASSUME NEW i \in Keys
    PROVE  ContextOf(i) \in Seq(Keys) /\ IsPrefix(ContextOf(i), Escalation(i))
<1>. DEFINE path == ContextOf(i)
            more == Escalation(i)
<1>1. path \in Seq(Keys) /\ Len(path) = 3
  BY ContainerPaths
<1>2. /\ more \in Seq(Keys) /\ Len(more) = Len(path) + 1
      /\ \A j \in 1..Len(path) : more[j] = path[j]
  <2>. HIDE DEF path
  <2>. QED  BY <1>1, Names, PathOfMore DEF Escalation, path
<1>. HIDE DEF path, more
<1>3. IsPrefix(path, more)
  BY <1>1, <1>2, PrefixOf
<1>. QED  BY <1>1, <1>3 DEF path, more

\* There is nothing to forbid.
LEMMA ForbidAllLeaves ==
    ASSUME NEW doc, IsDocument(doc), NEW patch, IsPatch(patch),
           \A k \in Containers(doc) : ~MayEscalate(doc, ContextOf(Indices[k]))
    PROVE  ForbidAll(doc, patch) = patch
<1>. DEFINE n == Len(Indices)
<1>1. n \in Nat
  BY IndicesAre
<1>2. PICK upTo : IsLoop(doc, patch, n, upTo) /\ ForbidAll(doc, patch) = upTo[n]
  BY ForbidAllIs
<1>. HIDE DEF n
<1>. DEFINE T == {k \in Nat : k <= n => upTo[k] = patch}
<1>3. 0 \in T
  BY <1>1, <1>2 DEF IsLoop
<1>4. ASSUME NEW k \in Nat, k \in T
      PROVE  k + 1 \in T
  <2>1. SUFFICES ASSUME k + 1 <= n
                 PROVE  upTo[k + 1] = patch
    OBVIOUS
  <2>2. upTo[k] = patch
    BY <1>1, <1>4, <2>1
  <2>3. upTo[k + 1] = IF k + 1 \in Containers(doc)
                      THEN upTo[k] \o ForbidEscalation(doc, ContextOf(Indices[k + 1]))
                      ELSE upTo[k]
    <3>1. k + 1 \in 0..n /\ k + 1 # 0 /\ (k + 1) - 1 = k
      BY <1>1, <2>1
    <3>. QED  BY <1>2, <3>1 DEF IsLoop
  <2>4. ASSUME k + 1 \in Containers(doc)
        PROVE  ForbidEscalation(doc, ContextOf(Indices[k + 1])) = <<>>
    <3>. DEFINE context == ContextOf(Indices[k + 1])
    <3>1. ~MayEscalate(doc, context)
      BY <2>4
    <3>2. Has(doc, context)
      <4>1. Indices[k + 1] \in Keys
        BY <2>4, IndicesAre DEF Containers
      <4>2. Has(doc, Escalation(Indices[k + 1]))
        BY <3>1 DEF MayEscalate, Escalation
      <4>3. /\ ContextOf(Indices[k + 1]) \in Seq(Keys)
            /\ IsPrefix(ContextOf(Indices[k + 1]), Escalation(Indices[k + 1]))
        BY <4>1, ContextIsAbove
      <4>. QED  BY <4>2, <4>3, NothingBelow DEF Has
    <3>. QED  BY <3>1, <3>2 DEF ForbidEscalation
  <2>5. patch \o <<>> = patch
    BY LongerBy
  <2>. QED  BY <2>2, <2>3, <2>4, <2>5
<1>. HIDE DEF T
<1>5. Nat \subseteq T
  BY <1>3, <1>4, Induction
<1>6. n \in T /\ n <= n
  BY <1>1, <1>5
<1>. QED  BY <1>2, <1>6 DEF T

\* All that patches add to begins with one of these.
Roots == {"annotations", "securityContext", "containers", "automountServiceAccountToken"}

\* A pod that the setting "nobody" finds nothing to add to.
Hardened(doc) ==
    /\ ~NoUser(doc)
    /\ \A k \in Containers(doc) : ~MayEscalate(doc, ContextOf(Indices[k]))

LEMMA TurnedIsHardened ==
    ASSUME NEW doc, NEW now, NEW next, Within(doc, now, {"annotations", "securityContext"}),
           ~NoUser(now), Turned(doc, now, next, Len(Indices))
    PROVE  /\ Hardened(next) /\ Extends(now, next) /\ Within(doc, next, Roots)
           /\ \A g \in Features : Same(g, now, next)
<1>1. \A j \in 1..Len(Indices) : Indices[j] \in Keys
  BY IndicesAre
<1>2. Extends(now, next) /\ ~NoUser(next)
  BY SettledNoUser DEF Turned, Extends
<1>3. \A k \in Containers(next) : Has(next, Escalation(Indices[k]))
  <2>. TAKE k \in Containers(next)
  <2>1. k \in 1..Len(Indices) /\ Indices[k] \in Keys /\ Has(next, Container(Indices[k]))
    BY IndicesAre DEF Containers
  <2>2. Len(Container(Indices[k])) = 2 /\ Container(Indices[k])[1] = "containers"
    BY <2>1, ContainerPaths
  <2>3. \A j \in 1..Len(Indices) :
           Len(ContextOf(Indices[j])) = 3 /\ Len(Escalation(Indices[j])) = 4
    BY <1>1, ContainerPaths
  <2>. DEFINE path == Container(Indices[k])
  <2>4. Has(now, path)
    <3>1. path \in DOMAIN next /\ Len(path) = 2
      BY <2>1, <2>2 DEF Has
    <3>. HIDE DEF path
    <3>2. \A j \in 1..Len(Indices) : path # ContextOf(Indices[j]) /\ path # Escalation(Indices[j])
      BY <2>3, <3>1, 2 # 3, 2 # 4, Zenon
    <3>. QED  BY <3>1, <3>2 DEF Turned, Has
  <2>5. Has(doc, Container(Indices[k]))
    BY <2>2, <2>4 DEF Within, Has
  <2>6. k \in Containers(doc)
    BY <2>1, <2>5, IndicesAre DEF Containers
  <2>. QED  BY <2>1, <2>6 DEF Turned
<1>4. Hardened(next)
  BY <1>2, <1>3 DEF Hardened, MayEscalate, Escalation
<1>5. Within(doc, next, Roots)
  <2>1. \A j \in 1..Len(Indices) : /\ ContextOf(Indices[j])[1] = "containers"
                                   /\ Escalation(Indices[j])[1] = "containers"
    BY <1>1, ContainerPaths
  <2>2. \A path \in DOMAIN next : path \in DOMAIN now \/ path[1] = "containers"
    BY <2>1 DEF Turned
  <2>. QED  BY <2>2 DEF Within, Roots
<1>6. ASSUME NEW g \in Features, NEW path \in About(g)
      PROVE  /\ Has(next, path) <=> Has(now, path)
             /\ Has(now, path) => next[path] = now[path]
  <2>1. \A j \in 1..Len(Indices) : /\ ContextOf(Indices[j])[1] = "containers"
                                   /\ Escalation(Indices[j])[1] = "containers"
    BY <1>1, ContainerPaths
  <2>2. path[1] # "containers"
    BY AboutDiffer
  <2>. QED  BY <2>1, <2>2 DEF Turned, Extends, Has
<1>. QED  BY <1>2, <1>4, <1>5, <1>6 DEF Same

LEMMA ContextLeads ==
    ASSUME NEW doc, NEW patch, NEW now, Leads(doc, patch, now),
           IsDocument(doc), Within(doc, now, {"annotations"}), NEW setting
    PROVE  \E next :
              /\ Leads(doc, MutatePodSecurityContext(doc, setting, patch), next)
              /\ RecordedRight("podSecurityContext", now, next, setting)
              /\ \A g \in Features \ {"podSecurityContext"} : Same(g, now, next)
              /\ DOMAIN now \subseteq DOMAIN next
              /\ Within(doc, next, Roots)
              /\ setting.value = "nobody" => Hardened(next)
<1>. DEFINE f == "podSecurityContext"
<1>1. CASE setting.value = "nobody"
  <2>. DEFINE longer == SetUser(doc, setting, patch)
  <2>1. PICK half : /\ Leads(doc, longer, half)
                    /\ RecordedRight(f, now, half, setting)
                    /\ \A g \in Features \ {f} : Same(g, now, half)
                    /\ DOMAIN now \subseteq DOMAIN half
                    /\ ~NoUser(half)
                    /\ Within(doc, half, {"annotations", "securityContext"})
    BY UserLeads
  <2>2. MutatePodSecurityContext(doc, setting, patch) = ForbidAll(doc, longer)
    BY <1>1 DEF MutatePodSecurityContext
  <2>. HIDE DEF longer
  <2>3. PICK next : /\ Leads(doc, ForbidAll(doc, longer), next)
                    /\ Turned(doc, half, next, Len(Indices))
    BY <2>1, ForbidAllLeads
  <2>4. /\ Hardened(next) /\ Extends(half, next) /\ Within(doc, next, Roots)
        /\ \A g \in Features : Same(g, half, next)
    BY <2>1, <2>3, TurnedIsHardened
  <2>5. DOMAIN now \subseteq DOMAIN next
    BY <2>1, <2>4 DEF Extends
  <2>6. RecordedRight(f, now, next, setting)
    BY <2>1, <2>4, FeaturesAre, RightThenSame
  <2>7. \A g \in Features \ {f} : Same(g, now, next)
    BY <2>1, <2>4, SameFurther
  <2>. QED  BY <2>2, <2>3, <2>4, <2>5, <2>6, <2>7
<1>2. CASE setting.value # "nobody"
  <2>1. MutatePodSecurityContext(doc, setting, patch) = patch
    BY <1>2 DEF MutatePodSecurityContext
  <2>2. Within(doc, now, Roots)
    BY DEF Within, Roots
  <2>3. \A g : Same(g, now, now)
    BY DEF Same
  <2>4. RecordedRight(f, now, now, setting)
    BY <2>3, FeaturesAre, SameIsRight
  <2>. QED  BY <1>2, <2>1, <2>2, <2>3, <2>4
<1>. QED  BY <1>1, <1>2

LEMMA ContextLeaves ==
    ASSUME NEW doc, IsDocument(doc), NEW patch, IsPatch(patch), NEW setting,
           setting.value = "nobody" => Hardened(doc)
    PROVE  MutatePodSecurityContext(doc, setting, patch) = patch
<1>1. CASE setting.value = "nobody"
  <2>1. SetUser(doc, setting, patch) = patch
    BY <1>1 DEF SetUser, Hardened
  <2>2. ForbidAll(doc, patch) = patch
    BY <1>1, ForbidAllLeaves DEF Hardened
  <2>. QED  BY <2>1, <2>2 DEF MutatePodSecurityContext
<1>2. CASE setting.value # "nobody"
  BY <1>2 DEF MutatePodSecurityContext
<1>. QED  BY <1>1, <1>2

LEMMA AutomountLeads ==
    ASSUME NEW object1, WellFormed(object1.doc), NEW setting
    PROVE  \E next :
              /\ Leads(object1.doc, MutateServiceAccountTokenMount(object1, setting, <<>>), next)
              /\ RecordedRight("automountServiceAccountToken", object1.doc, next, setting)
              /\ \A g \in Features \ {"automountServiceAccountToken"} :
                    Same(g, object1.doc, next)
              /\ Within(object1.doc, next, Roots)
              /\ TokenMountImplicit(object1, setting) => Has(next, Automount)
<1>. DEFINE doc == object1.doc
            f == "automountServiceAccountToken"
<1>1. Leads(doc, <<>>, doc) /\ IsDocument(doc)
  BY LeadsNowhere DEF WellFormed
<1>2. CASE ~TokenMountImplicit(object1, setting)
  <2>1. MutateServiceAccountTokenMount(object1, setting, <<>>) = <<>>
    BY <1>2 DEF MutateServiceAccountTokenMount
  <2>2. \A g : Same(g, doc, doc)
    BY DEF Same
  <2>3. RecordedRight(f, doc, doc, setting)
    BY <2>2, FeaturesAre, SameIsRight
  <2>. QED  BY <1>1, <1>2, <2>1, <2>2, <2>3 DEF Within
<1>3. CASE TokenMountImplicit(object1, setting)
  <2>. DEFINE one == Append(<<>>, Add(Automount, Scalar(False)))
  <2>1. ~Has(doc, Automount) /\ Has(doc, Front(Automount))
    BY <1>1, <1>3, AutomountPath DEF TokenMountImplicit, IsDocument, Has
  <2>2. MutateServiceAccountTokenMount(object1, setting, <<>>) =
          Annotate(doc, one, Internal[f], setting)
    BY <1>3 DEF MutateServiceAccountTokenMount
  <2>. HIDE DEF doc
  <2>3. PICK half : Leads(doc, one, half) /\ Gains(doc, half, {Automount})
    <3>. DEFINE patch == <<>>
    <3>1. Leads(doc, patch, doc)
      BY <1>1
    <3>. HIDE DEF patch
    <3>2. \E next : /\ Leads(doc, Append(patch, Add(Automount, Scalar(False))), next)
                    /\ Gains(doc, next, {Automount})
      BY <2>1, <3>1, AutomountPath, LeadsToScalar
    <3>. QED  BY <3>2 DEF patch
  <2>. HIDE DEF one
  <2>4. f \in Features
    BY DEF Features
  <2>5. PICK next : /\ Leads(doc, Annotate(doc, one, Internal[f], setting), next)
                    /\ Obtains(half, next, {<<"annotations">>, Record(f)}, {Record(f)})
                    /\ next[Record(f)] = setting
    <3>. HIDE DEF f
    <3>. QED  BY <2>3, <2>4, LeadsToRecord
  <2>6. Has(next, Automount)
    BY <2>3, <2>5 DEF Gains, Obtains, Keeps, Has
  <2>7. RecordedRight(f, doc, next, setting)
    <3>1. Explicit(f, next) /\ ~Explicit(f, doc) /\ Has(next, Record(f))
      BY <2>1, <2>5, <2>6, ExplicitIs DEF Obtains, Has
    <3>. QED  BY <2>5, <3>1 DEF RecordedRight
  <2>8. ASSUME NEW g \in Features \ {f}
        PROVE  Same(g, doc, next)
    <3>1. \A path \in About(g) : path \notin {<<"annotations">>, Automount, Record(f)}
      <4>1. Automount \in About(f) /\ Record(f) \in About(f)
        BY AboutIs
      <4>. QED  BY <2>4, <4>1, AboutDiffer
    <3>2. Same(g, doc, half)
      BY <2>3, <3>1, GainsSame
    <3>3. Same(g, half, next)
      BY <2>5, <3>1, ObtainsSame
    <3>. QED  BY <3>2, <3>3, SameFurther
  <2>9. Within(doc, next, Roots)
    <3>1. Record(f)[1] = "annotations" /\ <<"annotations">>[1] = "annotations"
      BY <2>4, Names, NoteOf, RootOf DEF Record
    <3>. QED  BY <2>3, <2>5, <3>1, AutomountPath DEF Within, Gains, Obtains, Roots
  <2>. QED  BY <2>2, <2>5, <2>6, <2>7, <2>8, <2>9 DEF doc
<1>. QED  BY <1>2, <1>3

----------------------------------------------------------------------------
(* What the setting of a feature leads to                                  *)

With(o, doc) == [o EXCEPT !.doc = doc]

LEMMA WithIs ==
    ASSUME NEW o, IsObject(o), NEW doc
    PROVE  /\ With(o, doc).doc = doc /\ With(o, doc).kind = o.kind
           /\ With(o, doc).name = o.name /\ With(o, doc).namespace = o.namespace
BY DEF IsObject, With

\* Meets, of any object.
Holds(f, o, setting) ==
    /\ ~Invalid(f, o, setting)
    /\ f = "podSecurityContext" /\ setting.value = "nobody" =>
         \A k \in Containers(o.doc) : ~MayEscalate(o.doc, ContextOf(Indices[k]))

LEMMA FeaturesDiffer ==
    /\ "seccompProfile" # "podSecurityContext"
    /\ "seccompProfile" # "automountServiceAccountToken"
    /\ "podSecurityContext" # "automountServiceAccountToken"
    /\ "nobody" # ""
OBVIOUS

LEMMA HoldsIs ==
    ASSUME NEW o, NEW setting
    PROVE  /\ Holds("seccompProfile", o, setting) <=>
                (setting.value # "" => Has(o.doc, Seccomp))
           /\ Holds("podSecurityContext", o, setting) <=>
                (setting.value = "nobody" => Hardened(o.doc))
           /\ Holds("automountServiceAccountToken", o, setting) <=>
                (setting.value # "" => ~TokenMountImplicit(o, setting))
<1>1. Holds("seccompProfile", o, setting) <=> (setting.value # "" => Has(o.doc, Seccomp))
  BY FeaturesDiffer, Zenon DEF Holds, Invalid
<1>2. Holds("podSecurityContext", o, setting) <=> (setting.value = "nobody" => Hardened(o.doc))
  BY FeaturesDiffer, Zenon DEF Holds, Invalid, Hardened
<1>3. Holds("automountServiceAccountToken", o, setting) <=>
        (setting.value # "" => ~TokenMountImplicit(o, setting))
  BY FeaturesDiffer, Zenon DEF Holds, Invalid
<1>. QED  BY <1>1, <1>2, <1>3

LEMMA MutateIs ==
    ASSUME NEW o, NEW setting, NEW patch
    PROVE  /\ Mutate("seccompProfile", o, setting, patch) =
                IF setting.value = "" THEN patch
                ELSE MutatePodSeccompProfile(o.doc, setting, patch)
           /\ Mutate("podSecurityContext", o, setting, patch) =
                IF setting.value = "" THEN patch
                ELSE MutatePodSecurityContext(o.doc, setting, patch)
           /\ Mutate("automountServiceAccountToken", o, setting, patch) =
                IF setting.value = "" THEN patch
                ELSE MutateServiceAccountTokenMount(o, setting, patch)
BY FeaturesDiffer DEF Mutate

LEMMA SeccompMutates ==
    ASSUME NEW o, IsObject(o), WellFormed(o.doc), NEW setting
    PROVE  /\ \E next :
                 /\ Leads(o.doc, Mutate("seccompProfile", o, setting, <<>>), next)
                 /\ RecordedRight("seccompProfile", o.doc, next, setting)
                 /\ \A g \in Features \ {"seccompProfile"} : Same(g, o.doc, next)
                 /\ Within(o.doc, next, {"annotations"})
                 /\ Holds("seccompProfile", With(o, next), setting)
           /\ Holds("seccompProfile", o, setting) =>
                 Mutate("seccompProfile", o, setting, <<>>) = <<>>
<1>1. Leads(o.doc, <<>>, o.doc)
  BY LeadsNowhere
<1>2. CASE setting.value = ""
  <2>1. Mutate("seccompProfile", o, setting, <<>>) = <<>>
    BY <1>2, MutateIs
  <2>2. Holds("seccompProfile", With(o, o.doc), setting)
    BY <1>2, HoldsIs
  <2>3. \A g : Same(g, o.doc, o.doc)
    BY DEF Same
  <2>4. RecordedRight("seccompProfile", o.doc, o.doc, setting)
    BY <2>3, FeaturesAre, SameIsRight
  <2>5. Within(o.doc, o.doc, {"annotations"})
    BY DEF Within
  <2>. QED  BY <1>1, <2>1, <2>2, <2>3, <2>4, <2>5
<1>3. CASE setting.value # ""
  <2>. DEFINE patch == <<>>
  <2>1. Mutate("seccompProfile", o, setting, patch) =
          MutatePodSeccompProfile(o.doc, setting, patch)
    BY <1>3, MutateIs
  <2>2. PICK next : /\ Leads(o.doc, MutatePodSeccompProfile(o.doc, setting, patch), next)
                    /\ RecordedRight("seccompProfile", o.doc, next, setting)
                    /\ \A g \in Features \ {"seccompProfile"} : Same(g, o.doc, next)
                    /\ Has(next, Seccomp)
                    /\ Within(o.doc, next, {"annotations"})
    <3>1. Leads(o.doc, patch, o.doc)
      BY <1>1
    <3>. HIDE DEF patch
    <3>. QED  BY <1>1, <3>1, SeccompLeads
  <2>3. Holds("seccompProfile", With(o, next), setting)
    <3>1. With(o, next).doc = next
      BY WithIs
    <3>. QED  BY <2>2, <3>1, HoldsIs, Zenon
  <2>4. Holds("seccompProfile", o, setting) =>
           MutatePodSeccompProfile(o.doc, setting, patch) = patch
    BY <1>3, HoldsIs DEF MutatePodSeccompProfile
  <2>. QED  BY <2>1, <2>2, <2>3, <2>4
<1>. QED  BY <1>2, <1>3

LEMMA ContextMutates ==
    ASSUME NEW o, IsObject(o), WellFormed(o.doc), NEW setting,
           NEW patch, NEW now, Leads(o.doc, patch, now),
           Within(o.doc, now, {"annotations"})
    PROVE  /\ \E next :
                 /\ Leads(o.doc, Mutate("podSecurityContext", o, setting, patch), next)
                 /\ RecordedRight("podSecurityContext", now, next, setting)
                 /\ \A g \in Features \ {"podSecurityContext"} : Same(g, now, next)
                 /\ DOMAIN now \subseteq DOMAIN next
                 /\ Within(o.doc, next, Roots)
                 /\ Holds("podSecurityContext", With(o, next), setting)
           /\ Holds("podSecurityContext", o, setting) =>
                 Mutate("podSecurityContext", o, setting, patch) = patch
<1>1. CASE setting.value = ""
  <2>1. Mutate("podSecurityContext", o, setting, patch) = patch
    BY <1>1, MutateIs
  <2>2. Holds("podSecurityContext", With(o, now), setting)
    BY <1>1, HoldsIs, FeaturesDiffer
  <2>3. Within(o.doc, now, Roots)
    BY DEF Within, Roots
  <2>4. \A g : Same(g, now, now)
    BY DEF Same
  <2>5. RecordedRight("podSecurityContext", now, now, setting)
    BY <2>4, FeaturesAre, SameIsRight
  <2>. QED  BY <2>1, <2>2, <2>3, <2>4, <2>5
<1>2. CASE setting.value # ""
  <2>1. Mutate("podSecurityContext", o, setting, patch) =
          MutatePodSecurityContext(o.doc, setting, patch)
    BY <1>2, MutateIs
  <2>2. PICK next : /\ Leads(o.doc, MutatePodSecurityContext(o.doc, setting, patch), next)
                    /\ RecordedRight("podSecurityContext", now, next, setting)
                    /\ \A g \in Features \ {"podSecurityContext"} : Same(g, now, next)
                    /\ DOMAIN now \subseteq DOMAIN next
                    /\ Within(o.doc, next, Roots)
                    /\ setting.value = "nobody" => Hardened(next)
    BY ContextLeads DEF WellFormed
  <2>3. Holds("podSecurityContext", With(o, next), setting)
    <3>1. With(o, next).doc = next
      BY WithIs
    <3>. QED  BY <2>2, <3>1, HoldsIs, Zenon
  <2>4. Holds("podSecurityContext", o, setting) =>
           MutatePodSecurityContext(o.doc, setting, patch) = patch
    <3>1. IsDocument(o.doc) /\ IsPatch(patch)
      BY DEF WellFormed, Leads, Succeeds
    <3>2. SUFFICES ASSUME setting.value = "nobody" => Hardened(o.doc)
                   PROVE  MutatePodSecurityContext(o.doc, setting, patch) = patch
      BY HoldsIs, Zenon
    <3>. QED  BY <3>1, <3>2, ContextLeaves
  <2>. QED  BY <2>1, <2>2, <2>3, <2>4
<1>. QED  BY <1>1, <1>2

LEMMA AutomountMutates ==
    ASSUME NEW o, IsObject(o), WellFormed(o.doc), NEW setting
    PROVE  /\ \E next :
                 /\ Leads(o.doc, Mutate("automountServiceAccountToken", o, setting, <<>>), next)
                 /\ RecordedRight("automountServiceAccountToken", o.doc, next, setting)
                 /\ \A g \in Features \ {"automountServiceAccountToken"} : Same(g, o.doc, next)
                 /\ Within(o.doc, next, Roots)
                 /\ Holds("automountServiceAccountToken", With(o, next), setting)
           /\ Holds("automountServiceAccountToken", o, setting) =>
                 Mutate("automountServiceAccountToken", o, setting, <<>>) = <<>>
<1>1. CASE setting.value = ""
  <2>1. Mutate("automountServiceAccountToken", o, setting, <<>>) = <<>>
    BY <1>1, MutateIs
  <2>2. Holds("automountServiceAccountToken", With(o, o.doc), setting)
    BY <1>1, HoldsIs
  <2>3. \A g : Same(g, o.doc, o.doc)
    BY DEF Same
  <2>4. RecordedRight("automountServiceAccountToken", o.doc, o.doc, setting)
    BY <2>3, FeaturesAre, SameIsRight
  <2>5. Within(o.doc, o.doc, Roots) /\ Leads(o.doc, <<>>, o.doc)
    BY LeadsNowhere DEF Within
  <2>. QED  BY <2>1, <2>2, <2>3, <2>4, <2>5
<1>2. CASE setting.value # ""
  <2>1. Mutate("automountServiceAccountToken", o, setting, <<>>) =
          MutateServiceAccountTokenMount(o, setting, <<>>)
    BY <1>2, MutateIs
  <2>2. PICK next :
           /\ Leads(o.doc, MutateServiceAccountTokenMount(o, setting, <<>>), next)
           /\ RecordedRight("automountServiceAccountToken", o.doc, next, setting)
           /\ \A g \in Features \ {"automountServiceAccountToken"} : Same(g, o.doc, next)
           /\ Within(o.doc, next, Roots)
           /\ TokenMountImplicit(o, setting) => Has(next, Automount)
    BY AutomountLeads
  <2>3. ~TokenMountImplicit(With(o, next), setting)
    <3>1. Has(o.doc, Automount) => Has(next, Automount)
      BY <2>2 DEF Leads, Keeps, Has
    <3>2. With(o, next).doc = next /\ With(o, next).name = o.name
      BY WithIs
    <3>. QED  BY <2>2, <3>1, <3>2 DEF TokenMountImplicit
  <2>4. Holds("automountServiceAccountToken", With(o, next), setting)
    BY <2>3, HoldsIs
  <2>5. Holds("automountServiceAccountToken", o, setting) =>
           MutateServiceAccountTokenMount(o, setting, <<>>) = <<>>
    BY <1>2, HoldsIs DEF MutateServiceAccountTokenMount
  <2>. QED  BY <2>1, <2>2, <2>4, <2>5
<1>. QED  BY <1>1, <1>2

----------------------------------------------------------------------------
(* What a handler does, one feature after the other                        *)

\* The features before the rest are done; before the first there is nothing.
InOrder(kind, rest, s, p) ==
    \/ rest = Asked(kind) /\ s = Nothing /\ p = <<>>
    \/ /\ rest = <<"podSecurityContext">>
       /\ \A f \in Features \ {"seccompProfile"} : s[f] = None
    \/ rest = <<>>

\* The patches so far can be applied and lead to what the settings ask for;
\* there are none if the object has it already.  The decisions on the
\* security context look at the object and not at the patches for seccomp.
Working(o, rest, s, p, next) ==
    /\ Leads(o.doc, p, next)
    /\ \A f \in Features : RecordedRight(f, o.doc, next, s[f])
    /\ Within(o.doc, next, Roots)
    /\ rest = <<"podSecurityContext">> => Within(o.doc, next, {"annotations"})
    /\ \A f \in Features : s[f] # None => Holds(f, With(o, next), s[f])
    /\ (\A f \in Features : s[f] # None => Holds(f, o, s[f])) => p = <<>>

LEMMA AskedIs ==
    /\ Asked("Pod") = <<"seccompProfile", "podSecurityContext">>
    /\ Asked("ServiceAccount") = <<"automountServiceAccountToken">>
BY DEF Asked

\* Which features can be next.
LEMMA TurnIs ==
    ASSUME NEW o, IsObject(o), NEW rest, rest # <<>>, NEW s, NEW p,
           InOrder(o.kind, rest, s, p)
    PROVE  \/ /\ o.kind = "Pod" /\ s = Nothing /\ p = <<>>
              /\ Head(rest) = "seccompProfile" /\ Tail(rest) = <<"podSecurityContext">>
           \/ /\ o.kind = "ServiceAccount" /\ s = Nothing /\ p = <<>>
              /\ Head(rest) = "automountServiceAccountToken" /\ Tail(rest) = <<>>
           \/ /\ rest = <<"podSecurityContext">>
              /\ \A f \in Features \ {"seccompProfile"} : s[f] = None
              /\ Head(rest) = "podSecurityContext" /\ Tail(rest) = <<>>
<1>1. o.kind \in {"Pod", "ServiceAccount"}
  BY DEF IsObject
<1>2. /\ Head(<<"seccompProfile", "podSecurityContext">>) = "seccompProfile"
      /\ Tail(<<"seccompProfile", "podSecurityContext">>) = <<"podSecurityContext">>
  OBVIOUS
<1>3. /\ Head(<<"automountServiceAccountToken">>) = "automountServiceAccountToken"
      /\ Tail(<<"automountServiceAccountToken">>) = <<>>
  OBVIOUS
<1>4. Head(<<"podSecurityContext">>) = "podSecurityContext" /\ Tail(<<"podSecurityContext">>) = <<>>
  OBVIOUS
<1>. QED  BY <1>1, <1>2, <1>3, <1>4, AskedIs, Zenon DEF InOrder

LEMMA FirstSeccomp ==
    ASSUME NEW o, IsObject(o), WellFormed(o.doc), NEW setting \in Settings,
           NEW s, s = [Nothing EXCEPT !["seccompProfile"] = setting]
    PROVE  \E next : Working(o, <<"podSecurityContext">>, s,
                             Mutate("seccompProfile", o, setting, <<>>), next)
<1>. DEFINE f == "seccompProfile"
            p == Mutate(f, o, setting, <<>>)
<1>1. setting # None
  BY SettingsAssumption
<1>2. s[f] = setting /\ \A g \in Features : g # f => s[g] = None
  BY FeaturesAre DEF Nothing
<1>3. PICK next : /\ Leads(o.doc, p, next)
                  /\ RecordedRight(f, o.doc, next, setting)
                  /\ \A g \in Features \ {f} : Same(g, o.doc, next)
                  /\ Within(o.doc, next, {"annotations"})
                  /\ Holds(f, With(o, next), setting)
  BY SeccompMutates
<1>4. Holds(f, o, setting) => p = <<>>
  BY SeccompMutates
<1>. HIDE DEF p
<1>5. \A g \in Features : s[g] # None => Holds(g, With(o, next), s[g])
  BY <1>2, <1>3
<1>6. (\A g \in Features : s[g] # None => Holds(g, o, s[g])) => p = <<>>
  BY <1>1, <1>2, <1>4, FeaturesAre
<1>7. Within(o.doc, next, Roots)
  BY <1>3 DEF Within, Roots
<1>8. \A g \in Features : RecordedRight(g, o.doc, next, s[g])
  BY <1>2, <1>3, SameIsRight
<1>. QED  BY <1>3, <1>5, <1>6, <1>7, <1>8 DEF Working, p

LEMMA FirstAutomount ==
    ASSUME NEW o, IsObject(o), WellFormed(o.doc), NEW setting \in Settings,
           NEW s, s = [Nothing EXCEPT !["automountServiceAccountToken"] = setting]
    PROVE  \E next : Working(o, <<>>, s,
                             Mutate("automountServiceAccountToken", o, setting, <<>>), next)
<1>. DEFINE f == "automountServiceAccountToken"
            p == Mutate(f, o, setting, <<>>)
<1>1. setting # None
  BY SettingsAssumption
<1>2. s[f] = setting /\ \A g \in Features : g # f => s[g] = None
  BY FeaturesAre DEF Nothing
<1>3. PICK next : /\ Leads(o.doc, p, next)
                  /\ RecordedRight(f, o.doc, next, setting)
                  /\ \A g \in Features \ {f} : Same(g, o.doc, next)
                  /\ Within(o.doc, next, Roots)
                  /\ Holds(f, With(o, next), setting)
  BY AutomountMutates
<1>4. Holds(f, o, setting) => p = <<>>
  BY AutomountMutates
<1>. HIDE DEF p
<1>5. \A g \in Features : s[g] # None => Holds(g, With(o, next), s[g])
  BY <1>2, <1>3
<1>6. (\A g \in Features : s[g] # None => Holds(g, o, s[g])) => p = <<>>
  BY <1>1, <1>2, <1>4, FeaturesAre
<1>7. <<>> # <<"podSecurityContext">>
  OBVIOUS
<1>8. \A g \in Features : RecordedRight(g, o.doc, next, s[g])
  BY <1>2, <1>3, SameIsRight
<1>. QED  BY <1>3, <1>5, <1>6, <1>7, <1>8 DEF Working, p

\* What is there for one feature stays there with the patches of the next.
LEMMA SeccompStays ==
    ASSUME NEW o, IsObject(o), NEW now, NEW next, DOMAIN now \subseteq DOMAIN next, NEW setting,
           Holds("seccompProfile", With(o, now), setting)
    PROVE  Holds("seccompProfile", With(o, next), setting)
<1>1. With(o, now).doc = now /\ With(o, next).doc = next
  BY WithIs
<1>2. Has(now, Seccomp) => Has(next, Seccomp)
  BY DEF Has
<1>. QED  BY <1>1, <1>2, HoldsIs, Zenon

LEMMA ThenContext ==
    ASSUME NEW o, IsObject(o), WellFormed(o.doc), NEW setting \in Settings,
           NEW s \in Found, \A f \in Features \ {"seccompProfile"} : s[f] = None,
           NEW t, t = [s EXCEPT !["podSecurityContext"] = setting],
           NEW p, NEW now, Working(o, <<"podSecurityContext">>, s, p, now)
    PROVE  \E next : Working(o, <<>>, t, Mutate("podSecurityContext", o, setting, p), next)
<1>. DEFINE f == "podSecurityContext"
            q == Mutate(f, o, setting, p)
<1>1. setting # None
  BY SettingsAssumption
<1>2. t[f] = setting /\ \A g \in Features : g # f => t[g] = s[g]
  BY FeaturesAre DEF Found
<1>3. /\ Leads(o.doc, p, now)
      /\ \A g \in Features : RecordedRight(g, o.doc, now, s[g])
      /\ Within(o.doc, now, {"annotations"})
      /\ \A g \in Features : s[g] # None => Holds(g, With(o, now), s[g])
      /\ (\A g \in Features : s[g] # None => Holds(g, o, s[g])) => p = <<>>
  BY DEF Working
<1>4. PICK next : /\ Leads(o.doc, q, next)
                  /\ RecordedRight(f, now, next, setting)
                  /\ \A g \in Features \ {f} : Same(g, now, next)
                  /\ DOMAIN now \subseteq DOMAIN next
                  /\ Within(o.doc, next, Roots)
                  /\ Holds(f, With(o, next), setting)
  BY <1>3, ContextMutates
<1>5. Holds(f, o, setting) => q = p
  BY <1>3, ContextMutates
<1>. HIDE DEF q
<1>6. \A g \in Features : t[g] # None => Holds(g, With(o, next), t[g])
  <2>. TAKE g \in Features
  <2>1. CASE g = f
    BY <1>2, <1>4, <2>1
  <2>2. CASE g = "seccompProfile"
    <3>1. t[g] = s[g]
      BY <1>2, <2>2, FeaturesDiffer
    <3>2. SUFFICES ASSUME t[g] # None
                   PROVE  Holds(g, With(o, next), t[g])
      OBVIOUS
    <3>3. Holds(g, With(o, now), t[g])
      BY <1>3, <3>1, <3>2
    <3>. QED  BY <1>4, <2>2, <3>3, SeccompStays
  <2>3. CASE g \notin {f, "seccompProfile"}
    BY <1>2, <2>3
  <2>. QED  BY <2>1, <2>2, <2>3
<1>7. ASSUME \A g \in Features : t[g] # None => Holds(g, o, t[g])
      PROVE  q = <<>>
  <2>1. Holds(f, o, setting)
    BY <1>1, <1>2, <1>7, FeaturesAre
  <2>2. \A g \in Features : s[g] # None => Holds(g, o, s[g])
    <3>. TAKE g \in Features
    <3>1. CASE g = f
      BY <3>1, FeaturesDiffer
    <3>2. CASE g # f
      BY <1>2, <1>7, <3>2
    <3>. QED  BY <3>1, <3>2
  <2>. QED  BY <1>3, <1>5, <2>1, <2>2
<1>8. <<>> # <<"podSecurityContext">>
  OBVIOUS
\* Before there was nothing about the security context to record.
<1>9. Same(f, o.doc, now)
  <2>1. /\ RunAsUser \in DOMAIN now => RunAsUser \in DOMAIN o.doc
        /\ RunAsGroup \in DOMAIN now => RunAsGroup \in DOMAIN o.doc
    BY <1>3, ContextPaths DEF Within
  <2>2. Keeps(o.doc, now, RecordPaths) /\ RunAsUser \notin RecordPaths
        /\ RunAsGroup \notin RecordPaths
    <3>1. \A g \in Features : Record(g)[1] = "annotations"
      BY Names, NoteOf DEF Record
    <3>. QED  BY <1>3, <3>1, ContextPaths DEF Leads, RecordPaths
  <2>3. Explicit(f, now) <=> Explicit(f, o.doc)
    BY <2>1, <2>2, ExplicitIs DEF NoUser, Keeps, Has
  <2>4. RecordedRight(f, o.doc, now, s[f])
    BY <1>3, FeaturesAre
  <2>5. /\ Has(now, Record(f)) <=> Has(o.doc, Record(f))
        /\ Has(o.doc, Record(f)) => now[Record(f)] = o.doc[Record(f)]
    BY <2>3, <2>4 DEF RecordedRight
  <2>. QED  BY <2>1, <2>2, <2>5, AboutIs DEF Same, Keeps, Has
<1>10. \A g \in Features : RecordedRight(g, o.doc, next, t[g])
  <2>. TAKE g \in Features
  <2>1. CASE g = f
    BY <1>2, <1>4, <1>9, <2>1, SameThenRight
  <2>2. CASE g # f
    BY <1>2, <1>3, <1>4, <2>2, RightThenSame
  <2>. QED  BY <2>1, <2>2
<1>. QED  BY <1>4, <1>6, <1>7, <1>8, <1>10 DEF Working, q

LEMMA UseWorks ==
    ASSUME NEW o, IsObject(o), WellFormed(o.doc), NEW setting \in Settings,
           NEW rest, rest # <<>>, NEW s \in Found, NEW p, InOrder(o.kind, rest, s, p),
           NEW now, Working(o, rest, s, p, now)
    PROVE  \E next : Working(o, Tail(rest), [s EXCEPT ![Head(rest)] = setting],
                             Mutate(Head(rest), o, setting, p), next)
<1>1. CASE /\ s = Nothing /\ p = <<>>
           /\ Head(rest) = "seccompProfile" /\ Tail(rest) = <<"podSecurityContext">>
  BY <1>1, FirstSeccomp
<1>2. CASE /\ s = Nothing /\ p = <<>>
           /\ Head(rest) = "automountServiceAccountToken" /\ Tail(rest) = <<>>
  BY <1>2, FirstAutomount
<1>3. CASE /\ rest = <<"podSecurityContext">>
           /\ \A f \in Features \ {"seccompProfile"} : s[f] = None
           /\ Head(rest) = "podSecurityContext" /\ Tail(rest) = <<>>
  BY <1>3, ThenContext
<1>. QED  BY <1>1, <1>2, <1>3, TurnIs

LEMMA UseInOrder ==
    ASSUME NEW o, IsObject(o), NEW rest, rest # <<>>, NEW s \in Found, NEW p,
           InOrder(o.kind, rest, s, p), NEW setting, NEW q
    PROVE  InOrder(o.kind, Tail(rest), [s EXCEPT ![Head(rest)] = setting], q)
<1>. DEFINE t == [s EXCEPT ![Head(rest)] = setting]
<1>1. CASE /\ s = Nothing /\ Head(rest) = "seccompProfile"
           /\ Tail(rest) = <<"podSecurityContext">>
  <2>1. \A f \in Features \ {"seccompProfile"} : t[f] = None
    BY <1>1 DEF Nothing
  <2>. HIDE DEF t
  <2>2. InOrder(o.kind, Tail(rest), t, q)
    BY <1>1, <2>1 DEF InOrder
  <2>. QED  BY <2>2 DEF t
<1>2. CASE Tail(rest) = <<>>
  BY <1>2 DEF InOrder
<1>. QED  BY <1>1, <1>2, TurnIs, Zenon

\* A handler that looks for a setting has a feature to look for and has read
\* the namespace.
Looking ==
    step \in {"decide", "take"} =>
        todo # <<>> /\ namespace \in [Features -> Values \cup {None}]

\* The config of the called replica is among those of the call.
Following == step # "none" => karydiaConfig[replica] \in current

IInv == TypeOK /\ Looking /\ Following

LEMMA AskedType ==
    ASSUME NEW kind
    PROVE  Asked(kind) \in Seq(Features) /\ Asked(kind) # <<>>
<1>1. CASE kind = "Pod"
  BY <1>1 DEF Asked, Features
<1>2. CASE kind # "Pod"
  BY <1>2 DEF Asked, Features
<1>. QED  BY <1>1, <1>2

LEMMA TodoType ==
    ASSUME NEW s \in Seq(Features), s # <<>>
    PROVE  Head(s) \in Features /\ Tail(s) \in Seq(Features)
  BY HeadTailProperties

\* The variables of a handler that begins or ends.
LEMMA FreshType ==
    ASSUME Fresh
    PROVE  /\ namespace' \in Annotations \cup {None} /\ todo' \in Seq(Features)
           /\ settings' \in Found /\ errors' \in SUBSET Features
  BY EmptySeq DEF Fresh, Found, Nothing

LEMMA CallKeeps ==
    ASSUME TypeOK, NEW s \in Stages, Call(s), UNCHANGED karydiaConfig
    PROVE  /\ stage' \in Stages /\ replica' \in Replicas /\ step' = "received"
           /\ namespace' \in Annotations \cup {None} /\ todo' \in Seq(Features)
           /\ settings' \in Found /\ errors' \in SUBSET Features
           /\ current' \in SUBSET Configs /\ karydiaConfig'[replica'] \in current'
  BY FreshType DEF Call, TypeOK

LEMMA EndKeeps ==
    ASSUME TypeOK, NEW s \in Stages, End(s)
    PROVE  /\ stage' \in Stages /\ replica' \in Replicas /\ step' = "none"
           /\ namespace' \in Annotations \cup {None} /\ todo' \in Seq(Features)
           /\ settings' \in Found /\ errors' \in SUBSET Features
           /\ current' \in SUBSET Configs
  BY FreshType DEF End, TypeOK

LEMMA ProceedKeeps ==
    ASSUME TypeOK, Proceed, UNCHANGED karydiaConfig
    PROVE  /\ stage' \in Stages /\ replica' \in Replicas
           /\ step' \in {"received", "none"}
           /\ namespace' \in Annotations \cup {None} /\ todo' \in Seq(Features)
           /\ settings' \in Found /\ errors' \in SUBSET Features
           /\ current' \in SUBSET Configs
           /\ step' # "none" => karydiaConfig'[replica'] \in current'
  BY CallKeeps, EndKeeps DEF Proceed, Stages

LEMMA ObjectKept ==
    ASSUME IsObject(object), NEW d, object' = [object EXCEPT !.doc = d]
    PROVE  IsObject(object)' /\ object'.namespace = object.namespace
  BY DEF IsObject

LEMMA UseKeeps ==
    ASSUME TypeOK, Looking, step \in {"decide", "take"},
           NEW setting \in Settings, Use(Head(todo), setting)
    PROVE  /\ step' \in {"respond", "decide"} /\ todo' \in Seq(Features)
           /\ step' = "decide" => todo' # <<>>
           /\ settings' \in Found /\ errors' \in SUBSET Features
<1>1. todo # <<>> /\ Head(todo) \in Features /\ Tail(todo) \in Seq(Features)
  BY TodoType DEF TypeOK, Looking
<1>. QED  BY <1>1 DEF Use, TypeOK, Found

\* The invariant on which the theorems below rest.
LEMMA Inductive == Spec => []IInv
<1>1. Init => IInv
  BY EmptySeq, ObjectsAssumption, ConfigsAssumption, BoundAssumption
  DEF Init, IInv, TypeOK, Looking, Following, Stages, Steps, Found, Nothing
<1>2. IInv /\ [Next]_vars => IInv'
  <2> SUFFICES ASSUME IInv, [Next]_vars
               PROVE  IInv'
    OBVIOUS
  <2> USE DEF IInv, Looking, Following
  <2>1. CASE Create
    <3>1. Call("mutating") /\ UNCHANGED karydiaConfig
      BY <2>1 DEF Create, Request
    <3>. QED  BY <2>1, <3>1, CallKeeps, BoundAssumption
              DEF Create, Request, TypeOK, Stages, Steps, IsObject
  <2>2. CASE Rewrite
    <3>1. Call("mutating") /\ UNCHANGED karydiaConfig
      BY <2>2 DEF Rewrite, Request
    <3>. QED  BY <2>2, <3>1, CallKeeps, BoundAssumption
              DEF Rewrite, Request, TypeOK, Stages, Steps, IsObject
  <2>3. CASE Edit
    <3>1. Call("mutating") /\ UNCHANGED karydiaConfig
      BY <2>3 DEF Edit, Request
    <3>2. IsObject(object)'
      BY <2>3, ObjectKept DEF Edit, TypeOK
    <3>3. mutated' \in Found
      BY <2>3 DEF Edit, Found, Nothing
    <3>. QED  BY <2>3, <3>1, <3>2, <3>3, CallKeeps, BoundAssumption
              DEF Edit, Request, TypeOK, Stages, Steps
  <2>4. CASE Unanswered
    <3>1. Proceed /\ UNCHANGED karydiaConfig
      BY <2>4 DEF Unanswered
    <3>. QED  BY <2>4, <3>1, ProceedKeeps, BoundAssumption
              DEF Unanswered, TypeOK, Stages, Steps, IsObject
  <2>5. CASE Receive
    <3>1. CASE IsTerminating(object)
      BY <2>5, <3>1, ProceedKeeps
      DEF Receive, Quiet, TypeOK, Stages, Steps, IsObject
    <3>2. CASE ~IsTerminating(object)
      BY <2>5, <3>2 DEF Receive, Quiet, TypeOK, Stages, Steps, IsObject, found
    <3>. QED  BY <3>1, <3>2
  <2>6. CASE GetNamespace
    <3>1. namespace' \in Annotations
      BY <2>6 DEF GetNamespace, TypeOK, IsObject
    <3>2. todo' \in Seq(Features) /\ todo' # <<>>
      BY <2>6, AskedType DEF GetNamespace
    <3>. QED  BY <2>6, <3>1, <3>2, AnnotationsAssumption
              DEF GetNamespace, Quiet, server, found, TypeOK, Steps, IsObject
  <2>7. CASE GetNamespaceFails
    <3>1. End("refused")
      BY <2>7 DEF GetNamespaceFails
    <3>. QED  BY <2>7, <3>1, EndKeeps, BoundAssumption
              DEF GetNamespaceFails, Quiet, TypeOK, Stages, Steps, IsObject
  <2>8. CASE Decide
    <3>1. todo # <<>> /\ Head(todo) \in Features
      BY <2>8 DEF Decide, TypeOK
    <3>2. CASE FromNamespace(Head(todo), namespace, object.namespace,
                             karydiaConfig[replica])
      <4>1. [src |-> "namespace", value |-> namespace[Head(todo)]] \in Settings
        BY <2>8, <3>1, <3>2 DEF Decide, FromNamespace, Settings
      <4>. QED  BY <2>8, <3>2, <4>1, UseKeeps
                DEF Decide, Quiet, server, TypeOK, Steps, IsObject
    <3>3. CASE ~FromNamespace(Head(todo), namespace, object.namespace,
                              karydiaConfig[replica])
      BY <2>8, <3>3 DEF Decide, Quiet, server, found, TypeOK, Steps, IsObject
    <3>. QED  BY <3>2, <3>3
  <2>9. CASE Take
    <3>1. todo # <<>> /\ Head(todo) \in Features
      BY <2>9 DEF Take, TypeOK
    <3>2. [src |-> "config", value |-> karydiaConfig[replica].setting[Head(todo)]]
            \in Settings
      BY <3>1, ConfigsAssumption DEF TypeOK, Settings
    <3>. QED  BY <2>9, <3>2, UseKeeps
              DEF Take, Quiet, server, TypeOK, Steps, IsObject
  <2>10. CASE RespondMutating
    <3>1. CASE Patched(object.doc, patches).ok
      <4>1. IsObject(object)'
        BY <2>10, <3>1, ObjectKept DEF RespondMutating, TypeOK
      <4>. QED  BY <2>10, <3>1, <4>1, ProceedKeeps
                DEF RespondMutating, Quiet, TypeOK, Stages, Steps
    <3>2. CASE ~Patched(object.doc, patches).ok
      <4>1. End("refused")
        BY <2>10, <3>2 DEF RespondMutating
      <4>. QED  BY <2>10, <3>2, <4>1, EndKeeps
                DEF RespondMutating, Quiet, TypeOK, Stages, Steps, IsObject
    <3>. QED  BY <3>1, <3>2
  <2>11. CASE RespondValidating
    <3>1. CASE errors = {}
      BY <2>11, <3>1, ProceedKeeps
      DEF RespondValidating, Quiet, TypeOK, Stages, Steps, IsObject
    <3>2. CASE errors # {}
      <4>1. End("refused")
        BY <2>11, <3>2 DEF RespondValidating
      <4>. QED  BY <2>11, <4>1, EndKeeps
                DEF RespondValidating, Quiet, TypeOK, Stages, Steps, IsObject
    <3>. QED  BY <3>1, <3>2
  <2>12. ASSUME NEW r \in Replicas, UpdateConfig(r)
         PROVE  IInv'
    BY <2>12, BoundAssumption DEF UpdateConfig, server, handler, found, TypeOK, IsObject
  <2>13. ASSUME NEW n \in Namespaces, AnnotateNamespace(n)
         PROVE  IInv'
    BY <2>13, BoundAssumption DEF AnnotateNamespace, server, handler, found, TypeOK, IsObject
  <2>14. CASE UNCHANGED vars
    BY <2>14 DEF vars, server, handler, found, TypeOK, IsObject
  <2>. QED  BY <2>1, <2>2, <2>3, <2>4, <2>5, <2>6, <2>7, <2>8, <2>9, <2>10,
               <2>11, <2>12, <2>13, <2>14 DEF Next
<1>. QED  BY <1>1, <1>2, PTL DEF Spec

(***************************************************************************)
(* The variables keep their types: no handler uses an annotation that is   *)
(* not there or looks for a feature it has done.                           *)
(***************************************************************************)
THEOREM TypeCorrect == Spec => []TypeOK
BY Inductive, PTL DEF IInv

(***************************************************************************)
(* However configs and annotations change while a review is worked on, the *)
(* annotation of a namespace other than kube-system is used only if some   *)
(* config without enforcement was valid during the call.                   *)
(***************************************************************************)
THEOREM Enforced == Spec => []EnforcedCannotOptOut
<1>1. Init => EnforcedCannotOptOut
  BY DEF Init, EnforcedCannotOptOut, Nothing
<1>2. IInv /\ EnforcedCannotOptOut /\ [Next]_vars => EnforcedCannotOptOut'
  <2> SUFFICES ASSUME IInv, EnforcedCannotOptOut, [Next]_vars
               PROVE  EnforcedCannotOptOut'
    OBVIOUS
  <2>. DEFINE Unmoved == /\ settings' = settings
                         /\ current \subseteq current'
                         /\ object'.namespace = object.namespace
  <2>1. ASSUME Unmoved
        PROVE  EnforcedCannotOptOut'
    BY <2>1 DEF EnforcedCannotOptOut
  <2>2. ASSUME settings' = Nothing
        PROVE  EnforcedCannotOptOut'
    BY <2>2 DEF EnforcedCannotOptOut, Nothing
  <2>3. ASSUME NEW s, Call(s) \/ End(s)
        PROVE  EnforcedCannotOptOut'
    BY <2>2, <2>3 DEF Call, End, Fresh
  <2>4. ASSUME Proceed
        PROVE  EnforcedCannotOptOut'
    BY <2>3, <2>4 DEF Proceed
  <2>5. CASE Create \/ Rewrite \/ Edit
    BY <2>3, <2>5 DEF Create, Rewrite, Edit, Request
  <2>6. CASE Unanswered
    BY <2>4, <2>6 DEF Unanswered
  <2>7. CASE Receive
    <3>1. CASE IsTerminating(object)
      BY <2>4, <2>7, <3>1 DEF Receive
    <3>2. CASE ~IsTerminating(object)
      BY <2>1, <2>7, <3>2 DEF Receive, found
    <3>. QED  BY <3>1, <3>2
  <2>8. CASE GetNamespace
    BY <2>1, <2>8 DEF GetNamespace, found, server
  <2>9. CASE GetNamespaceFails
    BY <2>3, <2>9 DEF GetNamespaceFails
  <2>10. CASE Decide
    <3>1. object' = object /\ current' = current
      BY <2>10 DEF Decide, server
    <3>2. CASE FromNamespace(Head(todo), namespace, object.namespace,
                             karydiaConfig[replica])
      \* Then it is kube-system, or a config of this call does not enforce.
      <4>1. settings' = [settings EXCEPT ![Head(todo)] =
                            [src |-> "namespace", value |-> namespace[Head(todo)]]]
        BY <2>10, <3>2 DEF Decide, Use
      <4>2. karydiaConfig[replica] \in current
        BY <2>10 DEF Decide, IInv, Following
      <4>3. \/ object.namespace = "kube-system"
            \/ \E c \in current : ~c.enforcement
        BY <3>2, <4>2 DEF FromNamespace
      <4>. QED  BY <3>1, <4>3 DEF EnforcedCannotOptOut
    <3>3. CASE ~FromNamespace(Head(todo), namespace, object.namespace,
                              karydiaConfig[replica])
      BY <2>1, <2>10, <3>1, <3>3 DEF Decide, found
    <3>. QED  BY <3>2, <3>3
  <2>11. CASE Take
    <3>1. object' = object /\ current' = current
      BY <2>11 DEF Take, server
    <3>2. settings' = [settings EXCEPT ![Head(todo)] =
            [src |-> "config", value |-> karydiaConfig[replica].setting[Head(todo)]]]
      BY <2>11 DEF Take, Use
    <3>3. settings \in Found
      BY DEF IInv, TypeOK
    <3>. QED  BY <3>1, <3>2, <3>3 DEF EnforcedCannotOptOut, Found
  <2>12. CASE RespondMutating
    BY <2>3, <2>4, <2>12 DEF RespondMutating
  <2>13. CASE RespondValidating
    BY <2>3, <2>4, <2>13 DEF RespondValidating
  <2>14. ASSUME NEW r \in Replicas, UpdateConfig(r)
         PROVE  EnforcedCannotOptOut'
    BY <2>1, <2>14 DEF UpdateConfig, server, handler, found
  <2>15. ASSUME NEW n \in Namespaces, AnnotateNamespace(n)
         PROVE  EnforcedCannotOptOut'
    BY <2>1, <2>15 DEF AnnotateNamespace, server, handler, found
  <2>16. CASE UNCHANGED vars
    BY <2>1, <2>16 DEF vars, server, handler, found
  <2>. QED  BY <2>5, <2>6, <2>7, <2>8, <2>9, <2>10, <2>11, <2>12, <2>13,
               <2>14, <2>15, <2>16 DEF Next
<1>. QED  BY <1>1, <1>2, Inductive, PTL DEF Spec

----------------------------------------------------------------------------
(* What patches make of an object                                          *)

LEMMA DeletionPath ==
    /\ DeletionTimestamp \in Seq(Keys) /\ DeletionTimestamp # <<>>
    /\ Front(DeletionTimestamp) = <<>> /\ Len(DeletionTimestamp) = 1
    /\ DeletionTimestamp[1] = "deletionTimestamp"
BY Names, PathOfOne, Zenon DEF DeletionTimestamp

LEMMA SeccompPath ==
    /\ Seccomp \in Seq(Keys) /\ Seccomp # <<>> /\ Len(Seccomp) = 2
    /\ Front(Seccomp) = <<"annotations">>
<1>1. Seccomp[2] \in Keys /\ Seccomp = Note(Seccomp[2])
  BY Names
<1>. QED  BY <1>1, NoteOf

\* Both maps of a document stay what they are when something is taken away,
LEMMA WithoutIsWellFormed ==
    ASSUME NEW doc, WellFormed(doc), NEW path \in Seq(Keys), path # <<>>,
           NEW rest, rest = Without(doc, path)
    PROVE  WellFormed(rest)
<1>1. /\ IsDocument(rest)
      /\ DOMAIN rest = Kept(doc, path)
      /\ \A q \in Kept(doc, path) : rest[q] = doc[q]
  BY WithoutIsDocument DEF WellFormed
<1>2. Kept(doc, path) \subseteq DOMAIN doc
  BY DEF Kept
<1>. QED  BY <1>1, <1>2 DEF WellFormed, Has

\* and when a value is added elsewhere or to the annotations.
LEMMA AddedIsWellFormed ==
    ASSUME NEW doc, WellFormed(doc), NEW path \in Seq(Keys), path # <<>>,
           path # <<"annotations">>, Has(doc, Front(path)),
           IsStrictPrefix(<<"annotations">>, path) => Len(path) = 2,
           NEW v, NEW more, more = Added(doc, Add(path, Scalar(v)))
    PROVE  WellFormed(more)
<1>. DEFINE w == Scalar(v)
<1>1. IsDocument(doc)
  BY DEF WellFormed
<1>2. IsDocument(w) /\ DOMAIN w = {<<>>} /\ more = Added(doc, Add(path, w))
  BY ScalarIsDocument
<1>. HIDE DEF w
<1>3. IsDocument(more)
  BY <1>1, <1>2, AddedIsDocument
<1>4. /\ DOMAIN more = Kept(doc, path) \cup New(path, w)
      /\ \A q \in Kept(doc, path) : more[q] = doc[q]
  <2>1. /\ DOMAIN Added(doc, Add(path, w)) = Kept(doc, path) \cup New(path, w)
        /\ \A q \in Kept(doc, path) : Added(doc, Add(path, w))[q] = doc[q]
    BY DEF Added, Add, Kept, New
  <2>. QED  BY <1>2, <2>1
<1>5. New(path, w) = {path}
  BY <1>2, ConcatEmptySeq DEF New
<1>6. Kept(doc, path) \subseteq DOMAIN doc
  BY DEF Kept
<1>. QED  BY <1>3, <1>4, <1>5, <1>6 DEF WellFormed, Has

\* What clients make of a document is one again.
LEMMA EditsAreWellFormed ==
    ASSUME NEW doc, WellFormed(doc), NEW more \in Edits(doc)
    PROVE  WellFormed(more)
<1>. DEFINE Removed == {<<"annotations">>, Seccomp, Automount} \cup {Record(f) : f \in Features}
            Given == {DeletionTimestamp} \cup {path \in {Seccomp} : Has(doc, Front(path))}
            v == Plain("own")
<1>1. \/ \E path \in Removed : more = Without(doc, path)
      \/ \E path \in Given : more = Added(doc, Add(path, Scalar(v)))
  BY DEF Edits
<1>2. \A path \in Removed : path \in Seq(Keys) /\ path # <<>>
  <2>1. \A f \in Features : Internal[f] \in Keys /\ Record(f) = Note(Internal[f])
    BY Names DEF Record
  <2>2. \A f \in Features : Record(f) \in Seq(Keys) /\ Record(f) # <<>>
    BY <2>1, NoteOf
  <2>3. Seccomp \in Seq(Keys) /\ Seccomp # <<>>
    BY SeccompPath
  <2>. QED  BY <2>2, <2>3, RootOf, AutomountPath
<1>. HIDE DEF v
<1>3. CASE \E path \in Removed : more = Without(doc, path)
  <2>. HIDE DEF Removed
  <2>. QED  BY <1>2, <1>3, WithoutIsWellFormed
<1>4. ASSUME NEW path \in Given
      PROVE  /\ path \in Seq(Keys) /\ path # <<>> /\ path # <<"annotations">>
             /\ Has(doc, Front(path))
             /\ IsStrictPrefix(<<"annotations">>, path) => Len(path) = 2
  <2>1. CASE path = DeletionTimestamp
    <3>1. Has(doc, <<>>)
      BY DEF WellFormed, IsDocument, Has
    <3>2. ~IsPrefix(<<"annotations">>, DeletionTimestamp)
      BY DeletionPath, NotBelow
    <3>. QED  BY <2>1, <3>1, <3>2, DeletionPath, RootOf DEF IsStrictPrefix
  <2>2. CASE path = Seccomp
    <3>1. Len(<<"annotations">>) # Len(Seccomp)
      BY SeccompPath, RootOf
    <3>2. DeletionTimestamp # Seccomp
      BY DeletionPath, SeccompPath
    <3>. QED  BY <2>2, <3>1, <3>2, SeccompPath
  <2>. QED  BY <2>1, <2>2
<1>5. CASE \E path \in Given : more = Added(doc, Add(path, Scalar(v)))
  <2>. HIDE DEF Given
  <2>. QED  BY <1>4, <1>5, AddedIsWellFormed
<1>. QED  BY <1>1, <1>3, <1>5

----------------------------------------------------------------------------
(* The invariant for what happens to objects                               *)

\* Before a handler looks at its features it has found nothing.  While it
\* does, what it has found is about those that are done.
InTurn ==
    /\ step \in {"received", "namespace"} => settings = Nothing /\ patches = <<>>
    /\ step \in {"namespace", "decide", "take", "respond"} => ~IsTerminating(object)
    /\ step \in {"decide", "take", "respond"} =>
          /\ step = "respond" <=> todo = <<>>
          /\ InOrder(object.kind, todo, settings, patches)
          /\ stage = "mutating" => \E next : Working(object, todo, settings, patches, next)

ErrorsAreReal ==
    \A f \in errors : settings[f] # None /\ Invalid(f, object, settings[f])

\* A pod that is being deleted is as its client wrote it, as is any object
\* that is yet to be mutated.
Untouched ==
    /\ IsTerminating(object) => stage # "refused" /\ object.doc = submitted
    /\ stage \in {"idle", "mutating"} => object.doc = submitted

CInv ==
    /\ WellFormed(object.doc)
    /\ OwnChoicesKept
    /\ RecordsItsChanges
    /\ MutatedIsHardened
    /\ InTurn
    /\ ErrorsAreReal
    /\ Untouched

LEMMA ObjectWith ==
    ASSUME NEW doc, object' = [object EXCEPT !.doc = doc], IsObject(object)
    PROVE  object' = With(object, doc) /\ object'.doc = doc /\ object'.kind = object.kind
BY DEF With, IsObject

\* A call begins or ends.
LEMMA FreshHolds ==
    ASSUME WellFormed(object.doc)', OwnChoicesKept', RecordsItsChanges', MutatedIsHardened',
           Untouched',
           Fresh, step' \in {"none", "received"}
    PROVE  CInv'
BY DEF CInv, Fresh, InTurn, ErrorsAreReal

LEMMA CallOrEnd ==
    ASSUME CInv, NEW s, Call(s) \/ End(s), UNCHANGED <<submitted, object, mutated>>,
           IsTerminating(object) => s # "refused", s = "mutating" => stage = "idle",
           s # "idle"
    PROVE  CInv'
<1>1. Fresh /\ step' \in {"none", "received"} /\ stage' = s
  BY DEF Call, End
<1>2. OwnChoicesKept' /\ RecordsItsChanges' /\ WellFormed(object.doc)'
  BY DEF CInv, OwnChoicesKept, RecordsItsChanges
<1>3. MutatedIsHardened'
  BY DEF CInv, MutatedIsHardened, Meets
<1>4. Untouched'
  BY <1>1 DEF CInv, Untouched, IsTerminating
<1>. QED  BY <1>1, <1>2, <1>3, <1>4, FreshHolds

LEMMA ProceedHolds ==
    ASSUME CInv, Proceed, UNCHANGED <<submitted, object, mutated>>
    PROVE  CInv'
<1>1. \A s \in {"validating", "stored"} : s # "refused" /\ s # "mutating" /\ s # "idle"
  OBVIOUS
<1>. QED  BY <1>1, CallOrEnd DEF Proceed

\* Anybody writes the object, changed or not.
LEMMA RewriteHolds ==
    ASSUME CInv, Rewrite
    PROVE  CInv'
<1>1. Fresh /\ step' = "received" /\ stage' = "mutating"
  BY DEF Rewrite, Request, Call
<1>2. submitted' = object.doc /\ object' = object /\ mutated' = mutated
  BY DEF Rewrite
<1>3. OwnChoicesKept' /\ RecordsItsChanges' /\ WellFormed(object.doc)'
  BY <1>2 DEF CInv, OwnChoicesKept, RecordsItsChanges, RecordedRight, Has
<1>4. MutatedIsHardened'
  BY <1>2 DEF CInv, MutatedIsHardened, Meets
<1>5. Untouched'
  BY <1>1, <1>2 DEF Untouched
<1>. QED  BY <1>1, <1>3, <1>4, <1>5, FreshHolds

LEMMA EditHolds ==
    ASSUME TypeOK, CInv, Edit
    PROVE  CInv'
<1>1. Fresh /\ step' = "received" /\ stage' = "mutating"
  BY DEF Edit, Request, Call
<1>2. object'.doc = submitted' /\ mutated' = Nothing
  BY ObjectWith DEF Edit, TypeOK
<1>3. WellFormed(submitted')
  <2>1. submitted' \in Edits(object.doc)
    BY DEF Edit
  <2>. QED  BY <2>1, EditsAreWellFormed DEF CInv
<1>4. OwnChoicesKept' /\ RecordsItsChanges' /\ WellFormed(object.doc)'
  BY <1>2, <1>3 DEF OwnChoicesKept, RecordsItsChanges, RecordedRight, Has
<1>5. MutatedIsHardened'
  BY <1>2 DEF MutatedIsHardened, Nothing
<1>6. Untouched'
  BY <1>1, <1>2 DEF Untouched
<1>. QED  BY <1>1, <1>4, <1>5, <1>6, FreshHolds

\* What the handler has not changed holds as it did.
LEMMA SameObject ==
    ASSUME CInv, UNCHANGED <<object, submitted, mutated, stage>>
    PROVE  /\ WellFormed(object.doc)' /\ OwnChoicesKept' /\ RecordsItsChanges'
           /\ MutatedIsHardened' /\ Untouched'
<1>1. WellFormed(object.doc)' /\ OwnChoicesKept' /\ RecordsItsChanges'
  BY DEF CInv, OwnChoicesKept, RecordsItsChanges
<1>2. MutatedIsHardened'
  BY DEF CInv, MutatedIsHardened, Meets
<1>3. Untouched'
  BY DEF CInv, Untouched, IsTerminating
<1>. QED  BY <1>1, <1>2, <1>3

LEMMA SameTurn ==
    ASSUME CInv, UNCHANGED <<object, submitted, mutated, stage, step, todo, found>>
    PROVE  CInv'
<1>1. /\ WellFormed(object.doc)' /\ OwnChoicesKept' /\ RecordsItsChanges'
      /\ MutatedIsHardened' /\ Untouched'
  BY SameObject
<1>2. InTurn'
  BY DEF CInv, InTurn, IsTerminating, found
<1>3. ErrorsAreReal'
  BY DEF CInv, ErrorsAreReal, found
<1>. QED  BY <1>1, <1>2, <1>3 DEF CInv

LEMMA ReceiveHolds ==
    ASSUME CInv, Receive
    PROVE  CInv'
<1>1. CASE IsTerminating(object)
  BY <1>1, ProceedHolds DEF Receive
<1>2. CASE ~IsTerminating(object)
  <2>1. /\ step = "received" /\ step' = "namespace"
        /\ UNCHANGED <<object, submitted, mutated, stage, todo, found>>
    BY <1>2 DEF Receive
  <2>2. /\ WellFormed(object.doc)' /\ OwnChoicesKept' /\ RecordsItsChanges'
        /\ MutatedIsHardened' /\ Untouched'
    BY <2>1, SameObject
  <2>3. InTurn'
    BY <1>2, <2>1 DEF CInv, InTurn, IsTerminating, found
  <2>4. ErrorsAreReal'
    BY <2>1 DEF CInv, ErrorsAreReal, found
  <2>. QED  BY <2>2, <2>3, <2>4 DEF CInv
<1>. QED  BY <1>1, <1>2

\* Nothing is done, and nothing is asked for.
LEMMA WorkingFirst ==
    ASSUME NEW o, IsObject(o), WellFormed(o.doc)
    PROVE  Working(o, Asked(o.kind), Nothing, <<>>, o.doc)
<1>1. Leads(o.doc, <<>>, o.doc)
  BY LeadsNowhere
<1>2. \A roots : Within(o.doc, o.doc, roots)
  BY DEF Within
<1>3. \A f \in Features : Nothing[f] = None
  BY DEF Nothing
<1>4. \A f \in Features : RecordedRight(f, o.doc, o.doc, Nothing[f])
  BY DEF RecordedRight
<1>. QED  BY <1>1, <1>2, <1>3, <1>4 DEF Working

LEMMA GetNamespaceHolds ==
    ASSUME TypeOK, CInv, GetNamespace
    PROVE  CInv'
<1>1. /\ step = "namespace" /\ step' = "decide" /\ todo' = Asked(object.kind)
      /\ UNCHANGED <<object, submitted, mutated, stage, found>>
  BY DEF GetNamespace, server
<1>2. /\ WellFormed(object.doc)' /\ OwnChoicesKept' /\ RecordsItsChanges'
      /\ MutatedIsHardened' /\ Untouched'
  BY <1>1, SameObject
<1>3. settings' = Nothing /\ patches' = <<>>
  BY <1>1 DEF CInv, InTurn, found
<1>4. InTurn'
  <2>1. ~IsTerminating(object)'
    BY <1>1 DEF CInv, InTurn, IsTerminating
  <2>2. todo' # <<>>
    BY <1>1, AskedType
  <2>3. InOrder(object.kind, todo, settings, patches)'
    BY <1>1, <1>3 DEF InOrder
  <2>4. Working(object, todo, settings, patches, object.doc)'
    BY <1>1, <1>3, WorkingFirst DEF CInv, TypeOK
  <2>5. step' \notin {"received", "respond"}
    BY <1>1
  <2>. QED  BY <1>3, <2>1, <2>2, <2>3, <2>4, <2>5 DEF InTurn
<1>5. ErrorsAreReal'
  BY <1>1 DEF CInv, ErrorsAreReal, found
<1>. QED  BY <1>2, <1>4, <1>5 DEF CInv

LEMMA GetNamespaceFailsHolds ==
    ASSUME CInv, GetNamespaceFails
    PROVE  CInv'
<1>1. ~IsTerminating(object)
  BY DEF GetNamespaceFails, CInv, InTurn
<1>2. "refused" # "mutating" /\ "refused" # "idle"
  OBVIOUS
<1>. QED  BY <1>1, <1>2, CallOrEnd DEF GetNamespaceFails

\* The handler uses the setting for the next feature.
LEMMA UseHolds ==
    ASSUME TypeOK, CInv, step \in {"decide", "take"}, NEW setting \in Settings,
           Use(Head(todo), setting), UNCHANGED server
    PROVE  CInv'
<1>. DEFINE f == Head(todo)
<1>1. UNCHANGED <<object, submitted, mutated, stage>>
  BY DEF server
<1>2. /\ WellFormed(object.doc)' /\ OwnChoicesKept' /\ RecordsItsChanges'
      /\ MutatedIsHardened' /\ Untouched'
  BY <1>1, SameObject
<1>3. todo # <<>> /\ InOrder(object.kind, todo, settings, patches) /\ ~IsTerminating(object)
  BY DEF CInv, InTurn
<1>4. IsObject(object) /\ WellFormed(object.doc) /\ settings \in Found
  BY DEF TypeOK, CInv
<1>5. f \in Features
  BY <1>3, TodoType DEF TypeOK
<1>6. /\ settings' = [settings EXCEPT ![f] = setting]
      /\ todo' = Tail(todo) /\ step' \in {"respond", "decide"}
      /\ step' = "respond" <=> todo' = <<>>
  BY DEF Use
<1>. HIDE DEF f
<1>7. InOrder(object.kind, todo, settings, patches)'
  BY <1>1, <1>3, <1>4, <1>6, UseInOrder DEF f
<1>8. stage = "mutating" => (\E next : Working(object, todo, settings, patches, next))'
  <2>1. SUFFICES ASSUME stage = "mutating"
                 PROVE  (\E next : Working(object, todo, settings, patches, next))'
    OBVIOUS
  <2>2. patches' = Mutate(f, object, setting, patches)
    BY <2>1 DEF Use, f
  <2>3. PICK now : Working(object, todo, settings, patches, now)
    BY <2>1 DEF CInv, InTurn
  <2>4. PICK next : Working(object, Tail(todo), [settings EXCEPT ![f] = setting],
                            Mutate(f, object, setting, patches), next)
    BY <1>3, <1>4, <2>3, UseWorks DEF f
  <2>5. Working(object', todo', settings', patches', next)
    BY <1>1, <1>6, <2>2, <2>4
  <2>. QED  BY <2>5
<1>9. InTurn'
  <2>1. ~IsTerminating(object)'
    BY <1>1, <1>3 DEF IsTerminating
  <2>2. step' \notin {"received", "namespace", "none"}
    BY <1>6
  <2>. QED  BY <1>1, <1>6, <1>7, <1>8, <2>1, <2>2 DEF InTurn
<1>10. ErrorsAreReal'
  <2>. SUFFICES ASSUME NEW g \in errors'
                PROVE  settings'[g] # None /\ Invalid(g, object', settings'[g])
    BY DEF ErrorsAreReal
  <2>1. settings'[f] = setting /\ \A h \in Features : h # f => settings'[h] = settings[h]
    BY <1>4, <1>5, <1>6 DEF Found
  <2>2. g \in errors \/ (g = f /\ Invalid(f, object, setting))
    BY DEF Use, f
  <2>3. g \in Features
    BY <1>5, <2>2 DEF TypeOK
  <2>4. CASE g = f
    <3>1. setting # None
      BY SettingsAssumption
    <3>2. settings[f] = None
      BY <1>3, <1>4, <1>5, TurnIs, FeaturesDiffer, Zenon DEF f, Nothing
    <3>3. Invalid(f, object, setting)
      BY <2>2, <2>4, <3>2 DEF CInv, ErrorsAreReal
    <3>. QED  BY <1>1, <2>1, <2>4, <3>1, <3>3
  <2>5. CASE g # f
    BY <1>1, <2>1, <2>2, <2>3, <2>5 DEF CInv, ErrorsAreReal
  <2>. QED  BY <2>4, <2>5
<1>. QED  BY <1>2, <1>9, <1>10 DEF CInv

LEMMA DecideHolds ==
    ASSUME IInv, CInv, Decide
    PROVE  CInv'
<1>. DEFINE f == Head(todo)
<1>1. step = "decide" /\ todo # <<>> /\ f \in Features /\ UNCHANGED server
  BY TodoType DEF Decide, IInv, Looking, TypeOK
<1>2. CASE FromNamespace(f, namespace, object.namespace, karydiaConfig[replica])
  <2>1. [src |-> "namespace", value |-> namespace[f]] \in Settings
    <3>1. namespace \in [Features -> Values \cup {None}]
      BY <1>1 DEF IInv, Looking
    <3>. QED  BY <1>1, <1>2, <3>1 DEF FromNamespace, Settings
  <2>2. Use(f, [src |-> "namespace", value |-> namespace[f]])
    BY <1>2 DEF Decide
  <2>. QED  BY <1>1, <2>1, <2>2, UseHolds DEF IInv
<1>3. CASE ~FromNamespace(f, namespace, object.namespace, karydiaConfig[replica])
  <2>1. /\ step' = "take"
        /\ UNCHANGED <<object, submitted, mutated, stage, todo, found>>
    BY <1>3 DEF Decide, server
  <2>2. /\ WellFormed(object.doc)' /\ OwnChoicesKept' /\ RecordsItsChanges'
        /\ MutatedIsHardened' /\ Untouched'
    BY <2>1, SameObject
  <2>3. InTurn'
    BY <1>1, <2>1 DEF CInv, InTurn, IsTerminating, found
  <2>4. ErrorsAreReal'
    BY <2>1 DEF CInv, ErrorsAreReal, found
  <2>. QED  BY <2>2, <2>3, <2>4 DEF CInv
<1>. QED  BY <1>2, <1>3

LEMMA TakeHolds ==
    ASSUME IInv, CInv, Take
    PROVE  CInv'
<1>. DEFINE f == Head(todo)
            setting == [src |-> "config", value |-> karydiaConfig[replica].setting[f]]
<1>1. step = "take" /\ f \in Features /\ UNCHANGED server /\ Use(f, setting)
  BY TodoType DEF Take, IInv, Looking, TypeOK
<1>2. setting \in Settings
  BY <1>1, ConfigsAssumption DEF IInv, TypeOK, Settings
<1>. HIDE DEF setting
<1>. QED  BY <1>1, <1>2, UseHolds DEF IInv

\* The patches can be applied, and make of the object what they lead to.
LEMMA Applies ==
    ASSUME CInv, step = "respond", stage = "mutating"
    PROVE  \E next : /\ Patched(object.doc, patches) = [ok |-> TRUE, doc |-> next]
                     /\ WellFormed(next)
                     /\ Keeps(object.doc, next, RecordPaths)
                     /\ Within(object.doc, next, Roots)
                     /\ \A f \in Features : RecordedRight(f, object.doc, next, settings[f])
                     /\ \A f \in Features :
                           settings[f] # None => Holds(f, With(object, next), settings[f])
<1>1. PICK next : Working(object, todo, settings, patches, next)
  BY DEF CInv, InTurn
<1>. QED  BY <1>1 DEF Working, Leads, Succeeds, WellFormed, Flat

LEMMA RespondMutatingHolds ==
    ASSUME TypeOK, CInv, RespondMutating
    PROVE  CInv'
<1>1. step = "respond" /\ stage = "mutating" /\ ~IsTerminating(object) /\ submitted' = submitted
  BY DEF RespondMutating, CInv, InTurn
<1>2. PICK next : /\ Patched(object.doc, patches) = [ok |-> TRUE, doc |-> next]
                  /\ WellFormed(next)
                  /\ Keeps(object.doc, next, RecordPaths)
                  /\ Within(object.doc, next, Roots)
                  /\ \A f \in Features : RecordedRight(f, object.doc, next, settings[f])
                  /\ \A f \in Features :
                        settings[f] # None => Holds(f, With(object, next), settings[f])
  BY <1>1, Applies
<1>3. /\ object' = [object EXCEPT !.doc = next]
      /\ mutated' = settings /\ Call("validating")
  BY <1>1, <1>2 DEF RespondMutating, Proceed
<1>4. Fresh /\ step' \in {"none", "received"} /\ stage' = "validating"
  BY <1>3 DEF Call
<1>5. object' = With(object, next) /\ object'.doc = next /\ object'.kind = object.kind
  BY <1>3, ObjectWith DEF TypeOK
<1>6. WellFormed(object.doc)'
  BY <1>2, <1>5
<1>7. OwnChoicesKept' /\ RecordsItsChanges'
  <2>1. object.doc = submitted
    BY <1>1 DEF CInv, Untouched
  <2>2. OwnChoicesKept'
    BY <1>1, <1>2, <1>5, <2>1 DEF OwnChoicesKept, Keeps, RecordPaths, Has
  <2>3. RecordsItsChanges'
    BY <1>1, <1>2, <1>3, <1>5, <2>1 DEF RecordsItsChanges
  <2>. QED  BY <2>2, <2>3
<1>8. MutatedIsHardened'
  <2>1. \A f \in Features : mutated'[f] # None => Holds(f, object', mutated'[f])
    BY <1>2, <1>3, <1>5
  <2>. QED  BY <2>1 DEF MutatedIsHardened, Meets, Holds
<1>9. ~IsTerminating(object)'
  <2>1. "deletionTimestamp" \notin Roots
    BY DEF Roots
  <2>2. Has(next, DeletionTimestamp) => Has(object.doc, DeletionTimestamp)
    BY <1>2, <2>1, DeletionPath DEF Within, Has
  <2>. QED  BY <1>1, <1>5, <2>2 DEF IsTerminating
<1>10. Untouched'
  BY <1>4, <1>9 DEF Untouched
<1>. QED  BY <1>4, <1>6, <1>7, <1>8, <1>10, FreshHolds

LEMMA RespondValidatingHolds ==
    ASSUME CInv, RespondValidating
    PROVE  CInv'
<1>1. ~IsTerminating(object)
  BY DEF RespondValidating, CInv, InTurn
<1>2. CASE errors = {}
  BY <1>2, ProceedHolds DEF RespondValidating
<1>3. CASE errors # {}
  <2>1. "refused" # "mutating" /\ "refused" # "idle"
    OBVIOUS
  <2>. QED  BY <1>1, <1>3, <2>1, CallOrEnd DEF RespondValidating
<1>. QED  BY <1>2, <1>3

LEMMA ChangesKept == Spec => []CInv
<1>1. Init => CInv
  <2>. SUFFICES ASSUME Init
                PROVE  CInv
    OBVIOUS
  <2>1. WellFormed(object.doc)
    BY DocumentsAssumption DEF Init
  <2>2. OwnChoicesKept /\ RecordsItsChanges
    BY DEF Init, OwnChoicesKept, RecordsItsChanges, RecordedRight, Has
  <2>3. MutatedIsHardened
    BY DEF Init, MutatedIsHardened, Nothing
  <2>4. InTurn /\ ErrorsAreReal /\ Untouched
    BY DEF Init, InTurn, ErrorsAreReal, Untouched
  <2>. QED  BY <2>1, <2>2, <2>3, <2>4 DEF CInv
<1>2. IInv /\ CInv /\ [Next]_vars => CInv'
  <2> SUFFICES ASSUME IInv, CInv, [Next]_vars
               PROVE  CInv'
    OBVIOUS
  <2>. TypeOK
    BY DEF IInv
  <2>1. CASE Create
    <3>1. stage = "idle" /\ Call("mutating") /\ UNCHANGED <<submitted, object, mutated>>
      BY <2>1 DEF Create, Request
    <3>2. "mutating" # "refused" /\ "mutating" # "idle"
      OBVIOUS
    <3>. QED  BY <3>1, <3>2, CallOrEnd
  <2>2. CASE Rewrite
    BY <2>2, RewriteHolds
  <2>3. CASE Edit
    BY <2>3, EditHolds
  <2>4. CASE Unanswered
    BY <2>4, ProceedHolds DEF Unanswered
  <2>5. CASE Receive
    BY <2>5, ReceiveHolds
  <2>6. CASE GetNamespace
    BY <2>6, GetNamespaceHolds
  <2>7. CASE GetNamespaceFails
    BY <2>7, GetNamespaceFailsHolds
  <2>8. CASE Decide
    BY <2>8, DecideHolds
  <2>9. CASE Take
    BY <2>9, TakeHolds
  <2>10. CASE RespondMutating
    BY <2>10, RespondMutatingHolds
  <2>11. CASE RespondValidating
    BY <2>11, RespondValidatingHolds
  <2>12. ASSUME NEW r \in Replicas, UpdateConfig(r)
         PROVE  CInv'
    BY <2>12, SameTurn DEF UpdateConfig, server, handler
  <2>13. ASSUME NEW n \in Namespaces, AnnotateNamespace(n)
         PROVE  CInv'
    BY <2>13, SameTurn DEF AnnotateNamespace, server, handler
  <2>14. CASE UNCHANGED vars
    BY <2>14, SameTurn DEF vars, server, handler
  <2>. QED  BY <2>1, <2>2, <2>3, <2>4, <2>5, <2>6, <2>7, <2>8, <2>9, <2>10,
               <2>11, <2>12, <2>13, <2>14 DEF Next
<1>. QED  BY <1>1, <1>2, Inductive, PTL DEF Spec

(***************************************************************************)
(* All patches that a mutation answers with can be applied to the object,  *)
(* whatever of annotations and security contexts it has, for any number of *)
(* containers: admission_pod.go:119-190, admission_service_account.go.     *)
(***************************************************************************)
THEOREM PatchesAlwaysApply == Spec => []PatchesApply
<1>1. CInv => PatchesApply
  <2>. SUFFICES ASSUME CInv, step = "respond", stage = "mutating"
                PROVE  Patched(object.doc, patches).ok
    BY DEF PatchesApply
  <2>1. PICK next : Patched(object.doc, patches) = [ok |-> TRUE, doc |-> next]
    BY Applies
  <2>. QED  BY <2>1
<1>. QED  BY <1>1, ChangesKept, PTL

(***************************************************************************)
(* A mutated object has what its settings ask for, until a client edits    *)
(* it, also with the patches of two features in one answer.                *)
(***************************************************************************)
THEOREM Hardens == Spec => []MutatedIsHardened
<1>1. CInv => MutatedIsHardened
  BY DEF CInv
<1>. QED  BY <1>1, ChangesKept, PTL

(***************************************************************************)
(* Only a setting that is not the one of the mutation makes validation     *)
(* find an error, however the configs of the two replicas change.          *)
(***************************************************************************)
THEOREM MutationSatisfiesValidation == Spec => []MutatedIsValid
<1>1. CInv => MutatedIsValid
  <2>. SUFFICES ASSUME CInv, NEW f \in errors, mutated[f] = settings[f]
                PROVE  FALSE
    BY DEF MutatedIsValid
  <2>1. settings[f] # None /\ Invalid(f, object, settings[f])
    BY DEF CInv, ErrorsAreReal
  <2>2. f \in Features
    BY <2>1 DEF Invalid, Features
  <2>. QED  BY <2>1, <2>2 DEF CInv, MutatedIsHardened, Meets
<1>. QED  BY <1>1, ChangesKept, PTL

(***************************************************************************)
(* Nothing but a record that a client has put into an object is replaced   *)
(* or removed by a patch, neither where it is nor by a patch above it.     *)
(***************************************************************************)
THEOREM KeepsOwnChoices == Spec => []OwnChoicesKept
<1>1. CInv => OwnChoicesKept
  BY DEF CInv
<1>. QED  BY <1>1, ChangesKept, PTL

(***************************************************************************)
(* With the settings that an object was mutated by there is no patch for   *)
(* it: karydia does not answer its own changes with further ones.          *)
(***************************************************************************)
THEOREM LeavesSettledAlone == Spec => []SettledIsLeftAlone
<1>1. CInv => SettledIsLeftAlone
  <2>. SUFFICES ASSUME CInv, step = "respond", stage = "mutating", settings = mutated
                PROVE  patches = <<>>
    BY DEF SettledIsLeftAlone
  <2>1. PICK next : Working(object, todo, settings, patches, next)
    BY DEF CInv, InTurn
  <2>2. \A f \in Features : settings[f] # None => Holds(f, object, settings[f])
    BY DEF CInv, MutatedIsHardened, Meets, Holds
  <2>. QED  BY <2>1, <2>2 DEF Working
<1>. QED  BY <1>1, ChangesKept, PTL

(***************************************************************************)
(* A record that karydia writes names the setting it has used, also where  *)
(* the client had put another, and where the patches of two features are   *)
(* one; it writes none of a feature that the client had set itself         *)
(* (admission_pod.go:106-142, admission_service_account.go).               *)
(***************************************************************************)
THEOREM RecordsAreOfItsChanges == Spec => []RecordsItsChanges
<1>1. CInv => RecordsItsChanges
  BY DEF CInv
<1>. QED  BY <1>1, ChangesKept, PTL

(***************************************************************************)
(* karydia neither changes nor refuses a pod that has a deletion           *)
(* timestamp, at any of its steps (getPodStatus, admission.go:91).         *)
(***************************************************************************)
THEOREM DeletionProceeds == Spec => DeletionIsNotHeld
<1>1. TypeOK /\ CInv /\ [Next]_vars =>
        [IsTerminating(object) =>
          /\ stage' # "refused"
          /\ object'.doc = object.doc \/ submitted' # submitted]_vars
  <2>. SUFFICES ASSUME TypeOK, CInv, [Next]_vars, IsTerminating(object)
                PROVE  /\ stage' # "refused"
                       /\ object'.doc = object.doc \/ submitted' # submitted
    OBVIOUS
  <2>1. /\ step \notin {"namespace", "decide", "take", "respond"}
        /\ stage # "refused" /\ object.doc = submitted
    BY DEF CInv, InTurn, Untouched
  <2>2. CASE Create \/ Rewrite
    BY <2>2 DEF Create, Rewrite, Request, Call
  <2>3. CASE Edit
    <3>1. object'.doc = submitted'
      BY <2>3, ObjectWith DEF Edit, TypeOK
    <3>. QED  BY <2>1, <2>3, <3>1 DEF Edit, Request, Call
  <2>4. CASE Unanswered \/ Receive
    BY <2>4 DEF Unanswered, Receive, Proceed, Call, End
  <2>5. CASE \/ GetNamespace \/ GetNamespaceFails \/ Decide \/ Take
             \/ RespondMutating \/ RespondValidating
    BY <2>1, <2>5 DEF GetNamespace, GetNamespaceFails, Decide, Take,
                      RespondMutating, RespondValidating
  <2>6. ASSUME NEW r \in Replicas, UpdateConfig(r)
        PROVE  stage' # "refused" /\ object'.doc = object.doc
    BY <2>1, <2>6 DEF UpdateConfig, server
  <2>7. ASSUME NEW n \in Namespaces, AnnotateNamespace(n)
        PROVE  stage' # "refused" /\ object'.doc = object.doc
    BY <2>1, <2>7 DEF AnnotateNamespace, server
  <2>8. CASE UNCHANGED vars
    BY <2>1, <2>8 DEF vars, server
  <2>. QED  BY <2>2, <2>3, <2>4, <2>5, <2>6, <2>7, <2>8 DEF Next
<1>. QED  BY <1>1, Inductive, ChangesKept, PTL DEF IInv, DeletionIsNotHeld, Spec

=============================================================================

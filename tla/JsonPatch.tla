------------------------------- MODULE JsonPatch -------------------------------
(***************************************************************************)
(* JSON objects and the "add" operation of JSON patches, as the library    *)
(* applies them that karydia's tests use and the API server too            *)
(* (vendor/github.com/evanphx/json-patch/patch.go).                        *)
(*                                                                         *)
(* A document is a function from the paths it has to what is there.  With  *)
(* a path it has every prefix of it; <<>> is the document itself.          *)
(***************************************************************************)
EXTENDS SequencesExt

CONSTANT Keys   \* of the members that objects may have

IsDocument(doc) ==
    /\ doc = [path \in DOMAIN doc |-> doc[path]]
    /\ DOMAIN doc \subseteq Seq(Keys)
    /\ <<>> \in DOMAIN doc
    /\ \A path \in DOMAIN doc : \A n \in 0..Len(path) : SubSeq(path, 1, n) \in DOMAIN doc

Has(doc, path) == path \in DOMAIN doc

\* An object without its members, and a value without members.
Braces == [src |-> "", value |-> "{}"]
Plain(v) == [src |-> "", value |-> v]

Scalar(v) == [path \in {<<>>} |-> v]

\* The object with these members.
Object(members) ==
    [path \in {<<>>} \cup {<<key>> : key \in DOMAIN members} |->
        IF path = <<>> THEN Braces ELSE members[path[1]]]

\* The operation that adds a document at a path.
Add(path, value) == [path |-> path, value |-> value]

\* Adding replaces what was there, with everything below.
Added(doc, op) ==
    LET kept == {path \in DOMAIN doc : ~IsPrefix(op.path, path)}
        new == {op.path \o path : path \in DOMAIN op.value}
    IN  [path \in kept \cup new |->
            IF path \in kept
            THEN doc[path]
            ELSE op.value[SubSeq(path, Len(op.path) + 1, Len(path))]]

\* What something is added to has to be there.
CanAdd(doc, op) == Has(doc, Front(op.path))

\* The document without what is at a path.
Without(doc, path) ==
    [q \in {q \in DOMAIN doc : ~IsPrefix(path, q)} |-> doc[q]]

\* One operation of a patch; one that fails ends the patch.
Performed(state, op) ==
    IF state.ok /\ CanAdd(state.doc, op)
    THEN [ok |-> TRUE, doc |-> Added(state.doc, op)]
    ELSE [state EXCEPT !.ok = FALSE]

\* Whether all operations can be applied one after the other, and the result.
Patched(doc, patch) ==
    LET state[i \in 0..Len(patch)] ==
            IF i = 0 THEN [ok |-> TRUE, doc |-> doc]
            ELSE Performed(state[i - 1], patch[i])
    IN  state[Len(patch)]
=============================================================================

------------------------------ MODULE Informers ------------------------------
(***************************************************************************)
(* How an informer of client-go follows one object at the API server, as   *)
(* operators on the stream of the changes that are on their way to it.     *)
(* The API server orders the changes of an object and a watch keeps the    *)
(* order; a watch that breaks is replaced by a new List, which             *)
(* DeltaFIFO.Replace compares with what the informer knows.                *)
(***************************************************************************)
EXTENDS Naturals, Sequences

CONSTANT None        \* the value of an object that does not exist

\* relisted: the change was not watched but found by a new List, so that a
\* deletion is only known as a DeletedFinalStateUnknown.
Events(Objects) == [value : Objects \cup {None}, relisted : BOOLEAN]

Watched(v) == [value |-> v, relisted |-> FALSE]

\* The first `kept' changes had arrived when the watch broke; those after
\* them are known by their result only, and a result that the cache never
\* knew otherwise is none.
Relisted(stream, kept, cached, value) ==
    SubSeq(stream, 1, kept) \o
        IF value = None /\ cached = None
        THEN <<>> ELSE <<[value |-> value, relisted |-> TRUE]>>

\* A listener that is not due for a resync does not hear of what was relisted.
Heard(adds, e) == IF e.relisted THEN {adds, FALSE} ELSE {adds}

=============================================================================

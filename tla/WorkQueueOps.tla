---------------------------- MODULE WorkQueueOps ----------------------------
(***************************************************************************)
(* A rate limited work queue of client-go as a value, whatever the order   *)
(* in which it hands items out.  An item is dirty while it waits for a     *)
(* worker, delayed while AddRateLimited holds it back, and held while a    *)
(* worker processes it; it may be dirty, delayed and held at once.         *)
(***************************************************************************)

CONSTANT None        \* what a worker without an item holds

Queues(Keys, Workers) ==
    [dirty : SUBSET Keys, delayed : SUBSET Keys,
     holding : [Workers -> Keys \cup {None}]]

EmptyQueue(Workers) ==
    [dirty |-> {}, delayed |-> {}, holding |-> [w \in Workers |-> None]]

\* The items being processed.
Processing(q) == {q.holding[w] : w \in DOMAIN q.holding} \ {None}

\* Nothing waits and nobody works.
Drained(q) == q.dirty = {} /\ q.delayed = {} /\ Processing(q) = {}

----------------------------------------------------------------------------
\* A variant of Added that drops the items that are being processed.
AddedIfIdle(q, ks) == [q EXCEPT !.dirty = @ \cup (ks \ Processing(q))]

\* Add of every item of ks, whether or not it is being processed.
Added(q, ks) == [q EXCEPT !.dirty = @ \cup ks]

\* A variant of CanGet that hands out an item that is being processed.
CanGetTwice(q, w, k) == q.holding[w] = None /\ k \in q.dirty

\* Get: an item that is being processed stays in the queue.
CanGet(q, w, k) == q.holding[w] = None /\ k \in q.dirty \ Processing(q)

Got(q, w, k) == [q EXCEPT !.dirty = @ \ {k}, !.holding[w] = k]

\* Done.
Finished(q, w) == [q EXCEPT !.holding[w] = None]

\* AddRateLimited of the item that w holds.
Delayed(q, w) == [q EXCEPT !.delayed = @ \cup {q.holding[w]}]

\* A variant of Returned without AddRateLimited.
ReturnedForGood(q, w, failed) == Finished(q, w)

\* How a worker returns an item: AddRateLimited if it has failed, then Done.
Returned(q, w, failed) == Finished(IF failed THEN Delayed(q, w) ELSE q, w)

\* The delay of k is over: Add.
Fired(q, k) == [q EXCEPT !.delayed = @ \ {k}, !.dirty = @ \cup {k}]

\* ShutDown drops what is delayed; what is dirty is still handed out.
Closed(q) == [q EXCEPT !.delayed = {}]

=============================================================================

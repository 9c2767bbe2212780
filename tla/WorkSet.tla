------------------------------ MODULE WorkSet ------------------------------
(***************************************************************************)
(* What a rate limited work queue of client-go promises to its callers:    *)
(* an item that was added is handed to a worker, to one worker at a time,  *)
(* and an item added while a worker holds it is handed out again after     *)
(* that.  WorkQueue implements it; the reconcilers are specified over the  *)
(* same operators (WorkQueueOps).                                          *)
(***************************************************************************)
EXTENDS WorkQueueOps

CONSTANTS Keys,      \* the items: "namespace" or "namespace/name" strings
          Workers    \* the goroutines that call Get

VARIABLES queue,     \* the items and where they are
          open       \* whether ShutDown has not been called yet

vars == <<queue, open>>

TypeOK == queue \in Queues(Keys, Workers) /\ open \in BOOLEAN

Init == queue = EmptyQueue(Workers) /\ open = TRUE

Add(k) == open /\ queue' = Added(queue, {k}) /\ UNCHANGED open

Get(w, k) == CanGet(queue, w, k) /\ queue' = Got(queue, w, k) /\ UNCHANGED open

Done(w) ==
    /\ queue.holding[w] # None
    /\ queue' = Finished(queue, w)
    /\ UNCHANGED open

\* AddRateLimited, by a worker that still holds the item.
Delay(w) ==
    /\ open
    /\ queue.holding[w] # None
    /\ queue' = Delayed(queue, w)
    /\ UNCHANGED open

Fire(k) ==
    /\ open
    /\ k \in queue.delayed
    /\ queue' = Fired(queue, k)
    /\ UNCHANGED open

ShutDown == open /\ queue' = Closed(queue) /\ open' = FALSE

Next ==
    \/ \E k \in Keys : Add(k) \/ Fire(k)
    \/ \E w \in Workers, k \in Keys : Get(w, k)
    \/ \E w \in Workers : Done(w) \/ Delay(w)
    \/ ShutDown

Spec == Init /\ [][Next]_vars

----------------------------------------------------------------------------
(***************************************************************************)
(* An item is processed by one worker at a time (config_reconciler.go:     *)
(* 46-49, "we ... are never processing the same item simultaneously in     *)
(* two different workers").                                                *)
(***************************************************************************)
OneWorkerPerItem ==
    \A v, w \in Workers :
        v # w /\ queue.holding[v] # None => queue.holding[v] # queue.holding[w]

=============================================================================

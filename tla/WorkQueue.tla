------------------------------ MODULE WorkQueue ------------------------------
(***************************************************************************)
(* The rate limited work queue of client-go (vendor/k8s.io/client-go/util/ *)
(* workqueue) as the reconcilers of karydia use it: informers Add, workers *)
(* Get an item, process it, call AddRateLimited or Forget, and then Done;  *)
(* the waiting loop of the delaying queue adds what was delayed.           *)
(* Every action is a critical section of the queue's mutex, or an          *)
(* operation on the channel between AddAfter and the waiting loop.         *)
(***************************************************************************)
EXTENDS Naturals, Sequences, Functions

CONSTANTS
    None,
    Keys,         \* the items
    Workers,      \* the goroutines that process them
    Capacity,     \* of the channel: 1000
    MaxAdds,      \* bound: how often informers add an item
    MaxFailures   \* bound: how often in a row an item fails

ASSUME NoneIsNoKey == None \notin Keys
ASSUME BoundAssumption ==
    Capacity \in Nat \ {0} /\ MaxAdds \in Nat /\ MaxFailures \in Nat

VARIABLES
    queue,        \* the order in which items are handed out
    dirty,        \* the items that need to be processed
    processing,   \* the items that are being processed
    shuttingDown,
    waitingForAddCh,   \* what AddAfter has sent to the waiting loop
    waiting,      \* the items in the heap of the waiting loop
    stopped,      \* whether stopCh is closed
    failures,     \* of the rate limiter: the failures of each item in a row
    pc, holding,  \* by worker: how far it is with its item, and the item
    adds          \* how often informers have added an item

queueVars == <<queue, dirty, processing, shuttingDown>>
delayVars == <<waitingForAddCh, waiting, stopped>>
vars == <<queueVars, delayVars, failures, pc, holding, adds>>

Labels == {"idle", "processing", "limited", "sending", "done", "ended"}

TypeOK ==
    /\ queue \in Seq(Keys)
    /\ dirty \in SUBSET Keys
    /\ processing \in SUBSET Keys
    /\ shuttingDown \in BOOLEAN
    /\ waitingForAddCh \in Seq(Keys)
    /\ waiting \in SUBSET Keys
    /\ stopped \in BOOLEAN
    /\ failures \in [Keys -> Nat]
    /\ pc \in [Workers -> Labels]
    /\ holding \in [Workers -> Keys \cup {None}]
    /\ adds \in 0..MaxAdds

Init ==
    /\ queue = <<>> /\ dirty = {} /\ processing = {}
    /\ shuttingDown = FALSE
    /\ waitingForAddCh = <<>> /\ waiting = {} /\ stopped = FALSE
    /\ failures = [k \in Keys |-> 0]
    /\ pc = [w \in Workers |-> "idle"]
    /\ holding = [w \in Workers |-> None]
    /\ adds = 0

----------------------------------------------------------------------------
(* The queue.                                                              *)

\* A variant of AddMarked that queues k although it is being processed.
AddAlways(k) ==
    IF shuttingDown \/ k \in dirty
    THEN UNCHANGED <<queue, dirty>>
    ELSE /\ dirty' = dirty \cup {k}
         /\ queue' = Append(queue, k)

\* Add marks k; an item that is being processed is not queued before Done.
AddMarked(k) ==
    IF shuttingDown \/ k \in dirty
    THEN UNCHANGED <<queue, dirty>>
    ELSE /\ dirty' = dirty \cup {k}
         /\ queue' = IF k \in processing THEN queue ELSE Append(queue, k)

Add(k) ==
    /\ adds < MaxAdds
    /\ adds' = adds + 1
    /\ AddMarked(k)
    /\ UNCHANGED <<processing, shuttingDown, delayVars, failures, pc, holding>>

Get(w) ==
    /\ pc[w] = "idle"
    /\ queue # <<>>
    /\ queue' = Tail(queue)
    /\ processing' = processing \cup {Head(queue)}
    /\ dirty' = dirty \ {Head(queue)}
    /\ pc' = [pc EXCEPT ![w] = "processing"]
    /\ holding' = [holding EXCEPT ![w] = Head(queue)]
    /\ UNCHANGED <<shuttingDown, delayVars, failures, adds>>

\* After ShutDown the workers drain the queue, then they end.
GetShutdown(w) ==
    /\ pc[w] = "idle"
    /\ queue = <<>> /\ shuttingDown
    /\ pc' = [pc EXCEPT ![w] = "ended"]
    /\ UNCHANGED <<queueVars, delayVars, failures, holding, adds>>

\* A variant of Requeued that forgets what was marked meanwhile.
RequeuedNever(k) == queue

\* Done queues the item again if it was marked meanwhile.
Requeued(k) == IF k \in dirty THEN Append(queue, k) ELSE queue

Done(w) ==
    /\ pc[w] = "done"
    /\ processing' = processing \ {holding[w]}
    /\ queue' = Requeued(holding[w])
    /\ pc' = [pc EXCEPT ![w] = "idle"]
    /\ holding' = [holding EXCEPT ![w] = None]
    /\ UNCHANGED <<dirty, shuttingDown, delayVars, failures, adds>>

\* ShutDown of the delaying queue shuts the queue, then closes stopCh.
ShutDown ==
    /\ ~shuttingDown
    /\ shuttingDown' = TRUE
    /\ UNCHANGED <<queue, dirty, processing, delayVars, failures, pc, holding, adds>>

CloseStopCh ==
    /\ shuttingDown /\ ~stopped
    /\ stopped' = TRUE
    /\ UNCHANGED <<queueVars, waitingForAddCh, waiting, failures, pc, holding, adds>>

----------------------------------------------------------------------------
(* Failure and success of a worker.                                        *)

\* Variants of Forgotten: one failure less, and none less.
CountedDown(k) == [failures EXCEPT ![k] = @ - 1]
NotForgotten(k) == failures

\* The handler has succeeded.
Forgotten(k) == [failures EXCEPT ![k] = 0]

Forget(w) ==
    /\ pc[w] = "processing"
    /\ failures' = Forgotten(holding[w])
    /\ pc' = [pc EXCEPT ![w] = "done"]
    /\ UNCHANGED <<queueVars, delayVars, holding, adds>>

\* AddRateLimited after an error: the rate limiter counts, and gives a delay
\* that is never zero ...
When(w) ==
    /\ pc[w] = "processing"
    /\ failures[holding[w]] < MaxFailures
    /\ failures' = [failures EXCEPT ![holding[w]] = @ + 1]
    /\ pc' = [pc EXCEPT ![w] = "limited"]
    /\ UNCHANGED <<queueVars, delayVars, holding, adds>>

\* ... AddAfter returns if the queue is shutting down ...
CheckShuttingDown(w) ==
    /\ pc[w] = "limited"
    /\ pc' = [pc EXCEPT ![w] = IF shuttingDown THEN "done" ELSE "sending"]
    /\ UNCHANGED <<queueVars, delayVars, failures, holding, adds>>

\* ... and otherwise blocks until the channel has room or stopCh is closed.
Send(w) ==
    /\ pc[w] = "sending"
    /\ \/ /\ Len(waitingForAddCh) < Capacity
          /\ waitingForAddCh' = Append(waitingForAddCh, holding[w])
       \/ /\ stopped
          /\ UNCHANGED waitingForAddCh
    /\ pc' = [pc EXCEPT ![w] = "done"]
    /\ UNCHANGED <<queueVars, waiting, stopped, failures, holding, adds>>

----------------------------------------------------------------------------
(* The waiting loop, until it sees that the queue is shutting down.        *)

\* A variant of Inserted that loses what was in the heap.
InsertedAlone(k) == {k}

Inserted(k) == waiting \cup {k}

\* The delay is not over: the item goes to the heap, once.
Insert ==
    /\ ~stopped
    /\ waitingForAddCh # <<>>
    /\ waitingForAddCh' = Tail(waitingForAddCh)
    /\ waiting' = Inserted(Head(waitingForAddCh))
    /\ UNCHANGED <<queueVars, stopped, failures, pc, holding, adds>>

\* The delay was over when the item was received.
AddReceived ==
    /\ ~stopped
    /\ waitingForAddCh # <<>>
    /\ waitingForAddCh' = Tail(waitingForAddCh)
    /\ AddMarked(Head(waitingForAddCh))
    /\ UNCHANGED <<processing, shuttingDown, waiting, stopped, failures, pc,
                   holding, adds>>

\* The delay of an item of the heap is over.
AddReady(k) ==
    /\ ~stopped
    /\ k \in waiting
    /\ waiting' = waiting \ {k}
    /\ AddMarked(k)
    /\ UNCHANGED <<processing, shuttingDown, waitingForAddCh, stopped, failures,
                   pc, holding, adds>>

Next ==
    \/ \E k \in Keys : Add(k) \/ AddReady(k)
    \/ \E w \in Workers :
          \/ Get(w) \/ GetShutdown(w) \/ Done(w)
          \/ Forget(w) \/ When(w) \/ CheckShuttingDown(w) \/ Send(w)
    \/ Insert \/ AddReceived
    \/ ShutDown \/ CloseStopCh

Spec == Init /\ [][Next]_vars

\* Workers and the waiting loop run, and a handler returns: with an error or
\* without.  Delays are finite.
Fairness ==
    /\ \A w \in Workers :
          WF_vars(Get(w) \/ Forget(w) \/ CheckShuttingDown(w) \/ Send(w) \/ Done(w))
    /\ WF_vars(Insert \/ AddReceived)
    /\ \A k \in Keys : WF_vars(AddReady(k))

FairSpec == Spec /\ Fairness

----------------------------------------------------------------------------
(* Correctness.                                                            *)

\* The items that are processed are those the workers hold, each held once.
ProcessingIsHeld ==
    /\ processing = {holding[w] : w \in Workers} \ {None}
    /\ \A v, w \in Workers : v # w /\ holding[v] # None => holding[v] # holding[w]
    /\ \A w \in Workers : holding[w] = None <=> pc[w] \in {"idle", "ended"}

(***************************************************************************)
(* queue.go:66-68, "Every element of queue should be in the dirty set and  *)
(* not in the processing set", and the converse, without which an item     *)
(* would be lost: what is dirty and not processed is in the queue, once.   *)
(***************************************************************************)
QueueHoldsWhatIsDue ==
    /\ Range(queue) = dirty \ processing
    /\ IsInjective(queue)

(***************************************************************************)
(* The rate limiter does not track failures for ever (the comment on       *)
(* NewRateLimitingQueue): an item with failures is still on its way        *)
(* through the queue, unless that was shut down.                           *)
(***************************************************************************)
FailuresAreForgotten ==
    ~shuttingDown =>
        \A k \in Keys : failures[k] # 0 =>
            k \in dirty \cup processing \cup waiting \cup Range(waitingForAddCh)

(***************************************************************************)
(* No item starves: what is due is handed to a worker, also after          *)
(* ShutDown, and what was delayed is handed out again unless the queue is  *)
(* shut down.                                                              *)
(***************************************************************************)
DueIsProcessed == \A k \in Keys : k \in dirty ~> k \in processing

DelayedIsProcessed ==
    \A k \in Keys :
        k \in waiting \cup Range(waitingForAddCh) ~> k \in processing \/ shuttingDown

(***************************************************************************)
(* The queue is a WorkSet: the order and the two sets hide in dirty, the   *)
(* channel and the heap in delayed.                                        *)
(***************************************************************************)
Waiting == IF shuttingDown THEN {} ELSE waiting \cup Range(waitingForAddCh)

AbstractQueue == [dirty |-> dirty, delayed |-> Waiting, holding |-> holding]

Abstract == INSTANCE WorkSet WITH queue <- AbstractQueue, open <- ~shuttingDown

ImplementsWorkSet == Abstract!Spec

=============================================================================

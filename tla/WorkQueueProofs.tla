-------------------------- MODULE WorkQueueProofs --------------------------
(***************************************************************************)
(* What holds of the queue for any items, workers and channel capacity,    *)
(* and that it implements WorkSet.                                         *)
(***************************************************************************)
EXTENDS WorkQueue, SequenceTheorems, TLAPS

(* Appending an item to a sequence.                                        *)
LEMMA AppendLemma ==
    ASSUME NEW S, NEW s \in Seq(S), NEW e \in S
    PROVE  /\ Append(s, e) \in Seq(S)
           /\ Range(Append(s, e)) = Range(s) \cup {e}
           /\ IsInjective(s) /\ e \notin Range(s) => IsInjective(Append(s, e))
<1>1. /\ Append(s, e) \in Seq(S)
      /\ Len(Append(s, e)) = Len(s) + 1
      /\ \A i \in 1..Len(s) : Append(s, e)[i] = s[i]
      /\ Append(s, e)[Len(s) + 1] = e
  BY AppendProperties
<1>2. /\ Len(s) \in Nat /\ DOMAIN s = 1..Len(s)
      /\ DOMAIN Append(s, e) = 1..(Len(s) + 1)
  BY <1>1, LenProperties
<1>3. Range(Append(s, e)) = Range(s) \cup {e}
  BY <1>1, <1>2 DEF Range
<1>4. IsInjective(s) /\ e \notin Range(s) => IsInjective(Append(s, e))
  BY <1>1, <1>2 DEF Range, IsInjective
<1>. QED  BY <1>1, <1>3, <1>4

(* Taking the first item from a sequence.                                  *)
LEMMA TailLemma ==
    ASSUME NEW S, NEW s \in Seq(S), s # <<>>
    PROVE  /\ Head(s) \in S
           /\ Tail(s) \in Seq(S)
           /\ Range(s) = Range(Tail(s)) \cup {Head(s)}
           /\ IsInjective(s) => IsInjective(Tail(s)) /\ Head(s) \notin Range(Tail(s))
<1>1. /\ Head(s) \in S
      /\ Tail(s) \in Seq(S)
      /\ Len(Tail(s)) = Len(s) - 1
      /\ \A i \in 1..Len(Tail(s)) : Tail(s)[i] = s[i + 1]
  BY HeadTailProperties
<1>2. /\ Len(s) \in Nat \ {0} /\ DOMAIN s = 1..Len(s)
      /\ DOMAIN Tail(s) = 1..(Len(s) - 1)
  BY <1>1, LenProperties, EmptySeq
<1>3. Head(s) = s[1]
  OBVIOUS
<1>4. Range(s) = Range(Tail(s)) \cup {Head(s)}
  <2>1. Range(s) \subseteq Range(Tail(s)) \cup {Head(s)}
    <3> SUFFICES ASSUME NEW i \in 1..Len(s)
                 PROVE  s[i] \in Range(Tail(s)) \cup {Head(s)}
      BY <1>2 DEF Range
    <3>1. CASE i = 1
      BY <3>1, <1>3
    <3>2. CASE i # 1
      <4>1. i - 1 \in DOMAIN Tail(s) /\ Tail(s)[i - 1] = s[i]
        BY <3>2, <1>1, <1>2
      <4>. QED  BY <4>1 DEF Range
    <3>. QED  BY <3>1, <3>2
  <2>2. Range(Tail(s)) \cup {Head(s)} \subseteq Range(s)
    BY <1>1, <1>2, <1>3 DEF Range
  <2>. QED  BY <2>1, <2>2
<1>5. IsInjective(s) => IsInjective(Tail(s)) /\ Head(s) \notin Range(Tail(s))
  <2> SUFFICES ASSUME IsInjective(s)
               PROVE  IsInjective(Tail(s)) /\ Head(s) \notin Range(Tail(s))
    OBVIOUS
  <2>1. \A i, j \in 1..Len(s) : s[i] = s[j] => i = j
    BY <1>2 DEF IsInjective
  <2>2. \A i \in 1..(Len(s) - 1) : i + 1 \in 1..Len(s) /\ 1 \in 1..Len(s) /\ i + 1 # 1
    BY <1>2
  <2>3. IsInjective(Tail(s))
    BY <2>1, <2>2, <1>1, <1>2 DEF IsInjective
  <2>4. Head(s) \notin Range(Tail(s))
    BY <2>1, <2>2, <1>1, <1>2, <1>3 DEF Range
  <2>. QED  BY <2>3, <2>4
<1>. QED  BY <1>1, <1>4, <1>5

----------------------------------------------------------------------------
(***************************************************************************)
(* The inductive invariant: what is queued can be handed out because       *)
(* nobody holds it, and what is handed out is held once because what is    *)
(* held is not queued.                                                     *)
(***************************************************************************)
Safe == TypeOK /\ ProcessingIsHeld /\ QueueHoldsWhatIsDue

(* Marking an item keeps the queue complete.                               *)
LEMMA AddMarkedLemma ==
    ASSUME TypeOK, QueueHoldsWhatIsDue, NEW k \in Keys,
           AddMarked(k), processing' = processing
    PROVE  /\ queue' \in Seq(Keys) /\ dirty' \in SUBSET Keys
           /\ dirty \subseteq dirty'
           /\ ~shuttingDown => k \in dirty'
           /\ QueueHoldsWhatIsDue'
<1> USE DEF TypeOK, QueueHoldsWhatIsDue
<1>1. CASE UNCHANGED <<queue, dirty>> /\ (shuttingDown \/ k \in dirty)
  BY <1>1
<1>2. CASE k \notin dirty /\ k \in processing
  BY <1>2 DEF AddMarked
<1>3. CASE ~shuttingDown /\ k \notin dirty /\ k \notin processing
  <2>1. queue' = Append(queue, k) /\ dirty' = dirty \cup {k} /\ k \notin Range(queue)
    BY <1>3 DEF AddMarked
  <2>. QED  BY <1>3, <2>1, AppendLemma
<1>. QED  BY <1>1, <1>2, <1>3 DEF AddMarked

(* The item that a worker holds outside the labels "idle" and "ended".     *)
LEMMA HeldLemma ==
    ASSUME TypeOK, ProcessingIsHeld, NEW w \in Workers,
           pc[w] \notin {"idle", "ended"}
    PROVE  /\ holding[w] \in Keys /\ holding[w] \in processing
           /\ \A v \in Workers : v # w => holding[v] # holding[w]
BY DEF TypeOK, ProcessingIsHeld

(* Safe holds at first.                                                    *)
LEMMA SafeInit == Init => Safe
<1> SUFFICES ASSUME Init PROVE Safe
  OBVIOUS
<1> USE DEF Init
<1>1. TypeOK
  <2>1. queue \in Seq(Keys) /\ waitingForAddCh \in Seq(Keys)
    BY EmptySeq
  <2>2. failures \in [Keys -> Nat] /\ pc \in [Workers -> Labels]
        /\ holding \in [Workers -> Keys \cup {None}] /\ adds \in 0..MaxAdds
    BY BoundAssumption DEF Labels
  <2>. QED  BY <2>1, <2>2 DEF TypeOK
<1>2. ProcessingIsHeld
  BY DEF ProcessingIsHeld
<1>3. QueueHoldsWhatIsDue
  BY DEF QueueHoldsWhatIsDue, Range, IsInjective
<1>. QED  BY <1>1, <1>2, <1>3 DEF Safe

(* Steps of a worker that change neither the queue nor what it holds.      *)
LEMMA SafeWorker ==
    ASSUME Safe, NEW w \in Workers,
           Forget(w) \/ When(w) \/ CheckShuttingDown(w) \/ Send(w)
    PROVE  Safe'
<1> USE DEF Safe
<1>1. UNCHANGED queueVars /\ UNCHANGED holding /\ UNCHANGED adds
  BY DEF Forget, When, CheckShuttingDown, Send, queueVars
<1>2. PICK l \in {"limited", "sending", "done"} :
         pc' = [pc EXCEPT ![w] = l] /\ pc[w] \notin {"idle", "ended"}
  BY DEF Forget, When, CheckShuttingDown, Send
<1>3. holding[w] \in Keys
  BY <1>2, HeldLemma
<1>4. failures' \in [Keys -> Nat]
  BY <1>3 DEF TypeOK, Forget, When, CheckShuttingDown, Send, Forgotten
<1>5. waitingForAddCh' \in Seq(Keys) /\ waiting' = waiting /\ stopped' = stopped
  <2>1. CASE Send(w)
    <3>1. Append(waitingForAddCh, holding[w]) \in Seq(Keys)
      BY <1>3, AppendLemma DEF TypeOK
    <3>. QED  BY <2>1, <3>1 DEF TypeOK, Send
  <2>2. CASE Forget(w) \/ When(w) \/ CheckShuttingDown(w)
    BY <2>2 DEF TypeOK, Forget, When, CheckShuttingDown, delayVars
  <2>. QED  BY <2>1, <2>2
<1>6. TypeOK'
  BY <1>1, <1>2, <1>4, <1>5 DEF TypeOK, Labels, queueVars
<1>7. ProcessingIsHeld'
  BY <1>1, <1>2 DEF ProcessingIsHeld, TypeOK, queueVars
<1>8. QueueHoldsWhatIsDue'
  BY <1>1 DEF QueueHoldsWhatIsDue, queueVars, Range, IsInjective
<1>. QED  BY <1>6, <1>7, <1>8

(* Get.                                                                    *)
LEMMA SafeGet ==
    ASSUME Safe, NEW w \in Workers, Get(w)
    PROVE  Safe' /\ Head(queue) \in dirty \ processing
<1> USE DEF Safe
<1> DEFINE k == Head(queue)
<1>1. /\ k \in Keys /\ Tail(queue) \in Seq(Keys)
      /\ Range(queue) = Range(Tail(queue)) \cup {k}
      /\ k \notin Range(Tail(queue)) /\ IsInjective(Tail(queue))
  BY TailLemma DEF Get, TypeOK, QueueHoldsWhatIsDue
<1>2. k \in dirty \ processing
  BY <1>1 DEF QueueHoldsWhatIsDue
<1>3. TypeOK'
  BY <1>1 DEF Get, TypeOK, Labels, delayVars
<1>4. /\ holding' = [holding EXCEPT ![w] = k] /\ holding[w] = None
      /\ \A v \in Workers : holding[v] # k
  BY <1>1, <1>2, NoneIsNoKey DEF Get, TypeOK, ProcessingIsHeld
<1>5. ProcessingIsHeld'
  <2>1. processing' = {holding'[v] : v \in Workers} \ {None}
    BY <1>1, <1>4, NoneIsNoKey DEF Get, TypeOK, ProcessingIsHeld
  <2>2. \A u, v \in Workers : u # v /\ holding'[u] # None => holding'[u] # holding'[v]
    BY <1>1, <1>4 DEF TypeOK, ProcessingIsHeld
  <2>3. \A v \in Workers : holding'[v] = None <=> pc'[v] \in {"idle", "ended"}
    BY <1>1, <1>4, NoneIsNoKey DEF Get, TypeOK, ProcessingIsHeld
  <2>. QED  BY <2>1, <2>2, <2>3 DEF ProcessingIsHeld
<1>6. QueueHoldsWhatIsDue'
  BY <1>1, <1>2 DEF Get, QueueHoldsWhatIsDue
<1>. QED  BY <1>2, <1>3, <1>5, <1>6

(* Done.                                                                   *)
LEMMA SafeDone ==
    ASSUME Safe, NEW w \in Workers, Done(w)
    PROVE  Safe'
<1> USE DEF Safe
<1> DEFINE k == holding[w]
<1>1. /\ k \in Keys /\ k \in processing
      /\ \A v \in Workers : v # w => holding[v] # k
  BY HeldLemma DEF Done
<1>2. queue' \in Seq(Keys) /\ Range(queue') = dirty' \ processing' /\ IsInjective(queue')
  <2>1. dirty' = dirty /\ processing' = processing \ {k} /\ queue' = Requeued(k)
    BY DEF Done
  <2>2. CASE k \in dirty
    <3>1. queue' = Append(queue, k) /\ k \notin Range(queue)
      BY <1>1, <2>1, <2>2 DEF Requeued, QueueHoldsWhatIsDue
    <3>. QED
      BY <1>1, <2>1, <2>2, <3>1, AppendLemma DEF TypeOK, QueueHoldsWhatIsDue
  <2>3. CASE k \notin dirty
    BY <2>1, <2>3 DEF Requeued, TypeOK, QueueHoldsWhatIsDue
  <2>. QED  BY <2>2, <2>3
<1>3. TypeOK'
  BY <1>1, <1>2 DEF Done, TypeOK, Labels, delayVars
<1>4. ProcessingIsHeld'
  <2>1. holding' = [holding EXCEPT ![w] = None] /\ pc' = [pc EXCEPT ![w] = "idle"]
    BY DEF Done
  <2>2. processing' = {holding'[v] : v \in Workers} \ {None}
    BY <1>1, <2>1 DEF Done, TypeOK, ProcessingIsHeld
  <2>3. \A u, v \in Workers : u # v /\ holding'[u] # None => holding'[u] # holding'[v]
    BY <2>1 DEF TypeOK, ProcessingIsHeld
  <2>4. \A v \in Workers : holding'[v] = None <=> pc'[v] \in {"idle", "ended"}
    BY <2>1 DEF TypeOK, ProcessingIsHeld
  <2>. QED  BY <2>2, <2>3, <2>4 DEF ProcessingIsHeld
<1>5. QueueHoldsWhatIsDue'
  BY <1>2 DEF QueueHoldsWhatIsDue
<1>. QED  BY <1>3, <1>4, <1>5

(* Steps of the informers and of the waiting loop.                         *)
LEMMA SafeAdding ==
    ASSUME Safe,
           (\E k \in Keys : Add(k) \/ AddReady(k)) \/ AddReceived
    PROVE  Safe'
<1> USE DEF Safe
<1>1. PICK k \in Keys : AddMarked(k) /\ UNCHANGED processing
  <2>1. waitingForAddCh # <<>> => Head(waitingForAddCh) \in Keys
    BY TailLemma DEF TypeOK
  <2>. QED  BY <2>1 DEF Add, AddReady, AddReceived
<1>2. queue' \in Seq(Keys) /\ dirty' \in SUBSET Keys /\ QueueHoldsWhatIsDue'
  BY <1>1, AddMarkedLemma
<1>3. /\ UNCHANGED <<processing, shuttingDown, stopped, failures, pc, holding>>
      /\ waitingForAddCh' \in Seq(Keys) /\ waiting' \in SUBSET Keys
      /\ adds' \in 0..MaxAdds
  <2>1. CASE \E j \in Keys : Add(j)
    BY <2>1, BoundAssumption DEF TypeOK, Add, delayVars
  <2>2. CASE \E j \in Keys : AddReady(j)
    BY <2>2 DEF TypeOK, AddReady
  <2>3. CASE AddReceived
    BY <2>3, TailLemma DEF TypeOK, AddReceived
  <2>. QED  BY <2>1, <2>2, <2>3
<1>4. TypeOK' /\ ProcessingIsHeld'
  BY <1>2, <1>3 DEF TypeOK, ProcessingIsHeld
<1>. QED  BY <1>2, <1>4

(* Steps that concern neither the order of the items nor a worker.         *)
LEMMA SafeElsewhere ==
    ASSUME Safe, UNCHANGED <<queue, dirty, processing, failures, pc, holding, adds>>,
           shuttingDown' \in BOOLEAN, stopped' \in BOOLEAN,
           waitingForAddCh' \in Seq(Keys), waiting' \in SUBSET Keys
    PROVE  Safe'
<1>1. TypeOK'
  BY DEF Safe, TypeOK
<1>2. ProcessingIsHeld'
  BY DEF Safe, ProcessingIsHeld
<1>3. QueueHoldsWhatIsDue'
  BY DEF Safe, QueueHoldsWhatIsDue
<1>. QED  BY <1>1, <1>2, <1>3 DEF Safe

(* Safe is inductive.                                                      *)
LEMMA SafeNext == Safe /\ [Next]_vars => Safe'
<1> SUFFICES ASSUME Safe, [Next]_vars PROVE Safe'
  OBVIOUS
<1>1. ASSUME NEW w \in Workers, GetShutdown(w)
      PROVE  Safe'
  BY <1>1 DEF Safe, GetShutdown, TypeOK, ProcessingIsHeld, QueueHoldsWhatIsDue,
              Labels, queueVars, delayVars, Range, IsInjective
<1>2. CASE Insert
  <2>1. waitingForAddCh' \in Seq(Keys) /\ waiting' \in SUBSET Keys
    BY <1>2, TailLemma DEF Insert, Inserted, Safe, TypeOK
  <2>. QED
    BY <1>2, <2>1, SafeElsewhere DEF Insert, Safe, TypeOK, queueVars
<1>3. CASE ShutDown \/ CloseStopCh \/ UNCHANGED vars
  BY <1>3, SafeElsewhere
     DEF ShutDown, CloseStopCh, vars, Safe, TypeOK, queueVars, delayVars
<1>. QED
  BY <1>1, <1>2, <1>3, SafeWorker, SafeGet, SafeDone, SafeAdding DEF Next

(* Safe holds in every reachable state.                                    *)
LEMMA SafeAlways == Spec => []Safe
BY SafeInit, SafeNext, PTL DEF Spec

(***************************************************************************)
(* The variables have their types: what is queued, sent or held is an item.*)
(***************************************************************************)
THEOREM TypeCorrect == Spec => []TypeOK
BY SafeAlways, PTL DEF Safe

(***************************************************************************)
(* An item is processed by the one worker that holds it, in every order of *)
(* Add, Get and Done (queue.go:77-80, :165-176).                           *)
(***************************************************************************)
THEOREM ProcessingHeld == Spec => []ProcessingIsHeld
BY SafeAlways, PTL DEF Safe

(***************************************************************************)
(* No item is lost and none is queued twice (queue.go:66-68).              *)
(***************************************************************************)
THEOREM QueueComplete == Spec => []QueueHoldsWhatIsDue
BY SafeAlways, PTL DEF Safe

----------------------------------------------------------------------------
(***************************************************************************)
(* Failures are forgotten.  The invariant says where an item with failures *)
(* is while its worker returns it: the waiting loop may be ahead of Done.  *)
(***************************************************************************)
OnTheWay == dirty \cup waiting \cup Range(waitingForAddCh)

Counted ==
    /\ stopped => shuttingDown
    /\ ~shuttingDown =>
         /\ \A k \in Keys : failures[k] # 0 => k \in processing \/ k \in OnTheWay
         /\ \A w \in Workers :
              pc[w] = "done" => failures[holding[w]] = 0 \/ holding[w] \in OnTheWay

(* Steps that take nothing off its way and count no failure.               *)
LEMMA CountedMonotone ==
    ASSUME Safe, Counted, UNCHANGED <<failures, holding>>,
           stopped' => shuttingDown', shuttingDown => shuttingDown',
           processing \subseteq processing',
           OnTheWay \subseteq OnTheWay',
           \A w \in Workers : pc'[w] = "done" => pc[w] = "done" \/ shuttingDown'
    PROVE  Counted'
<1>1. \A w \in Workers : pc[w] = "done" => holding[w] \in Keys
  BY HeldLemma DEF Safe
<1>2. ASSUME ~shuttingDown', NEW k \in Keys, failures'[k] # 0
      PROVE  k \in processing' \/ k \in OnTheWay'
  BY <1>2 DEF Counted
<1>3. ASSUME ~shuttingDown', NEW w \in Workers, pc'[w] = "done"
      PROVE  failures'[holding'[w]] = 0 \/ holding'[w] \in OnTheWay'
  BY <1>1, <1>3 DEF Counted
<1>. QED  BY <1>2, <1>3 DEF Counted

(* Counted is inductive relative to Safe.                                  *)
LEMMA CountedNext == Safe /\ Counted /\ [Next]_vars => Counted'
<1> SUFFICES ASSUME Safe, Counted, [Next]_vars PROVE Counted'
  OBVIOUS
<1> USE DEF Safe
<1>1. ASSUME NEW w \in Workers, Get(w)
      PROVE  Counted'
  <2> DEFINE h == Head(queue)
  <2>1. h \in dirty \ processing /\ h \in Keys
    BY <1>1, SafeGet DEF TypeOK
  <2>2. processing' = processing \cup {h} /\ dirty' = dirty \ {h}
        /\ UNCHANGED <<failures, shuttingDown, waiting, waitingForAddCh, stopped>>
        /\ pc' = [pc EXCEPT ![w] = "processing"] /\ holding' = [holding EXCEPT ![w] = h]
    BY <1>1 DEF Get, delayVars
  <2>3. OnTheWay \subseteq OnTheWay' \cup {h}
    BY <2>2 DEF OnTheWay
  <2>4. ASSUME ~shuttingDown', NEW v \in Workers, pc'[v] = "done"
        PROVE  failures'[holding'[v]] = 0 \/ holding'[v] \in OnTheWay'
    <3>1. v # w /\ pc[v] = "done" /\ holding'[v] = holding[v]
      BY <2>2, <2>4 DEF TypeOK
    <3>2. holding[v] \in processing /\ holding[v] \in Keys /\ holding[v] # h
      BY <3>1, <2>1, HeldLemma
    <3>. QED  BY <2>2, <2>3, <2>4, <3>1, <3>2 DEF Counted
  <2>. QED  BY <2>1, <2>2, <2>3, <2>4 DEF Counted
<1>2. ASSUME NEW w \in Workers, Done(w)
      PROVE  Counted'
  <2> DEFINE h == holding[w]
  <2>1. h \in Keys /\ pc[w] = "done"
    BY <1>2, HeldLemma DEF Done
  <2>2. processing' = processing \ {h}
        /\ UNCHANGED <<dirty, failures, shuttingDown, waiting, waitingForAddCh, stopped>>
        /\ pc' = [pc EXCEPT ![w] = "idle"] /\ holding' = [holding EXCEPT ![w] = None]
    BY <1>2 DEF Done, delayVars
  <2>3. OnTheWay' = OnTheWay
    BY <2>2 DEF OnTheWay
  <2>4. ~shuttingDown => failures[h] = 0 \/ h \in OnTheWay
    BY <2>1 DEF Counted
  <2>5. ASSUME ~shuttingDown', NEW k \in Keys, failures'[k] # 0
        PROVE  k \in processing' \/ k \in OnTheWay'
    BY <2>2, <2>3, <2>4, <2>5 DEF Counted
  <2>6. ASSUME ~shuttingDown', NEW v \in Workers, pc'[v] = "done"
        PROVE  failures'[holding'[v]] = 0 \/ holding'[v] \in OnTheWay'
    <3>1. v # w /\ pc[v] = "done" /\ holding'[v] = holding[v]
      BY <2>2, <2>6 DEF TypeOK
    <3>. QED  BY <2>2, <2>3, <2>6, <3>1 DEF Counted
  <2>. QED  BY <2>2, <2>5, <2>6 DEF Counted
<1>3. ASSUME NEW w \in Workers, Forget(w) \/ When(w)
      PROVE  Counted'
  <2> DEFINE h == holding[w]
  <2>1. h \in Keys /\ h \in processing /\ \A v \in Workers : v # w => holding[v] # h
    BY <1>3, HeldLemma DEF Forget, When
  <2>2. UNCHANGED <<dirty, processing, shuttingDown, waiting, waitingForAddCh,
                    stopped, holding>>
    BY <1>3 DEF Forget, When, queueVars, delayVars
  <2>3. /\ \A k \in Keys : k # h => failures'[k] = failures[k]
        /\ \A v \in Workers : v # w => pc'[v] = pc[v]
        /\ pc'[w] = "done" => failures'[h] = 0
    BY <1>3, <2>1 DEF Forget, When, Forgotten, TypeOK
  <2>4. OnTheWay' = OnTheWay
    BY <2>2 DEF OnTheWay
  <2>5. ASSUME ~shuttingDown', NEW k \in Keys, failures'[k] # 0
        PROVE  k \in processing' \/ k \in OnTheWay'
    BY <2>1, <2>2, <2>3, <2>4, <2>5 DEF Counted
  <2>6. ASSUME ~shuttingDown', NEW v \in Workers, pc'[v] = "done"
        PROVE  failures'[holding'[v]] = 0 \/ holding'[v] \in OnTheWay'
    <3>1. CASE v = w
      BY <3>1, <2>2, <2>3, <2>6
    <3>2. CASE v # w
      <4>1. pc[v] = "done" /\ holding[v] \in Keys /\ holding[v] # h
        BY <3>2, <2>1, <2>3, <2>6, HeldLemma
      <4>. QED  BY <4>1, <2>2, <2>3, <2>4, <2>6 DEF Counted
    <3>. QED  BY <3>1, <3>2
  <2>. QED  BY <2>2, <2>5, <2>6 DEF Counted
<1>4. ASSUME NEW w \in Workers, Send(w)
      PROVE  Counted'
  <2> DEFINE h == holding[w]
  <2>1. h \in Keys
    BY <1>4, HeldLemma DEF Send
  <2>2. UNCHANGED <<dirty, processing, shuttingDown, waiting, stopped, failures, holding>>
        /\ pc' = [pc EXCEPT ![w] = "done"]
    BY <1>4 DEF Send, queueVars
  <2>3. \/ stopped /\ UNCHANGED waitingForAddCh
        \/ Range(waitingForAddCh') = Range(waitingForAddCh) \cup {h}
    <3>1. Range(Append(waitingForAddCh, h)) = Range(waitingForAddCh) \cup {h}
      BY <2>1, AppendLemma DEF TypeOK
    <3>. QED  BY <1>4, <3>1 DEF Send
  <2>4. OnTheWay \subseteq OnTheWay'
    BY <2>2, <2>3 DEF OnTheWay
  <2>5. shuttingDown \/ h \in OnTheWay'
    BY <2>3 DEF Counted, OnTheWay
  <2>6. ASSUME ~shuttingDown', NEW v \in Workers, pc'[v] = "done"
        PROVE  failures'[holding'[v]] = 0 \/ holding'[v] \in OnTheWay'
    <3>1. CASE v = w
      BY <3>1, <2>2, <2>5, <2>6
    <3>2. CASE v # w
      <4>1. pc[v] = "done"
        BY <3>2, <2>2, <2>6 DEF TypeOK
      <4>. QED  BY <4>1, <2>2, <2>4, <2>6 DEF Counted
    <3>. QED  BY <3>1, <3>2
  <2>. QED  BY <2>2, <2>4, <2>6 DEF Counted
<1>5. CASE (\E k \in Keys : Add(k) \/ AddReady(k)) \/ AddReceived
  <2>1. PICK k \in Keys :
           /\ AddMarked(k) /\ UNCHANGED processing
           /\ waiting' \in {waiting, waiting \ {k}}
           /\ \/ UNCHANGED waitingForAddCh
              \/ Range(waitingForAddCh) = Range(waitingForAddCh') \cup {k}
    <3>1. CASE \E k \in Keys : Add(k)
      BY <3>1 DEF Add, delayVars
    <3>2. CASE \E k \in Keys : AddReady(k)
      BY <3>2 DEF AddReady
    <3>3. CASE AddReceived
      BY <3>3, TailLemma DEF AddReceived, TypeOK
    <3>. QED  BY <1>5, <3>1, <3>2, <3>3
  <2>2. dirty \subseteq dirty' /\ (~shuttingDown => k \in dirty')
    BY <2>1, AddMarkedLemma
  <2>3. UNCHANGED <<failures, holding, pc, stopped, shuttingDown>>
    BY <1>5 DEF Add, AddReady, AddReceived, delayVars
  <2>4. ~shuttingDown => OnTheWay \subseteq OnTheWay'
    BY <2>1, <2>2 DEF OnTheWay
  <2>. QED  BY <2>1, <2>3, <2>4, CountedMonotone DEF Counted
<1>6. CASE Insert
  <2>1. Range(waitingForAddCh) = Range(waitingForAddCh') \cup {Head(waitingForAddCh)}
        /\ waiting' = waiting \cup {Head(waitingForAddCh)}
    BY <1>6, TailLemma DEF Insert, Inserted, TypeOK
  <2>2. UNCHANGED <<dirty, processing, shuttingDown, stopped, failures, pc, holding>>
    BY <1>6 DEF Insert, queueVars
  <2>3. OnTheWay \subseteq OnTheWay'
    BY <2>1, <2>2 DEF OnTheWay
  <2>. QED  BY <2>2, <2>3, CountedMonotone DEF Counted
<1>7. CASE \/ \E w \in Workers : GetShutdown(w) \/ CheckShuttingDown(w)
           \/ ShutDown \/ CloseStopCh \/ UNCHANGED vars
  <2>1. /\ UNCHANGED <<dirty, processing, waiting, waitingForAddCh, failures, holding>>
        /\ stopped' => shuttingDown'
        /\ shuttingDown => shuttingDown'
        /\ \A w \in Workers : pc'[w] = "done" => pc[w] = "done" \/ shuttingDown'
    BY <1>7 DEF GetShutdown, CheckShuttingDown, ShutDown, CloseStopCh, vars,
                queueVars, delayVars, Counted, TypeOK
  <2>2. OnTheWay \subseteq OnTheWay'
    BY <2>1 DEF OnTheWay
  <2>. QED  BY <2>1, <2>2, CountedMonotone
<1>. QED  BY <1>1, <1>2, <1>3, <1>4, <1>5, <1>6, <1>7 DEF Next

(***************************************************************************)
(* The rate limiter tracks no item that has left the queue                 *)
(* (rate_limiting_queue.go:35-36), for any number of failures.             *)
(***************************************************************************)
THEOREM FailuresForgotten == Spec => []FailuresAreForgotten
<1>1. Init => Counted
  BY DEF Init, Counted
<1>2. Counted => FailuresAreForgotten
  BY DEF Counted, OnTheWay, FailuresAreForgotten
<1>. QED  BY <1>1, <1>2, CountedNext, SafeAlways, PTL DEF Spec

----------------------------------------------------------------------------
(***************************************************************************)
(* The refinement of WorkSet, step by step.                                *)
(***************************************************************************)

(* The end of a delay, by the components of the queue.                     *)
LEMMA FiredLemma ==
    ASSUME NEW d, NEW l, NEW h, NEW k, NEW q,
           q = [dirty |-> d, delayed |-> l, holding |-> h]
    PROVE  Abstract!Fired(q, k)
              = [dirty |-> d \cup {k}, delayed |-> l \ {k}, holding |-> h]
<1> DEFINE s == [q EXCEPT !.delayed = @ \ {k}]
<1>1. s = [dirty |-> d, delayed |-> l \ {k}, holding |-> h]
  OBVIOUS
<1>2. [s EXCEPT !.dirty = @ \cup {k}]
         = [dirty |-> d \cup {k}, delayed |-> l \ {k}, holding |-> h]
  <2> HIDE DEF s
  <2>. QED  BY <1>1
<1>. QED  BY <1>2 DEF Abstract!Fired

(* Get, by the components of the queue.                                    *)
LEMMA GotLemma ==
    ASSUME NEW d, NEW l, NEW h, NEW k, NEW w, NEW q,
           q = [dirty |-> d, delayed |-> l, holding |-> h]
    PROVE  Abstract!Got(q, w, k)
              = [dirty |-> d \ {k}, delayed |-> l, holding |-> [h EXCEPT ![w] = k]]
<1> DEFINE s == [q EXCEPT !.dirty = @ \ {k}]
<1>1. s = [dirty |-> d \ {k}, delayed |-> l, holding |-> h]
  OBVIOUS
<1>2. [s EXCEPT !.holding[w] = k]
         = [dirty |-> d \ {k}, delayed |-> l, holding |-> [h EXCEPT ![w] = k]]
  <2> HIDE DEF s
  <2>. QED  BY <1>1
<1>. QED  BY <1>2 DEF Abstract!Got

(* Adding, by an informer or by the waiting loop, is an Add, the end of a  *)
(* delay, or nothing if the queue is shut down.                            *)
LEMMA AddingRefines ==
    ASSUME Safe, (\E k \in Keys : Add(k) \/ AddReady(k)) \/ AddReceived
    PROVE  [Abstract!Next]_(Abstract!vars)
<1>1. PICK k \in Keys :
         /\ AddMarked(k)
         /\ \/ Waiting' = Waiting
            \/ k \in Waiting /\ Waiting' = Waiting \ {k}
  <2>1. CASE \E k \in Keys : Add(k)
    BY <2>1 DEF Add, delayVars, Waiting
  <2>2. CASE \E k \in Keys : AddReady(k)
    BY <2>2 DEF AddReady, Waiting
  <2>3. CASE AddReceived
    <3> DEFINE h == Head(waitingForAddCh)
    <3>1. h \in Keys /\ Range(waitingForAddCh) = Range(Tail(waitingForAddCh)) \cup {h}
      BY <2>3, TailLemma DEF AddReceived, Safe, TypeOK
    <3>2. AddMarked(h) /\ UNCHANGED <<shuttingDown, waiting>>
          /\ waitingForAddCh' = Tail(waitingForAddCh)
      BY <2>3 DEF AddReceived
    <3>3. \/ Waiting' = Waiting
          \/ h \in Waiting /\ Waiting' = Waiting \ {h}
      BY <3>1, <3>2 DEF Waiting
    <3>. QED  BY <3>1, <3>2, <3>3
  <2>. QED  BY <2>1, <2>2, <2>3
<1>2. UNCHANGED <<shuttingDown, holding>>
  BY DEF Add, AddReady, AddReceived, delayVars
<1>3. CASE shuttingDown
  BY <1>1, <1>2, <1>3 DEF AddMarked, Waiting, AbstractQueue, Abstract!vars
<1>4. CASE ~shuttingDown
  <2>1. dirty' = dirty \cup {k}
    BY <1>1, <1>4 DEF AddMarked
  <2>2. CASE Waiting' = Waiting
    <3>1. AbstractQueue' = Abstract!Added(AbstractQueue, {k})
      BY <1>2, <2>1, <2>2 DEF AbstractQueue, Abstract!Added
    <3>2. Abstract!Add(k)
      BY <1>2, <1>4, <3>1 DEF Abstract!Add
    <3>. QED  BY <3>2 DEF Abstract!Next
  <2>3. CASE k \in Waiting /\ Waiting' = Waiting \ {k}
    <3>1. AbstractQueue' = Abstract!Fired(AbstractQueue, k) /\ k \in AbstractQueue.delayed
      <4>1. AbstractQueue = [dirty |-> dirty, delayed |-> Waiting, holding |-> holding]
        BY DEF AbstractQueue
      <4>2. Abstract!Fired(AbstractQueue, k)
               = [dirty |-> dirty \cup {k}, delayed |-> Waiting \ {k}, holding |-> holding]
        BY <4>1, FiredLemma
      <4>. QED  BY <1>2, <2>1, <2>3, <4>2 DEF AbstractQueue
    <3>2. Abstract!Fire(k)
      BY <1>2, <1>4, <3>1 DEF Abstract!Fire
    <3>. QED  BY <3>2 DEF Abstract!Next
  <2>. QED  BY <1>1, <2>2, <2>3
<1>. QED  BY <1>3, <1>4

(* Get hands out what WorkSet may hand out.                                *)
LEMMA GetRefines ==
    ASSUME Safe, NEW w \in Workers, Get(w)
    PROVE  Abstract!Next
<1>0. PICK k : k = Head(queue)
  OBVIOUS
<1>1. k \in Keys /\ k \in dirty \ processing
  BY <1>0, SafeGet DEF Safe, TypeOK
<1>2. holding[w] = None /\ processing = {holding[v] : v \in Workers} \ {None}
  BY DEF Safe, ProcessingIsHeld, Get
<1>3. /\ dirty' = dirty \ {k} /\ holding' = [holding EXCEPT ![w] = k]
      /\ Waiting' = Waiting /\ shuttingDown' = shuttingDown
  BY <1>0 DEF Get, delayVars, Waiting
<1>4. Abstract!CanGet(AbstractQueue, w, k)
  BY <1>1, <1>2 DEF Abstract!CanGet, Abstract!Processing, AbstractQueue, Safe, TypeOK
<1>5. AbstractQueue' = Abstract!Got(AbstractQueue, w, k)
  <2>1. AbstractQueue = [dirty |-> dirty, delayed |-> Waiting, holding |-> holding]
    BY DEF AbstractQueue
  <2>2. Abstract!Got(AbstractQueue, w, k)
           = [dirty |-> dirty \ {k}, delayed |-> Waiting,
              holding |-> [holding EXCEPT ![w] = k]]
    BY <2>1, GotLemma
  <2>. QED  BY <1>3, <2>2 DEF AbstractQueue
<1>6. Abstract!Get(w, k)
  BY <1>3, <1>4, <1>5 DEF Abstract!Get
<1>. QED  BY <1>1, <1>6 DEF Abstract!Next

(* Every step of the queue is a step of WorkSet or stutters.               *)
LEMMA NextRefines ==
    ASSUME Safe, Counted, [Next]_vars
    PROVE  [Abstract!Next]_(Abstract!vars)
<1>1. ASSUME NEW w \in Workers, Done(w)
      PROVE  Abstract!Next
  <2>1. holding[w] # None
    BY <1>1 DEF Done, Safe, ProcessingIsHeld
  <2>2. /\ UNCHANGED <<dirty, shuttingDown>> /\ Waiting' = Waiting
        /\ holding' = [holding EXCEPT ![w] = None]
    BY <1>1 DEF Done, delayVars, Waiting
  <2>3. AbstractQueue' = Abstract!Finished(AbstractQueue, w) /\ AbstractQueue.holding = holding
    BY <2>2 DEF AbstractQueue, Abstract!Finished
  <2>4. Abstract!Done(w)
    BY <2>1, <2>2, <2>3 DEF Abstract!Done
  <2>. QED  BY <2>4 DEF Abstract!Next
<1>2. ASSUME NEW w \in Workers, Send(w)
      PROVE  [Abstract!Next]_(Abstract!vars)
  <2>1. holding[w] \in Keys /\ holding[w] # None
    BY <1>2, HeldLemma, NoneIsNoKey DEF Send, Safe
  <2>2. UNCHANGED <<dirty, holding, shuttingDown, waiting>>
    BY <1>2 DEF Send, queueVars
  <2>3. CASE shuttingDown
    BY <2>2, <2>3 DEF Waiting, AbstractQueue, Abstract!vars
  <2>4. CASE ~shuttingDown
    <3>1. Range(Append(waitingForAddCh, holding[w]))
             = Range(waitingForAddCh) \cup {holding[w]}
      BY <2>1, AppendLemma DEF Safe, TypeOK
    <3>2. Waiting' = Waiting \cup {holding[w]}
      BY <1>2, <2>2, <2>4, <3>1 DEF Send, Waiting, Counted
    <3>3. AbstractQueue' = Abstract!Delayed(AbstractQueue, w)
          /\ AbstractQueue.holding = holding
      BY <2>2, <3>2 DEF AbstractQueue, Abstract!Delayed
    <3>4. Abstract!Delay(w)
      BY <2>1, <2>2, <2>4, <3>3 DEF Abstract!Delay
    <3>. QED  BY <3>4 DEF Abstract!Next
  <2>. QED  BY <2>3, <2>4
<1>3. CASE ShutDown
  <2>1. /\ ~shuttingDown /\ shuttingDown' /\ UNCHANGED <<dirty, holding>>
        /\ Waiting' = {}
    BY <1>3 DEF ShutDown, Waiting
  <2>2. AbstractQueue' = Abstract!Closed(AbstractQueue)
    BY <2>1 DEF AbstractQueue, Abstract!Closed
  <2>3. Abstract!ShutDown
    BY <2>1, <2>2 DEF Abstract!ShutDown
  <2>. QED  BY <2>3 DEF Abstract!Next
<1>4. CASE \/ \E w \in Workers : \/ GetShutdown(w) \/ Forget(w) \/ When(w)
                                 \/ CheckShuttingDown(w)
           \/ Insert \/ CloseStopCh \/ UNCHANGED vars
  <2>1. UNCHANGED <<dirty, holding, shuttingDown>>
    BY <1>4 DEF GetShutdown, Forget, When, CheckShuttingDown, Insert, CloseStopCh,
                vars, queueVars
  <2>2. Waiting' = Waiting
    <3>1. CASE Insert
      BY <3>1, TailLemma DEF Insert, Inserted, Safe, TypeOK, queueVars, Waiting
    <3>2. CASE ~Insert
      <4>1. UNCHANGED <<shuttingDown, waiting, waitingForAddCh>>
        BY <1>4, <3>2 DEF GetShutdown, Forget, When, CheckShuttingDown, CloseStopCh,
                          vars, queueVars, delayVars
      <4>. QED  BY <4>1 DEF Waiting
    <3>. QED  BY <3>1, <3>2
  <2>. QED  BY <2>1, <2>2 DEF AbstractQueue, Abstract!vars
<1>. QED  BY <1>1, <1>2, <1>3, <1>4, AddingRefines, GetRefines DEF Next

(***************************************************************************)
(* The queue of client-go, with its order, its two sets, its channel and   *)
(* its heap, does nothing that WorkSet does not allow, for any items,      *)
(* workers, capacity and number of failures.                               *)
(***************************************************************************)
THEOREM Refinement == Spec => ImplementsWorkSet
<1>1. Init => Abstract!Init
  <2> SUFFICES ASSUME Init PROVE Abstract!Init
    OBVIOUS
  <2>1. Waiting = {}
    BY DEF Init, Waiting, Range
  <2>2. AbstractQueue = Abstract!EmptyQueue(Workers)
    BY <2>1 DEF Init, AbstractQueue, Abstract!EmptyQueue
  <2>3. (~shuttingDown) = TRUE
    BY Zenon DEF Init
  <2>. QED  BY <2>2, <2>3, Zenon DEF Abstract!Init
<1>2. Init => Counted
  BY DEF Init, Counted
<1>. QED
  BY <1>1, <1>2, NextRefines, CountedNext, SafeAlways, PTL
     DEF Spec, ImplementsWorkSet, Abstract!Spec

=============================================================================

--------------------------- MODULE WorkSetProofs ---------------------------
(* What holds of the abstract queue, for any items and any workers.        *)
EXTENDS WorkSet, TLAPS

(***************************************************************************)
(* The queue is well formed.                                               *)
(***************************************************************************)
THEOREM TypeCorrect == Spec => []TypeOK
<1>1. Init => TypeOK
  BY DEF Init, TypeOK, Queues, EmptyQueue
<1>2. TypeOK /\ [Next]_vars => TypeOK'
  <2> SUFFICES ASSUME TypeOK, [Next]_vars
               PROVE  TypeOK'
    OBVIOUS
  <2> USE DEF TypeOK, Queues
  <2>1. ASSUME NEW k \in Keys, Add(k)
        PROVE  TypeOK'
    BY <2>1 DEF Add, Added
  <2>2. ASSUME NEW k \in Keys, Fire(k)
        PROVE  TypeOK'
    BY <2>2 DEF Fire, Fired
  <2>3. ASSUME NEW w \in Workers, NEW k \in Keys, Get(w, k)
        PROVE  TypeOK'
    BY <2>3 DEF Get, Got
  <2>4. ASSUME NEW w \in Workers, Done(w)
        PROVE  TypeOK'
    BY <2>4 DEF Done, Finished
  <2>5. ASSUME NEW w \in Workers, Delay(w)
        PROVE  TypeOK'
    BY <2>5 DEF Delay, Delayed
  <2>6. CASE ShutDown
    BY <2>6 DEF ShutDown, Closed
  <2>7. CASE UNCHANGED vars
    BY <2>7 DEF vars
  <2>. QED  BY <2>1, <2>2, <2>3, <2>4, <2>5, <2>6, <2>7 DEF Next
<1>. QED  BY <1>1, <1>2, PTL DEF Spec

(***************************************************************************)
(* No two workers process the same item at once, however items are added   *)
(* and come back: Get of queue.go hands out what is not being processed.   *)
(***************************************************************************)
THEOREM ExclusiveProcessing == Spec => []OneWorkerPerItem
<1>1. Init => OneWorkerPerItem
  BY DEF Init, OneWorkerPerItem, EmptyQueue
<1>2. TypeOK /\ OneWorkerPerItem /\ [Next]_vars => OneWorkerPerItem'
  <2> SUFFICES ASSUME TypeOK, OneWorkerPerItem, [Next]_vars
               PROVE  OneWorkerPerItem'
    OBVIOUS
  <2> USE DEF TypeOK, OneWorkerPerItem, Queues
  <2>1. ASSUME NEW w \in Workers, NEW k \in Keys, Get(w, k)
        PROVE  OneWorkerPerItem'
    <3>1. k # None => \A v \in Workers : queue.holding[v] # k
      BY <2>1 DEF Get, CanGet, Processing
    <3>2. queue'.holding = [queue.holding EXCEPT ![w] = k]
      BY <2>1 DEF Get, Got
    <3>. QED  BY <3>1, <3>2
  <2>2. ASSUME NEW w \in Workers, Done(w)
        PROVE  OneWorkerPerItem'
    BY <2>2 DEF Done, Finished
  <2>3. CASE \/ \E k \in Keys : Add(k) \/ Fire(k)
             \/ \E w \in Workers : Delay(w)
             \/ ShutDown
             \/ UNCHANGED vars
    <3>1. queue'.holding = queue.holding
      BY <2>3 DEF Add, Fire, Delay, ShutDown, Added, Fired, Delayed, Closed, vars
    <3>. QED  BY <3>1
  <2>. QED  BY <2>1, <2>2, <2>3 DEF Next
<1>. QED  BY <1>1, <1>2, TypeCorrect, PTL DEF Spec

=============================================================================

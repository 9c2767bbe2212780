------------------------ MODULE ConfigReconcilerProofs ------------------------
(***************************************************************************)
(* What holds of the config reconciler for any specs, replicas, workers    *)
(* and number of changes: a replica agrees with what it was told of, and   *)
(* never goes back.                                                        *)
(***************************************************************************)
EXTENDS ConfigReconciler, SequenceTheorems, TLAPS

(***************************************************************************)
(* The values that the cache l takes as the stream s arrives.  Each is     *)
(* newer than those before it, except that a List may repeat the last; a   *)
(* deletion is watched only of what is there.                              *)
(***************************************************************************)
At(l, s, i) == IF i = 0 THEN l ELSE s[i].value

Newer(c, d) == c # None /\ d # None => c.version < d.version

Arrives(l, s, i) ==
    /\ \A j \in 0..(i - 1) :
          /\ NotOlder(At(l, s, j), s[i].value)
          /\ ~s[i].relisted => Newer(At(l, s, j), s[i].value)
    /\ ~s[i].relisted /\ s[i].value = None => At(l, s, i - 1) # None

ChainOK(l, s) == \A i \in 1..Len(s) : Arrives(l, s, i)

\* Nothing that is still to come is older than c, or newer than version n.
Follows(c, l, s) == \A i \in 0..Len(s) : NotOlder(c, At(l, s, i))
UpTo(n, l, s) == \A i \in 0..Len(s) : At(l, s, i) # None => At(l, s, i).version <= n

StreamOK(r) ==
    /\ ChainOK(lister[r], stream[r])
    /\ UpTo(version, lister[r], stream[r])
    /\ Follows(config[r], lister[r], stream[r])
    /\ phase[r] = "running" =>
         stored \in {None, At(lister[r], stream[r], Len(stream[r]))}
    /\ phase[r] # "running" => stream[r] = << >> /\ lister[r] = None /\ blind[r]

ServerOK == stored # None => stored.version = version

(* A worker that is not idle holds the item, and one worker does.          *)
HolderOK ==
    /\ \A w \in Workers :
          pc[w] # "idle" => /\ workqueue[Home[w]].holding[w] = Key
                            /\ phase[Home[w]] = "running"
    /\ \A r \in Replicas, v, w \in Workers :
          workqueue[r].holding[v] = Key /\ workqueue[r].holding[w] = Key => v = w

(* What a worker takes over is what the cache held, and no older than      *)
(* what the process has; at "inform" the process has it.                   *)
Taking == {"store", "inform"}

TaskOK(w) ==
    LET c == task[w].config
        r == Home[w]
    IN /\ pc[w] \in Taking =>
            /\ c # None /\ c.version <= version
            /\ NotOlder(config[r], c) /\ Follows(c, lister[r], stream[r])
       /\ pc[w] = "store" => task[w].next = 1
       /\ pc[w] = "inform" => c = config[r]

(* A process that runs has a config, and its controllers have it too,      *)
(* except for those a worker has not come to.                              *)
MemoryOK(r) ==
    /\ phase[r] = "off" <=> config[r] = None
    /\ config[r] # None => config[r].version <= version
    /\ phase[r] = "off" => \A c \in DOMAIN Controllers : controllers[r][c] = None
    /\ phase[r] # "off" => \A c \in DOMAIN Controllers :
         /\ controllers[r][c] # None
         /\ NotOlder(controllers[r][c], config[r])
         /\ \/ controllers[r][c] = config[r]
            \/ \E w \in Workers : Home[w] = r /\ pc[w] = "inform" /\ task[w].next <= c

(***************************************************************************)
(* Why nothing is lost: the item waits or is about to be looked up or      *)
(* tried again, or an event will queue it (or blind the replica), or the   *)
(* process has, or is just taking over, what the cache will end with.      *)
(***************************************************************************)
Busy(r) ==
    \/ Key \in workqueue[r].dirty \cup workqueue[r].delayed
    \/ \E w \in Workers : Home[w] = r /\ pc[w] \in {"lookup", "create", "failed"}

Wakes(l, s) == \E i \in 1..Len(s) : s[i].relisted \/ At(l, s, i - 1) # None

Heading(r, c) ==
    /\ c # None
    /\ \A w \in Workers : Home[w] = r /\ pc[w] \in Taking => task[w].config.spec = c.spec
    /\ \/ config[r].spec = c.spec
       \/ \E w \in Workers : Home[w] = r /\ pc[w] \in Taking

Settled(r) ==
    \/ stream[r] = << >> /\ Heading(r, lister[r])
    \/ lister[r] = None /\ Len(stream[r]) = 1 /\ Heading(r, stream[r][1].value)

Heeded(r) ==
    phase[r] = "running" /\ ~blind[r] =>
        Busy(r) \/ Wakes(lister[r], stream[r]) \/ Settled(r)

Safe ==
    /\ TypeOK /\ ServerOK /\ HolderOK
    /\ \A w \in Workers : TaskOK(w)
    /\ \A r \in Replicas : StreamOK(r) /\ MemoryOK(r)

Inv == Safe /\ \A r \in Replicas : Heeded(r)

----------------------------------------------------------------------------
(* The stream and the cache.                                               *)

Values == ConfigObjects \cup {None}

(* What a value at a place of the chain is.                                *)
LEMMA AtLemma ==
    ASSUME NEW l \in Values, NEW s \in Seq(Events(ConfigObjects)), NEW i \in 0..Len(s)
    PROVE  At(l, s, i) \in Values
<1>1. CASE i = 0
  BY <1>1 DEF At
<1>2. CASE i \in 1..Len(s)
  <2>1. s[i] \in Events(ConfigObjects)
    BY <1>2, ElementOfSeq
  <2>. QED  BY <1>2, <2>1 DEF At, Events, Values
<1>. QED  BY <1>1, <1>2, LenProperties

(* Versions are numbers.                                                   *)
LEMMA VersionLemma == ASSUME NEW c \in Values, c # None PROVE c.version \in Nat
BY DEF Values, ConfigObjects

(* A write that is new to the stream.                                      *)
LEMMA AppendLemma ==
    ASSUME NEW l \in Values, NEW s \in Seq(Events(ConfigObjects)), NEW n \in Nat,
           ChainOK(l, s), UpTo(n, l, s),
           NEW v \in Values, v # None => v.version = n + 1,
           v = None => At(l, s, Len(s)) # None
    PROVE  LET t == Append(s, Watched(v))
           IN /\ t \in Seq(Events(ConfigObjects)) /\ Len(t) = Len(s) + 1
              /\ \A i \in 0..Len(s) : At(l, t, i) = At(l, s, i)
              /\ \A i \in 1..Len(s) : t[i] = s[i]
              /\ At(l, t, Len(t)) = v /\ t[Len(t)] = Watched(v)
              /\ ChainOK(l, t) /\ UpTo(n + 1, l, t)
<1> DEFINE t == Append(s, Watched(v))
<1>1. Watched(v) \in Events(ConfigObjects)
  BY DEF Watched, Events, Values
<1>2. /\ t \in Seq(Events(ConfigObjects)) /\ Len(t) = Len(s) + 1
      /\ \A i \in 1..Len(s) : t[i] = s[i]
      /\ t[Len(s) + 1] = Watched(v)
      /\ Len(s) \in Nat
  BY <1>1, AppendProperties, LenProperties
<1> HIDE DEF t
<1>3. \A i \in 0..Len(s) : At(l, t, i) = At(l, s, i)
  BY <1>2 DEF At
<1>4. At(l, t, Len(t)) = v
  BY <1>2 DEF At, Watched
<1>5. \A i \in 0..Len(s) : At(l, s, i) \in Values
  BY AtLemma
<1>6. ChainOK(l, t)
  <2>1. ASSUME NEW i \in 1..Len(s) PROVE Arrives(l, t, i)
    <3>1. Arrives(l, s, i)
      BY DEF ChainOK
    <3>2. \A j \in 0..(i - 1) : j \in 0..Len(s)
      BY <1>2
    <3>. QED  BY <1>2, <1>3, <3>1, <3>2 DEF Arrives
  <2>2. Arrives(l, t, Len(s) + 1)
    <3>1. ASSUME NEW j \in 0..Len(s) PROVE Newer(At(l, t, j), v) /\ NotOlder(At(l, t, j), v)
      <4>1. At(l, t, j) = At(l, s, j) /\ At(l, s, j) \in Values
        BY <1>3, <1>5
      <4>2. At(l, s, j) # None => At(l, s, j).version <= n /\ At(l, s, j).version \in Nat
        BY <4>1, VersionLemma DEF UpTo
      <4>. QED  BY <4>1, <4>2 DEF Newer, NotOlder
    <3>2. At(l, t, Len(s)) = At(l, s, Len(s))
      BY <1>2, <1>3
    <3>. QED  BY <1>2, <3>1, <3>2 DEF Arrives, Watched
  <2>. QED  BY <1>2, <2>1, <2>2 DEF ChainOK
<1>7. UpTo(n + 1, l, t)
  <2>1. ASSUME NEW i \in 0..Len(s), At(l, t, i) # None PROVE At(l, t, i).version <= n + 1
    <3>1. At(l, t, i) = At(l, s, i) /\ At(l, s, i) \in Values
      BY <1>3, <1>5
    <3>. QED  BY <2>1, <3>1, VersionLemma DEF UpTo
  <2>. QED  BY <1>2, <1>4, <2>1 DEF UpTo
<1>. QED  BY <1>2, <1>3, <1>4, <1>6, <1>7 DEF t

(* What arrives leaves the rest of the chain as it was.                    *)
LEMMA DeliverLemma ==
    ASSUME NEW l \in Values, NEW s \in Seq(Events(ConfigObjects)), s # << >>,
           NEW n \in Nat, ChainOK(l, s), UpTo(n, l, s)
    PROVE  LET h == Head(s).value  t == Tail(s)
           IN /\ Head(s) = s[1] /\ s[1] \in Events(ConfigObjects) /\ h \in Values
              /\ t \in Seq(Events(ConfigObjects)) /\ Len(t) = Len(s) - 1 /\ Len(t) \in Nat
              /\ \A i \in 0..Len(t) : At(h, t, i) = At(l, s, i + 1)
              /\ \A i \in 1..Len(t) : t[i] = s[i + 1]
              /\ ChainOK(h, t) /\ UpTo(n, h, t)
<1> DEFINE h == Head(s).value
           t == Tail(s)
<1>1. /\ Head(s) \in Events(ConfigObjects) /\ Head(s) = s[1]
      /\ t \in Seq(Events(ConfigObjects)) /\ Len(t) = Len(s) - 1
      /\ \A i \in 1..Len(t) : t[i] = s[i + 1]
  BY HeadTailProperties
<1>2. Len(t) \in Nat /\ Len(s) \in Nat /\ h \in Values /\ h = s[1].value
  BY <1>1, LenProperties DEF Events, Values
<1> HIDE DEF h, t
<1>3. \A i \in 0..Len(t) : At(h, t, i) = At(l, s, i + 1)
  BY <1>1, <1>2 DEF At
<1>4. ASSUME NEW i \in 1..Len(t) PROVE Arrives(h, t, i)
  <2>1. Arrives(l, s, i + 1)
    BY <1>1, <1>2 DEF ChainOK
  <2>2. t[i] = s[i + 1]
    BY <1>1
  <2>3. \A j \in 0..(i - 1) : j \in 0..Len(t) /\ j + 1 \in 0..((i + 1) - 1)
    BY <1>2
  <2>4. At(h, t, i - 1) = At(l, s, (i + 1) - 1)
    <3>1. i - 1 \in 0..Len(t) /\ (i - 1) + 1 = (i + 1) - 1
      BY <1>2
    <3>. QED  BY <1>3, <3>1
  <2>5. ASSUME NEW j \in 0..(i - 1)
        PROVE  /\ NotOlder(At(h, t, j), t[i].value)
               /\ ~t[i].relisted => Newer(At(h, t, j), t[i].value)
    BY <1>3, <2>1, <2>2, <2>3 DEF Arrives
  <2>. QED  BY <2>1, <2>2, <2>4, <2>5 DEF Arrives
<1>5. UpTo(n, h, t)
  <2>1. \A i \in 0..Len(t) : i + 1 \in 0..Len(s)
    BY <1>1, <1>2
  <2>. QED  BY <1>3, <2>1 DEF UpTo
<1>. QED  BY <1>1, <1>2, <1>3, <1>4, <1>5 DEF ChainOK, h, t

(* A List: what had arrived, and the result.                               *)
LEMMA RelistLemma ==
    ASSUME NEW l \in Values, NEW s \in Seq(Events(ConfigObjects)), NEW n \in Nat,
           ChainOK(l, s), UpTo(n, l, s), NEW kept \in 0..Len(s),
           NEW v \in Values, v # None => v.version = n
    PROVE  LET t == Relisted(s, kept, l, v)
           IN /\ t \in Seq(Events(ConfigObjects))
              /\ ChainOK(l, t) /\ UpTo(n, l, t)
              /\ v \in {None, At(l, t, Len(t))}
              /\ (v = None /\ l = None) \/ Wakes(l, t)
              /\ \A c \in Values : Follows(c, l, s) /\ (c # None => c.version <= n)
                                      => Follows(c, l, t)
<1> DEFINE k == SubSeq(s, 1, kept)
           e == [value |-> v, relisted |-> TRUE]
           t == Relisted(s, kept, l, v)
<1>1. Len(s) \in Nat /\ kept \in Nat /\ kept <= Len(s) /\ e \in Events(ConfigObjects)
  BY LenProperties DEF Events, Values
<1>2. k \in Seq(Events(ConfigObjects)) /\ Len(k) = kept /\ \A i \in 1..kept : k[i] = s[i]
  <2>1. \A i \in 1..kept : s[i] \in Events(ConfigObjects)
    BY <1>1, ElementOfSeq
  <2>. QED  BY <1>1, <2>1, SubSeqProperties
<1> HIDE DEF k
<1>3. \A i \in 0..kept : At(l, k, i) = At(l, s, i) /\ At(l, s, i) \in Values
  BY <1>1, <1>2, AtLemma DEF At
<1>4. ChainOK(l, k)
  <2>1. ASSUME NEW i \in 1..kept PROVE Arrives(l, k, i)
    <3>1. Arrives(l, s, i)
      BY <1>1 DEF ChainOK
    <3>2. i - 1 \in 0..kept /\ \A j \in 0..(i - 1) : j \in 0..kept
      BY <1>1
    <3>. QED  BY <1>2, <1>3, <3>1, <3>2 DEF Arrives
  <2>. QED  BY <1>2, <2>1 DEF ChainOK
<1>5. UpTo(n, l, k)
  <2>1. \A i \in 0..kept : i \in 0..Len(s)
    BY <1>1
  <2>. QED  BY <1>2, <1>3, <2>1 DEF UpTo
<1>6. ASSUME NEW c \in Values, Follows(c, l, s) PROVE Follows(c, l, k)
  <2>1. \A i \in 0..kept : i \in 0..Len(s)
    BY <1>1
  <2>. QED  BY <1>2, <1>3, <1>6, <2>1 DEF Follows
<1>7. CASE v = None /\ l = None
  <2>1. t = k
    <3>1. t = k \o << >>
      BY <1>7 DEF Relisted, k
    <3>. QED  BY <1>2, <3>1, ConcatEmptySeq
  <2>. QED  BY <1>2, <1>4, <1>5, <1>6, <1>7, <2>1
<1>8. CASE ~(v = None /\ l = None)
  <2>1. t = k \o <<e>>
    BY <1>8 DEF Relisted, k
  <2> HIDE DEF t, e
  <2>2. t = Append(k, e)
    BY <1>1, <1>2, <2>1, AppendIsConcat
  <2>3. /\ t \in Seq(Events(ConfigObjects)) /\ Len(t) = kept + 1
        /\ \A i \in 1..kept : t[i] = k[i]
        /\ t[kept + 1] = e
    BY <1>1, <1>2, <2>2, AppendProperties
  <2>4. e.value = v /\ e.relisted = TRUE
    BY DEF e
  <2>5. \A i \in 0..kept : At(l, t, i) = At(l, k, i)
    BY <1>1, <2>3 DEF At
  <2>6. At(l, t, kept + 1) = v
    BY <1>1, <2>3, <2>4 DEF At
  <2>7. ASSUME NEW j \in 0..kept PROVE NotOlder(At(l, t, j), v)
    <3>1. At(l, t, j) = At(l, k, j) /\ At(l, k, j) \in Values
      BY <1>3, <2>5
    <3>2. At(l, k, j) # None => At(l, k, j).version <= n
      BY <1>2, <1>5 DEF UpTo
    <3>. QED  BY <3>1, <3>2, VersionLemma DEF NotOlder
  <2>8. ChainOK(l, t)
    <3>1. ASSUME NEW i \in 1..kept PROVE Arrives(l, t, i)
      <4>1. Arrives(l, k, i)
        BY <1>2, <1>4 DEF ChainOK
      <4>2. i - 1 \in 0..kept /\ \A j \in 0..(i - 1) : j \in 0..kept
        BY <1>1
      <4>. QED  BY <2>3, <2>5, <4>1, <4>2 DEF Arrives
    <3>2. Arrives(l, t, kept + 1)
      BY <1>1, <2>3, <2>4, <2>7 DEF Arrives
    <3>. QED  BY <1>1, <2>3, <3>1, <3>2 DEF ChainOK
  <2>9. UpTo(n, l, t)
    <3>1. \A i \in 0..kept : At(l, t, i) # None => At(l, t, i).version <= n
      BY <1>2, <1>5, <2>5 DEF UpTo
    <3>. QED  BY <1>1, <2>3, <2>6, <3>1 DEF UpTo
  <2>10. Wakes(l, t)
    BY <1>1, <2>3, <2>4 DEF Wakes
  <2>11. ASSUME NEW c \in Values, Follows(c, l, s), c # None => c.version <= n
         PROVE  Follows(c, l, t)
    <3>1. \A i \in 0..kept : NotOlder(c, At(l, t, i))
      BY <1>2, <1>6, <2>5, <2>11 DEF Follows
    <3>2. NotOlder(c, v)
      BY <2>11 DEF NotOlder
    <3>. QED  BY <1>1, <2>3, <2>6, <3>1, <3>2 DEF Follows
  <2>12. v = At(l, t, Len(t))
    BY <2>3, <2>6
  <2>. QED  BY <2>3, <2>8, <2>9, <2>10, <2>11, <2>12 DEF t
<1>. QED  BY <1>7, <1>8

----------------------------------------------------------------------------
(* Types.                                                                  *)

LEMMA ControllersLemma == DOMAIN Controllers = {1, 2} /\ Len(Controllers) = 2
BY DEF Controllers

LEMMA NoTaskLemma ==
    /\ NoTask \in [config : Values, next : DOMAIN Controllers]
    /\ NoTask.config = None
BY ControllersLemma DEF NoTask, Values

(* The operations of the queue keep its type.                              *)
LEMMA QueueLemma ==
    ASSUME NEW q \in Queues({Key}, Workers)
    PROVE  /\ \A ks \in SUBSET {Key} : Added(q, ks) \in Queues({Key}, Workers)
           /\ \A w \in Workers : Got(q, w, Key) \in Queues({Key}, Workers)
           /\ Fired(q, Key) \in Queues({Key}, Workers)
           /\ \A w \in Workers, failed \in BOOLEAN :
                q.holding[w] = Key => Returned(q, w, failed) \in Queues({Key}, Workers)
BY DEF Queues, Added, Got, Finished, Fired, Delayed, Returned

LEMMA EmptyQueueLemma == EmptyQueue(Workers) \in Queues({Key}, Workers)
BY DEF Queues, EmptyQueue

(* The parts of the type invariant, by who writes them.                    *)
ServerTypeOK == stored \in Values /\ version \in Nat

InformerTypeOK ==
    /\ stream \in [Replicas -> Seq(Events(ConfigObjects))]
    /\ lister \in [Replicas -> Values] /\ blind \in [Replicas -> BOOLEAN]

MemoryTypeOK ==
    /\ config \in [Replicas -> Values]
    /\ controllers \in [Replicas -> [DOMAIN Controllers -> Values]]

WorkerTypeOK ==
    /\ workqueue \in [Replicas -> Queues({Key}, Workers)]
    /\ pc \in [Workers -> Labels]
    /\ task \in [Workers -> [config : Values, next : DOMAIN Controllers]]

CountsOK == changes \in 0..MaxChanges 

LEMMA TypeParts ==
    TypeOK <=> /\ ServerTypeOK /\ InformerTypeOK /\ MemoryTypeOK /\ WorkerTypeOK
               /\ phase \in [Replicas -> Phases] /\ CountsOK
BY DEF TypeOK, ServerTypeOK, InformerTypeOK, MemoryTypeOK, WorkerTypeOK, CountsOK, Values

LEMMA TypePartsNext ==
    ASSUME ServerTypeOK', InformerTypeOK', MemoryTypeOK', WorkerTypeOK',
           phase' \in [Replicas -> Phases], CountsOK'
    PROVE  TypeOK'
BY DEF TypeOK, ServerTypeOK, InformerTypeOK, MemoryTypeOK, WorkerTypeOK, CountsOK, Values

(* A change by another party counts within its bound.                      *)
LEMMA ChangeLemma ==
    ASSUME CountsOK, Change \/ UNCHANGED changes
    PROVE  CountsOK'
BY BoundAssumption DEF CountsOK, Change

----------------------------------------------------------------------------
(* What a write of the API server does to the streams.                     *)
LEMMA WriteLemma ==
    ASSUME Safe, NEW v \in Values, v # None => v.version = version + 1,
           v = None => stored # None,
           Write(v), UNCHANGED <<phase, lister>>
    PROVE  /\ ServerTypeOK' /\ ServerOK' /\ version' = version + 1 /\ stored' = v
           /\ stream' \in [Replicas -> Seq(Events(ConfigObjects))]
           /\ \A r \in Replicas :
                IF phase[r] = "running"
                THEN LET s == stream[r]  t == stream'[r]  l == lister[r]
                     IN /\ Len(s) \in Nat /\ Len(t) = Len(s) + 1
                        /\ \A i \in 0..Len(s) : At(l, t, i) = At(l, s, i)
                        /\ \A i \in 1..Len(s) : t[i] = s[i]
                        /\ At(l, t, Len(t)) = v /\ t[Len(t)] = Watched(v)
                        /\ ChainOK(l, t) /\ UpTo(version', l, t)
                ELSE stream'[r] = stream[r]
<1> USE TypeParts DEF Safe
<1>1. stored' = v /\ version' = version + 1 /\ version \in Nat
  BY DEF Write, ServerTypeOK
<1>2. ASSUME NEW r \in Replicas, phase[r] = "running"
      PROVE  LET s == stream[r]  t == stream'[r]  l == lister[r]
             IN /\ t \in Seq(Events(ConfigObjects))
                /\ Len(s) \in Nat /\ Len(t) = Len(s) + 1
                /\ \A i \in 0..Len(s) : At(l, t, i) = At(l, s, i)
                /\ \A i \in 1..Len(s) : t[i] = s[i]
                /\ At(l, t, Len(t)) = v /\ t[Len(t)] = Watched(v)
                /\ ChainOK(l, t) /\ UpTo(version + 1, l, t)
  <2>1. stream'[r] = Append(stream[r], Watched(v))
    BY <1>2 DEF Write, InformerTypeOK
  <2>2. lister[r] \in Values /\ stream[r] \in Seq(Events(ConfigObjects))
    BY DEF InformerTypeOK
  <2>3. ChainOK(lister[r], stream[r]) /\ UpTo(version, lister[r], stream[r])
    BY DEF StreamOK
  <2>4. v = None => At(lister[r], stream[r], Len(stream[r])) # None
    BY <1>2 DEF StreamOK
  <2>5. Len(stream[r]) \in Nat
    BY <2>2, LenProperties
  <2>. QED  BY <1>1, <2>1, <2>2, <2>3, <2>4, <2>5, AppendLemma
<1>3. ASSUME NEW r \in Replicas, phase[r] # "running" PROVE stream'[r] = stream[r]
  BY <1>3 DEF Write, InformerTypeOK
<1>4. stream' \in [Replicas -> Seq(Events(ConfigObjects))]
  <2>1. \A r \in Replicas : stream'[r] \in Seq(Events(ConfigObjects))
    BY <1>2, <1>3 DEF InformerTypeOK
  <2>. QED  BY <2>1 DEF Write
<1>5. ServerTypeOK' /\ ServerOK'
  BY <1>1 DEF ServerTypeOK, ServerOK
<1>. QED  BY <1>1, <1>2, <1>3, <1>4, <1>5

(* What follows the chain still does after a write.                        *)
LEMMA WriteFollows ==
    ASSUME Safe, NEW v \in Values, v # None => v.version = version + 1,
           v = None => stored # None, Write(v), UNCHANGED <<phase, lister>>,
           NEW r \in Replicas, NEW c \in Values, c # None => c.version <= version,
           Follows(c, lister[r], stream[r])
    PROVE  Follows(c, lister'[r], stream'[r])
<1> DEFINE s == stream[r]
           t == stream'[r]
           l == lister[r]
<1>1. CASE phase[r] = "running"
  <2>1. /\ Len(s) \in Nat /\ Len(t) = Len(s) + 1 /\ At(l, t, Len(t)) = v
        /\ \A i \in 0..Len(s) : At(l, t, i) = At(l, s, i)
    BY <1>1, WriteLemma
  <2>2. NotOlder(c, v)
    BY VersionLemma, TypeParts DEF NotOlder, Safe, ServerTypeOK
  <2>. QED  BY <2>1, <2>2 DEF Follows
<1>2. CASE phase[r] # "running"
  BY <1>2, WriteLemma
<1>. QED  BY <1>1, <1>2

----------------------------------------------------------------------------
(* Safe: what the steps keep whether or not anything is lost.              *)

LEMMA SafeInit == Init => Safe
<1> SUFFICES ASSUME Init PROVE Safe
  OBVIOUS
<1> USE DEF Init
<1>1. TypeOK
  <2>1. << >> \in Seq(Events(ConfigObjects))
    BY EmptySeq
  <2>2. stored \in Values
    BY DEF Values, ConfigObjects
  <2>. QED
    BY <2>1, <2>2, TypeParts, NoTaskLemma, EmptyQueueLemma, BoundAssumption
    DEF ServerTypeOK, InformerTypeOK, MemoryTypeOK, WorkerTypeOK, CountsOK, Phases, Labels,
        Untold, Values
<1>2. ServerOK
  BY DEF ServerOK
<1>3. HolderOK
  BY NoneAssumption DEF HolderOK, EmptyQueue
<1>4. \A w \in Workers : TaskOK(w)
  BY DEF TaskOK, Taking
<1>5. ASSUME NEW r \in Replicas PROVE StreamOK(r) /\ MemoryOK(r)
  <2>1. Len(stream[r]) = 0 /\ lister[r] = None /\ config[r] = None
    BY EmptySeq
  <2>2. At(lister[r], stream[r], 0) = None
    BY <2>1 DEF At
  <2>. QED
    BY <2>1, <2>2, ControllersLemma
    DEF StreamOK, MemoryOK, ChainOK, UpTo, Follows, NotOlder, Untold
<1>. QED  BY <1>1, <1>2, <1>3, <1>4, <1>5 DEF Safe

(* A write keeps the streams in order for configs and tasks.               *)
LEMMA SafeWrite ==
    ASSUME Safe, NEW v \in Values, v # None => v.version = version + 1,
           v = None => stored # None,
           Write(v), UNCHANGED <<phase, lister, blind, memory>>
    PROVE  /\ ServerTypeOK' /\ ServerOK' /\ InformerTypeOK' /\ MemoryTypeOK'
           /\ phase' \in [Replicas -> Phases]
           /\ \A r \in Replicas : StreamOK(r)'
           /\ \A w \in Workers : UNCHANGED <<pc[w], task[w]>> => TaskOK(w)'
<1> USE TypeParts DEF Safe, memory
<1>1. /\ ServerTypeOK' /\ ServerOK' /\ version' = version + 1 /\ version \in Nat
      /\ stream' \in [Replicas -> Seq(Events(ConfigObjects))] /\ stored' = v
  BY WriteLemma DEF ServerTypeOK
<1>2. ASSUME NEW r \in Replicas PROVE StreamOK(r)'
  <2>1. config[r] \in Values /\ (config[r] # None => config[r].version <= version)
    BY DEF MemoryTypeOK, MemoryOK
  <2>2. Follows(config[r], lister[r], stream[r])
    BY DEF StreamOK
  <2>3. Follows(config[r], lister'[r], stream'[r])
    BY <2>1, <2>2, WriteFollows
  <2>4. CASE phase[r] = "running"
    BY <1>1, <2>3, <2>4, WriteLemma DEF StreamOK
  <2>5. CASE phase[r] # "running"
    <3>1. stream'[r] = stream[r]
      BY <2>5, WriteLemma
    <3>2. Len(stream[r]) = 0 /\ lister[r] = None /\ stream[r] = << >> /\ blind[r]
      BY <2>5, EmptySeq DEF StreamOK
    <3>3. At(lister[r], stream[r], 0) = None
      BY <3>2 DEF At
    <3>. QED  BY <2>3, <2>5, <3>1, <3>2, <3>3 DEF StreamOK, ChainOK, UpTo
  <2>. QED  BY <2>4, <2>5
<1>3. ASSUME NEW w \in Workers, UNCHANGED <<pc[w], task[w]>> PROVE TaskOK(w)'
  <2> DEFINE c == task[w].config
             r == Home[w]
  <2>1. r \in Replicas /\ c \in Values
    BY WorkerAssumption DEF WorkerTypeOK
  <2>2. TaskOK(w)
    OBVIOUS
  <2>3. CASE pc[w] \in Taking
    <3>1. c # None /\ c.version <= version /\ c.version \in Nat
      BY <2>1, <2>2, <2>3, VersionLemma DEF TaskOK
    <3>2. Follows(c, lister'[r], stream'[r])
      BY <2>1, <2>2, <2>3, <3>1, WriteFollows DEF TaskOK
    <3>. QED  BY <1>1, <1>3, <2>2, <2>3, <3>1, <3>2 DEF TaskOK
  <2>4. CASE pc[w] \notin Taking
    BY <1>3, <2>4 DEF TaskOK, Taking
  <2>. QED  BY <2>3, <2>4
<1>. QED
  BY <1>1, <1>2, <1>3 DEF InformerTypeOK, MemoryTypeOK

(* The memory of the processes does not change with the version.           *)
LEMMA MemoryKept ==
    ASSUME Safe, version' \in {version, version + 1}, UNCHANGED <<phase, memory>>,
           NEW r \in Replicas,
           \A w \in Workers : Home[w] = r /\ pc[w] = "inform" =>
                UNCHANGED <<pc[w], task[w]>>
    PROVE  MemoryOK(r)'
<1>1. MemoryOK(r) /\ version \in Nat /\ config[r] \in Values
  BY TypeParts DEF Safe, ServerTypeOK, MemoryTypeOK
<1>2. config[r] # None => config[r].version \in Nat
  BY <1>1, VersionLemma
<1>3. config[r] # None => config[r].version <= version'
  BY <1>1, <1>2 DEF MemoryOK
<1>4. ASSUME NEW c \in DOMAIN Controllers, phase[r] # "off"
      PROVE  \/ controllers[r][c] = config[r]
             \/ \E w \in Workers : Home[w] = r /\ pc'[w] = "inform" /\ task'[w].next <= c
  BY <1>1, <1>4 DEF MemoryOK
<1>. QED  BY <1>1, <1>3, <1>4 DEF MemoryOK, memory

(* Other parties.                                                          *)
LEMMA SafeOthers ==
    ASSUME Safe, NEW v \in Values, v # None => v.version = version + 1,
           v = None => stored # None, Write(v), Change,
           UNCHANGED <<phase, lister, blind, memory, workqueue, pc, task>>
    PROVE  Safe'
<1>1. CountsOK' /\ WorkerTypeOK'
  BY ChangeLemma, TypeParts DEF Safe, WorkerTypeOK
<1>2. /\ ServerTypeOK' /\ ServerOK' /\ InformerTypeOK' /\ MemoryTypeOK'
      /\ phase' \in [Replicas -> Phases]
      /\ \A r \in Replicas : StreamOK(r)'
      /\ \A w \in Workers : TaskOK(w)'
  BY SafeWrite
<1>3. TypeOK'
  BY <1>1, <1>2, TypePartsNext
<1>4. HolderOK'
  BY DEF Safe, HolderOK
<1>5. \A r \in Replicas : MemoryOK(r)'
  BY MemoryKept DEF Write
<1>. QED  BY <1>2, <1>3, <1>4, <1>5 DEF Safe

(* A watch breaks.                                                         *)
LEMMA SafeBreak ==
    ASSUME Safe, NEW r \in Replicas, NEW kept \in 0..Len(stream[r]), BreakWatch(r, kept)
    PROVE  /\ Safe'
           /\ stream'[r] = Relisted(stream[r], kept, lister[r], stored)
           /\ \/ stored = None /\ lister[r] = None /\ blind'[r]
              \/ Wakes(lister[r], stream'[r])
<1> DEFINE l == lister[r]
           s == stream[r]
           t == Relisted(s, kept, l, stored)
<1> USE DEF BreakWatch, server, memory, KarydiaConfigsList
<1>1. /\ l \in Values /\ s \in Seq(Events(ConfigObjects)) /\ version \in Nat
      /\ stored \in Values /\ (stored # None => stored.version = version)
      /\ ChainOK(l, s) /\ UpTo(version, l, s)
  BY TypeParts DEF Safe, ServerOK, ServerTypeOK, InformerTypeOK, StreamOK
<1>2. stream' = [stream EXCEPT ![r] = t] /\ stream'[r] = t
  BY TypeParts DEF Safe, InformerTypeOK
<1>3. /\ t \in Seq(Events(ConfigObjects))
      /\ ChainOK(l, t) /\ UpTo(version, l, t)
      /\ stored \in {None, At(l, t, Len(t))}
      /\ (stored = None /\ l = None) \/ Wakes(l, t)
      /\ \A c \in Values : Follows(c, l, s) /\ (c # None => c.version <= version)
                              => Follows(c, l, t)
  BY <1>1, RelistLemma
<1> HIDE DEF t
<1>4. phase[r] = "running"
  <2>1. s # << >>
    BY <1>1, EmptySeq, LenProperties
  <2>. QED  BY <2>1 DEF Safe, StreamOK
<1>5. TypeOK'
  <2>1. InformerTypeOK'
    BY <1>2, <1>3, TypeParts DEF Safe, InformerTypeOK
  <2>2. CountsOK'
    BY ChangeLemma, TypeParts DEF Safe
  <2>3. ServerTypeOK' /\ MemoryTypeOK' /\ WorkerTypeOK' /\ phase' \in [Replicas -> Phases]
    BY TypeParts DEF Safe, ServerTypeOK, MemoryTypeOK, WorkerTypeOK
  <2>. QED  BY <2>1, <2>2, <2>3, TypePartsNext
<1>6. ServerOK' /\ HolderOK'
  BY DEF Safe, ServerOK, HolderOK
<1>7. ASSUME NEW q \in Replicas PROVE StreamOK(q)'
  <2>1. CASE q # r
    BY <1>2, <2>1, TypeParts DEF Safe, InformerTypeOK, StreamOK
  <2>2. CASE q = r
    <3>1. Follows(config[r], l, t)
      BY <1>3, TypeParts DEF Safe, MemoryTypeOK, MemoryOK, StreamOK
    <3>. QED  BY <1>2, <1>3, <1>4, <2>2, <3>1 DEF StreamOK
  <2>. QED  BY <2>1, <2>2
<1>8. ASSUME NEW w \in Workers PROVE TaskOK(w)'
  <2>1. TaskOK(w) /\ Home[w] \in Replicas /\ task[w].config \in Values
    BY TypeParts, WorkerAssumption DEF Safe, WorkerTypeOK
  <2>2. pc[w] \in Taking => Follows(task[w].config, lister'[Home[w]], stream'[Home[w]])
    BY <1>2, <1>3, <2>1, TypeParts DEF TaskOK, Safe, InformerTypeOK
  <2>. QED  BY <2>1, <2>2 DEF TaskOK
<1>9. \A q \in Replicas : MemoryOK(q)'
  BY MemoryKept DEF Safe
<1>10. stored = None /\ l = None => blind'[r]
  BY TypeParts DEF Safe, InformerTypeOK
<1>11. Safe'
  BY <1>5, <1>6, <1>7, <1>8, <1>9 DEF Safe
<1>12. (stored = None /\ l = None /\ blind'[r]) \/ Wakes(l, stream'[r])
  BY <1>2, <1>3, <1>10
<1> HIDE DEF BreakWatch
<1>. QED  BY <1>2, <1>11, <1>12 DEF t

(* The start of a process.                                                 *)
LEMMA SafeLoad == ASSUME Safe, NEW r \in Replicas, Load(r) PROVE Safe'
<1> USE TypeParts DEF Safe, Load, server, informer, KarydiaConfigsGet
<1>1. /\ stored \in Values /\ stored # None /\ version \in Nat
      /\ stored.version = version /\ stored.version \in Nat
  BY VersionLemma DEF ServerTypeOK, ServerOK
<1>2. /\ config' = [config EXCEPT ![r] = stored] /\ phase' = [phase EXCEPT ![r] = "loaded"]
      /\ config'[r] = stored /\ phase'[r] = "loaded"
      /\ \A c \in DOMAIN Controllers : controllers'[r][c] = stored
  BY DEF MemoryTypeOK
<1>3. TypeOK'
  <2>1. MemoryTypeOK' /\ phase' \in [Replicas -> Phases]
    BY <1>1 DEF MemoryTypeOK, Phases
  <2>2. ServerTypeOK' /\ InformerTypeOK' /\ WorkerTypeOK' /\ CountsOK'
    BY DEF ServerTypeOK, InformerTypeOK, WorkerTypeOK, CountsOK
  <2>. QED  BY <2>1, <2>2, TypePartsNext
<1>4. \A w \in Workers : Home[w] = r => pc[w] = "idle"
  BY DEF HolderOK
<1>5. ServerOK' /\ HolderOK'
  BY <1>2, <1>4 DEF ServerOK, HolderOK
<1>6. \A w \in Workers : TaskOK(w)'
  BY <1>2, <1>4, WorkerAssumption DEF TaskOK, Taking, MemoryTypeOK
<1>7. ASSUME NEW q \in Replicas PROVE StreamOK(q)' /\ MemoryOK(q)'
  <2>1. CASE q # r
    <3>1. UNCHANGED <<config[q], controllers[q], phase[q]>>
      BY <2>1 DEF MemoryTypeOK
    <3>. QED  BY <3>1 DEF StreamOK, MemoryOK
  <2>2. CASE q = r
    <3>1. stream[r] = << >> /\ lister[r] = None /\ Len(stream[r]) = 0
      BY EmptySeq DEF StreamOK
    <3>2. Follows(stored, lister[r], stream[r])
      BY <3>1 DEF Follows, At, NotOlder
    <3>3. StreamOK(r)'
      BY <1>2, <3>2 DEF StreamOK
    <3>4. MemoryOK(r)'
      BY <1>1, <1>2 DEF MemoryOK, NotOlder
    <3>. QED  BY <2>2, <3>3, <3>4
  <2>. QED  BY <2>1, <2>2
<1>. QED  BY <1>3, <1>5, <1>6, <1>7

(* The first List.                                                         *)
LEMMA SafeRun == ASSUME Safe, NEW r \in Replicas, Run(r) PROVE Safe' /\ blind'[r]
<1> USE TypeParts DEF Safe, Run, server, memory, KarydiaConfigsList
<1>1. /\ stored \in Values /\ version \in Nat
      /\ (stored # None => stored.version = version)
  BY DEF ServerTypeOK, ServerOK
<1>2. /\ lister' = [lister EXCEPT ![r] = stored] /\ phase' = [phase EXCEPT ![r] = "running"]
      /\ lister'[r] = stored /\ phase'[r] = "running"
  BY DEF InformerTypeOK
<1>3. TypeOK'
  <2>1. InformerTypeOK' /\ phase' \in [Replicas -> Phases]
    BY <1>1 DEF InformerTypeOK, Phases
  <2>2. ServerTypeOK' /\ MemoryTypeOK' /\ WorkerTypeOK' /\ CountsOK'
    BY DEF ServerTypeOK, MemoryTypeOK, WorkerTypeOK, CountsOK
  <2>. QED  BY <2>1, <2>2, TypePartsNext
<1>4. \A w \in Workers : Home[w] = r => pc[w] = "idle"
  BY DEF HolderOK
<1>5. ServerOK' /\ HolderOK'
  BY <1>2, <1>4 DEF ServerOK, HolderOK
<1>6. \A w \in Workers : TaskOK(w)'
  BY <1>2, <1>4, WorkerAssumption DEF TaskOK, Taking, InformerTypeOK
<1>7. ASSUME NEW q \in Replicas PROVE StreamOK(q)'
  <2>1. CASE q # r
    <3>1. UNCHANGED <<lister[q], phase[q]>>
      BY <2>1 DEF InformerTypeOK
    <3>. QED  BY <3>1 DEF StreamOK
  <2>2. CASE q = r
    <3>1. stream[r] = << >> /\ Len(stream[r]) = 0
      BY EmptySeq DEF StreamOK
    <3>2. config[r] \in Values /\ (config[r] # None => config[r].version <= version)
      BY DEF MemoryTypeOK, MemoryOK
    <3>3. At(stored, stream[r], 0) = stored
      BY DEF At
    <3>4. /\ ChainOK(stored, stream[r]) /\ UpTo(version, stored, stream[r])
          /\ Follows(config[r], stored, stream[r])
      BY <1>1, <3>1, <3>2, <3>3 DEF ChainOK, UpTo, Follows, NotOlder
    <3>. QED  BY <1>2, <2>2, <3>1, <3>3, <3>4 DEF StreamOK
  <2>. QED  BY <2>1, <2>2
<1>8. ASSUME NEW q \in Replicas PROVE MemoryOK(q)'
  <2>1. phase[q] = "off" <=> phase'[q] = "off"
    BY <1>2
  <2>. QED  BY <2>1 DEF MemoryOK
<1>. QED  BY <1>3, <1>5, <1>6, <1>7, <1>8 DEF StreamOK

(* The end of a process.                                                   *)
LEMMA SafeCrash == ASSUME Safe, NEW r \in Replicas, Crash(r) PROVE Safe'
<1> USE TypeParts DEF Safe, Crash, server
<1>1. /\ phase'[r] = "off" /\ stream'[r] = << >> /\ lister'[r] = None /\ blind'[r]
      /\ config'[r] = None /\ workqueue'[r] = EmptyQueue(Workers)
      /\ \A c \in DOMAIN Controllers : controllers'[r][c] = None
  BY DEF InformerTypeOK, MemoryTypeOK, WorkerTypeOK, Untold
<1>2. \A q \in Replicas \ {r} :
        UNCHANGED <<phase[q], stream[q], lister[q], blind[q], config[q], controllers[q],
                    workqueue[q]>>
  BY DEF InformerTypeOK, MemoryTypeOK, WorkerTypeOK
<1>3. \A w \in Workers : IF Home[w] = r THEN pc'[w] = "idle" /\ task'[w] = NoTask
                                        ELSE pc'[w] = pc[w] /\ task'[w] = task[w]
  BY DEF WorkerTypeOK
<1>4. TypeOK'
  <2>1. InformerTypeOK' /\ phase' \in [Replicas -> Phases]
    BY EmptySeq DEF InformerTypeOK, Phases, Values
  <2>2. MemoryTypeOK'
    BY DEF MemoryTypeOK, Untold, Values
  <2>3. WorkerTypeOK'
    BY EmptyQueueLemma, NoTaskLemma DEF WorkerTypeOK, Labels
  <2>4. ServerTypeOK' /\ CountsOK'
    BY ChangeLemma DEF ServerTypeOK
  <2>. QED  BY <2>1, <2>2, <2>3, <2>4, TypePartsNext
<1>5. ServerOK'
  BY DEF ServerOK
<1>6. HolderOK'
  BY <1>1, <1>2, <1>3, WorkerAssumption, NoneAssumption DEF HolderOK, EmptyQueue
<1>7. \A w \in Workers : TaskOK(w)'
  BY <1>2, <1>3, WorkerAssumption DEF TaskOK, Taking
<1>8. ASSUME NEW q \in Replicas PROVE StreamOK(q)' /\ MemoryOK(q)'
  <2>1. CASE q # r
    BY <1>2, <1>3, <2>1 DEF StreamOK, MemoryOK
  <2>2. CASE q = r
    <3>1. Len(stream'[r]) = 0
      BY <1>1, EmptySeq
    <3>2. At(lister'[r], stream'[r], 0) = None
      BY <1>1 DEF At
    <3>. QED
      BY <1>1, <2>2, <3>1, <3>2 DEF StreamOK, MemoryOK, ChainOK, UpTo, Follows, NotOlder
  <2>. QED  BY <2>1, <2>2
<1>. QED  BY <1>4, <1>5, <1>6, <1>7, <1>8

(* The holders do not change with what else is in the queues.              *)
LEMMA HolderKept ==
    ASSUME HolderOK, UNCHANGED <<phase, pc>>,
           \A q \in Replicas : workqueue'[q].holding = workqueue[q].holding
    PROVE  HolderOK'
BY WorkerAssumption DEF HolderOK

(* An event arrives.                                                       *)
LEMMA SafeDeliver == ASSUME Safe, NEW r \in Replicas, Deliver(r) PROVE Safe'
<1> DEFINE l == lister[r]
           s == stream[r]
           h == Head(s).value
           t == Tail(s)
<1> USE TypeParts DEF Safe, Deliver, server, memory
<1>1. /\ l \in Values /\ s \in Seq(Events(ConfigObjects)) /\ s # << >> /\ version \in Nat
      /\ ChainOK(l, s) /\ UpTo(version, l, s)
  BY DEF ServerTypeOK, InformerTypeOK, StreamOK
<1>2. /\ h \in Values /\ Head(s) = s[1] /\ s[1] \in Events(ConfigObjects)
      /\ t \in Seq(Events(ConfigObjects)) /\ Len(t) = Len(s) - 1 /\ Len(t) \in Nat
      /\ \A i \in 0..Len(t) : At(h, t, i) = At(l, s, i + 1)
      /\ ChainOK(h, t) /\ UpTo(version, h, t)
  BY <1>1, DeliverLemma
<1>3. /\ lister' = [lister EXCEPT ![r] = h] /\ stream' = [stream EXCEPT ![r] = t]
      /\ lister'[r] = h /\ stream'[r] = t
  BY DEF InformerTypeOK
<1>4. PICK adds \in BOOLEAN :
        /\ workqueue' = [workqueue EXCEPT ![r] = Added(@, {k \in {Key} : adds})]
        /\ blind' = [blind EXCEPT ![r] = IF adds THEN FALSE ELSE @ \/ Head(s).relisted]
  BY DEF Heard, UpdateHandlerAdds, DeleteHandlerAdds
<1> HIDE DEF h, t
<1>5. TypeOK'
  <2>1. InformerTypeOK'
    BY <1>2, <1>3, <1>4 DEF InformerTypeOK, Events
  <2>2. WorkerTypeOK'
    <3>1. Added(workqueue[r], {k \in {Key} : adds}) \in Queues({Key}, Workers)
      BY QueueLemma DEF WorkerTypeOK
    <3>. QED  BY <1>4, <3>1 DEF WorkerTypeOK
  <2>3. ServerTypeOK' /\ MemoryTypeOK' /\ CountsOK' /\ phase' \in [Replicas -> Phases]
    BY DEF ServerTypeOK, MemoryTypeOK, CountsOK
  <2>. QED  BY <2>1, <2>2, <2>3, TypePartsNext
<1>6. ServerOK'
  BY DEF ServerOK
<1>7. HolderOK'
  <2>1. \A q \in Replicas : workqueue'[q].holding = workqueue[q].holding
    BY <1>4 DEF WorkerTypeOK, Added, Queues
  <2>2. UNCHANGED <<phase, pc>>
    OBVIOUS
  <2> HIDE DEF Deliver
  <2>. QED  BY <2>1, <2>2, HolderKept
<1>8. ASSUME NEW c \in Values, Follows(c, l, s) PROVE Follows(c, h, t)
  <2>1. \A i \in 0..Len(t) : i + 1 \in 0..Len(s)
    BY <1>2
  <2>. QED  BY <1>2, <1>8, <2>1 DEF Follows
<1>9. ASSUME NEW w \in Workers PROVE TaskOK(w)'
  <2>1. TaskOK(w) /\ Home[w] \in Replicas /\ task[w].config \in Values
    BY WorkerAssumption DEF WorkerTypeOK
  <2>2. pc[w] \in Taking => Follows(task[w].config, lister'[Home[w]], stream'[Home[w]])
    BY <1>3, <1>8, <2>1 DEF TaskOK, InformerTypeOK
  <2>. QED  BY <2>1, <2>2 DEF TaskOK
<1>10. ASSUME NEW q \in Replicas PROVE StreamOK(q)' /\ MemoryOK(q)'
  <2>1. MemoryOK(q)'
    BY MemoryKept
  <2>2. CASE q # r
    <3>1. UNCHANGED <<lister[q], stream[q], blind[q]>>
      BY <1>3, <1>4, <2>2 DEF InformerTypeOK
    <3>. QED  BY <2>1, <3>1 DEF StreamOK
  <2>3. CASE q = r
    <3>1. phase[r] = "running"
      BY <1>1 DEF StreamOK
    <3>2. Follows(config[r], h, t)
      BY <1>8 DEF MemoryTypeOK, StreamOK
    <3>3. At(h, t, Len(t)) = At(l, s, Len(s))
      <4>1. Len(t) \in 0..Len(t) /\ Len(t) + 1 = Len(s)
        BY <1>1, <1>2, LenProperties
      <4>. QED  BY <1>2, <4>1
    <3>. QED  BY <1>2, <1>3, <2>1, <2>3, <3>1, <3>2, <3>3 DEF StreamOK
  <2>. QED  BY <2>2, <2>3
<1>. QED  BY <1>5, <1>6, <1>7, <1>9, <1>10

(* The queue.                                                              *)
LEMMA SafeFire == ASSUME Safe, NEW r \in Replicas, Fire(r) PROVE Safe'
<1> USE TypeParts DEF Safe, Fire, server, informer, memory
<1>1. WorkerTypeOK' /\ \A q \in Replicas : workqueue'[q].holding = workqueue[q].holding
  <2>1. Fired(workqueue[r], Key) \in Queues({Key}, Workers)
    BY QueueLemma DEF WorkerTypeOK
  <2>. QED  BY <2>1 DEF WorkerTypeOK, Fired, Queues
<1>2. TypeOK'
  BY <1>1, TypePartsNext DEF ServerTypeOK, InformerTypeOK, MemoryTypeOK, CountsOK
<1>3. ServerOK' /\ HolderOK'
  BY <1>1, HolderKept DEF ServerOK
<1>4. \A w \in Workers : TaskOK(w)'
  BY DEF TaskOK
<1>5. ASSUME NEW q \in Replicas PROVE StreamOK(q)' /\ MemoryOK(q)'
  BY MemoryKept DEF StreamOK
<1>. QED  BY <1>2, <1>3, <1>4, <1>5

----------------------------------------------------------------------------
(* The workers.                                                            *)

(* No other worker of the replica has the item.                            *)
LEMMA AloneLemma ==
    ASSUME Safe, NEW w \in Workers, pc[w] # "idle"
    PROVE  /\ Home[w] \in Replicas /\ phase[Home[w]] = "running"
           /\ workqueue[Home[w]].holding[w] = Key
           /\ \A v \in Workers : v # w /\ Home[v] = Home[w] => pc[v] = "idle"
           /\ config[Home[w]] # None /\ config[Home[w]] \in ConfigObjects
           /\ \A c \in DOMAIN Controllers : controllers[Home[w]][c] # None
BY TypeParts, WorkerAssumption DEF Safe, HolderOK, MemoryOK, MemoryTypeOK, Values

(* What a step of one worker writes of the tables of the workers.          *)
LEMMA StepLemma ==
    ASSUME Safe, NEW w \in Workers, NEW l \in Labels,
           NEW t \in [config : Values, next : DOMAIN Controllers], Step(w, l, t)
    PROVE  /\ pc' \in [Workers -> Labels]
           /\ task' \in [Workers -> [config : Values, next : DOMAIN Controllers]]
           /\ pc'[w] = l /\ task'[w] = t
           /\ \A v \in Workers \ {w} : UNCHANGED <<pc[v], task[v]>>
BY TypeParts DEF Safe, WorkerTypeOK, Step

(* A step that leaves server, streams and memory alone.                    *)
LEMMA SafeLocal ==
    ASSUME Safe, NEW w \in Workers, NEW l \in Labels,
           NEW t \in [config : Values, next : DOMAIN Controllers], Step(w, l, t),
           UNCHANGED <<server, phase, informer, memory, changes>>,
           pc[w] # "inform", l # "inform", TaskOK(w)',
           workqueue' \in [Replicas -> Queues({Key}, Workers)], HolderOK'
    PROVE  Safe'
<1> USE TypeParts DEF Safe, server, informer, memory
<1>1. TypeOK'
  <2>1. WorkerTypeOK'
    BY StepLemma DEF WorkerTypeOK
  <2>. QED  BY <2>1, TypePartsNext DEF ServerTypeOK, InformerTypeOK, MemoryTypeOK, CountsOK
<1>2. ServerOK'
  BY DEF ServerOK
<1>3. ASSUME NEW v \in Workers PROVE TaskOK(v)'
  <2>1. CASE v # w
    <3>1. UNCHANGED <<pc[v], task[v], config, lister, stream, version>>
      BY <2>1, StepLemma
    <3>2. TaskOK(v)
      OBVIOUS
    <3>. QED  BY <3>1, <3>2 DEF TaskOK
  <2>. QED  BY <2>1
<1>4. ASSUME NEW q \in Replicas PROVE StreamOK(q)' /\ MemoryOK(q)'
  <2>1. \A v \in Workers : Home[v] = q /\ pc[v] = "inform" => UNCHANGED <<pc[v], task[v]>>
    BY StepLemma
  <2>. QED  BY <2>1, MemoryKept DEF StreamOK
<1>. QED  BY <1>1, <1>2, <1>3, <1>4

LEMMA SafeGet == ASSUME Safe, NEW w \in Workers, GetItem(w) PROVE Safe' /\ pc'[w] = "lookup"
<1> DEFINE r == Home[w]
<1>1. /\ r \in Replicas /\ phase[r] = "running" /\ workqueue[r] \in Queues({Key}, Workers)
      /\ Got(workqueue[r], w, Key) \in Queues({Key}, Workers)
      /\ "lookup" \in Labels /\ NoTask \in [config : Values, next : DOMAIN Controllers]
  BY TypeParts, WorkerAssumption, QueueLemma, NoTaskLemma
  DEF Safe, WorkerTypeOK, GetItem, Labels
<1>2. workqueue' \in [Replicas -> Queues({Key}, Workers)]
  BY <1>1, TypeParts DEF Safe, WorkerTypeOK, GetItem
<1>3. pc'[w] = "lookup" /\ \A v \in Workers \ {w} : pc'[v] = pc[v]
  BY <1>1, StepLemma DEF GetItem
<1>4. HolderOK'
  <2>1. \A v \in Workers : workqueue[r].holding[v] # Key
    BY <1>1, NoneAssumption DEF GetItem, CanGet, Processing, Queues
  <2>2. /\ workqueue'[r].holding = [workqueue[r].holding EXCEPT ![w] = Key]
        /\ \A q \in Replicas \ {r} : workqueue'[q] = workqueue[q]
    BY <1>1, TypeParts DEF Safe, WorkerTypeOK, GetItem, Got, Queues
  <2>3. /\ workqueue'[r].holding[w] = Key
        /\ \A v \in Workers \ {w} : workqueue'[r].holding[v] = workqueue[r].holding[v]
    BY <1>1, <2>2 DEF Queues
  <2>4. phase' = phase
    BY DEF GetItem
  <2>5. ASSUME NEW v \in Workers, pc'[v] # "idle"
        PROVE  workqueue'[Home[v]].holding[v] = Key /\ phase'[Home[v]] = "running"
    <3>1. CASE v = w
      BY <1>1, <2>3, <2>4, <3>1
    <3>2. CASE v # w
      <4>1. /\ Home[v] \in Replicas
            /\ workqueue[Home[v]].holding[v] = Key /\ phase[Home[v]] = "running"
        BY <1>3, <2>5, <3>2, WorkerAssumption DEF Safe, HolderOK
      <4>2. CASE Home[v] = r
        BY <2>3, <2>4, <3>2, <4>1, <4>2
      <4>3. CASE Home[v] # r
        BY <2>2, <2>4, <4>1, <4>3
      <4>. QED  BY <4>2, <4>3
    <3>. QED  BY <3>1, <3>2
  <2>6. ASSUME NEW q \in Replicas, NEW u \in Workers, NEW v \in Workers,
               workqueue'[q].holding[u] = Key, workqueue'[q].holding[v] = Key
        PROVE  u = v
    <3>1. CASE q = r
      BY <2>1, <2>3, <2>6, <3>1
    <3>2. CASE q # r
      BY <2>2, <2>6, <3>2 DEF Safe, HolderOK
    <3>. QED  BY <3>1, <3>2
  <2>. QED  BY <2>5, <2>6 DEF HolderOK
<1>5. TaskOK(w)'
  BY <1>3 DEF TaskOK, Taking
<1>6. pc[w] # "inform"
  BY DEF GetItem
<1>. QED  BY <1>1, <1>2, <1>3, <1>4, <1>5, <1>6, SafeLocal DEF GetItem

LEMMA SafeReturn ==
    ASSUME Safe, NEW w \in Workers, Return(w) PROVE Safe' /\ pc'[w] = "idle"
<1> DEFINE r == Home[w]
           failed == pc[w] = "failed"
<1>1. /\ r \in Replicas /\ workqueue[r].holding[w] = Key
      /\ workqueue[r] \in Queues({Key}, Workers)
      /\ "idle" \in Labels /\ NoTask \in [config : Values, next : DOMAIN Controllers]
  BY AloneLemma, TypeParts, NoTaskLemma DEF Safe, WorkerTypeOK, Return, Labels
<1>2. Returned(workqueue[r], w, failed) \in Queues({Key}, Workers)
  BY <1>1, QueueLemma
<1>3. workqueue' \in [Replicas -> Queues({Key}, Workers)]
  BY <1>2, TypeParts DEF Safe, WorkerTypeOK, Return
<1>4. pc'[w] = "idle" /\ \A v \in Workers \ {w} : pc'[v] = pc[v]
  BY <1>1, StepLemma DEF Return
<1>5. HolderOK'
  <2>1. /\ workqueue'[r].holding = [workqueue[r].holding EXCEPT ![w] = None]
        /\ \A q \in Replicas \ {r} : workqueue'[q] = workqueue[q]
    BY <1>1, TypeParts DEF Safe, WorkerTypeOK, Return, Returned, Finished, Delayed, Queues
  <2>2. /\ workqueue'[r].holding[w] = None
        /\ \A v \in Workers \ {w} : workqueue'[r].holding[v] = workqueue[r].holding[v]
    BY <1>1, <2>1 DEF Queues
  <2>3. phase' = phase
    BY DEF Return
  <2>4. ASSUME NEW v \in Workers, pc'[v] # "idle"
        PROVE  workqueue'[Home[v]].holding[v] = Key /\ phase'[Home[v]] = "running"
    <3>1. v # w /\ pc[v] # "idle"
      BY <1>4, <2>4
    <3>2. /\ Home[v] \in Replicas
          /\ workqueue[Home[v]].holding[v] = Key /\ phase[Home[v]] = "running"
      BY <3>1, WorkerAssumption DEF Safe, HolderOK
    <3>3. CASE Home[v] = r
      BY <2>2, <2>3, <3>1, <3>2, <3>3
    <3>4. CASE Home[v] # r
      BY <2>1, <2>3, <3>2, <3>4
    <3>. QED  BY <3>3, <3>4
  <2>5. ASSUME NEW q \in Replicas, NEW u \in Workers, NEW v \in Workers,
               workqueue'[q].holding[u] = Key, workqueue'[q].holding[v] = Key
        PROVE  u = v
    <3>1. \A x \in Workers : workqueue'[q].holding[x] = Key
                               => workqueue[q].holding[x] = Key
      BY <2>1, <2>2, NoneAssumption
    <3>. QED  BY <2>5, <3>1 DEF Safe, HolderOK
  <2>. QED  BY <2>4, <2>5 DEF HolderOK
<1>6. TaskOK(w)'
  BY <1>4 DEF TaskOK, Taking
<1>7. pc[w] # "inform"
  BY DEF Return
<1>. QED  BY <1>1, <1>3, <1>4, <1>5, <1>6, <1>7, SafeLocal DEF Return

(* A worker stays the holder whatever label it goes to.                    *)
LEMMA HolderStays ==
    ASSUME Safe, NEW w \in Workers, pc[w] # "idle", UNCHANGED <<phase, workqueue>>,
           \A v \in Workers \ {w} : pc'[v] = pc[v]
    PROVE  HolderOK'
<1>1. workqueue[Home[w]].holding[w] = Key /\ phase[Home[w]] = "running"
  BY DEF Safe, HolderOK
<1>. QED  BY <1>1 DEF Safe, HolderOK

LEMMA SafeLookup == ASSUME Safe, NEW w \in Workers, Lookup(w) PROVE Safe'
<1> DEFINE r == Home[w]
           found == lister[r]
           t == [NoTask EXCEPT !.config = found]
           l == pc'[w]
           u == task'[w]
<1>1. /\ pc[w] = "lookup" /\ r \in Replicas /\ found \in Values
      /\ UNCHANGED <<server, phase, informer, memory, workqueue, changes>>
  BY AloneLemma, TypeParts DEF Lookup, Safe, InformerTypeOK
<1>2. /\ NoTask \in [config : Values, next : DOMAIN Controllers]
      /\ t \in [config : Values, next : DOMAIN Controllers] /\ t.config = found
  BY <1>1, NoTaskLemma, ControllersLemma DEF NoTask
<1>3. \/ Step(w, "create", NoTask) \/ Step(w, "succeeded", NoTask)
      \/ found # None /\ Step(w, "store", t)
  BY DEF Lookup, ListerGet
<1>4. \A v \in Workers \ {w} : pc'[v] = pc[v]
  BY <1>1, <1>3, TypeParts DEF Step, Safe, WorkerTypeOK
<1>5. HolderOK' /\ workqueue' \in [Replicas -> Queues({Key}, Workers)]
  BY <1>1, <1>4, HolderStays, TypeParts DEF Safe, WorkerTypeOK
<1>6. CASE Step(w, "create", NoTask) \/ Step(w, "succeeded", NoTask)
  <2>1. pc'[w] \in {"create", "succeeded"}
    BY <1>1, <1>6, TypeParts DEF Step, Safe, WorkerTypeOK
  <2>2. TaskOK(w)'
    BY <2>1 DEF TaskOK, Taking
  <2>. QED  BY <1>1, <1>2, <1>5, <1>6, <2>2, SafeLocal DEF Labels
<1>7. CASE found # None /\ Step(w, "store", t)
  <2>1. pc'[w] = "store" /\ task'[w].config = found /\ task'[w].next = 1
    BY <1>2, <1>7, StepLemma DEF Labels, NoTask
  <2>2. stream[r] \in Seq(Events(ConfigObjects)) /\ Len(stream[r]) \in Nat
    BY <1>1, TypeParts, LenProperties DEF Safe, InformerTypeOK
  <2>3. ChainOK(found, stream[r]) /\ UpTo(version, found, stream[r])
        /\ Follows(config[r], found, stream[r])
    BY <1>1 DEF Safe, StreamOK
  <2>4. At(found, stream[r], 0) = found
    BY DEF At
  <2>5. found.version <= version /\ NotOlder(config[r], found)
    BY <1>7, <2>2, <2>3, <2>4 DEF UpTo, Follows
  <2>6. Follows(found, found, stream[r])
    <3>1. NotOlder(found, found)
      BY <1>1, VersionLemma DEF NotOlder
    <3>2. ASSUME NEW i \in 1..Len(stream[r]) PROVE NotOlder(found, At(found, stream[r], i))
      <4>1. Arrives(found, stream[r], i) /\ 0 \in 0..(i - 1)
        BY <2>2, <2>3 DEF ChainOK
      <4>2. At(found, stream[r], i) = stream[r][i].value
        BY <2>2 DEF At
      <4>. QED  BY <2>4, <4>1, <4>2 DEF Arrives
    <3>. QED  BY <2>2, <2>4, <3>1, <3>2 DEF Follows
  <2>7. TaskOK(w)'
    BY <1>1, <1>7, <2>1, <2>5, <2>6 DEF TaskOK, server, informer, memory
  <2>. QED  BY <1>1, <1>2, <1>5, <1>7, <2>7, SafeLocal DEF Labels
<1>. QED  BY <1>3, <1>6, <1>7

LEMMA SafeStore ==
    ASSUME Safe, NEW w \in Workers, StoreConfig(w)
    PROVE  /\ Safe' /\ pc'[w] = "inform" /\ task'[w] = task[w]
           /\ config'[Home[w]] = task[w].config
<1> DEFINE r == Home[w]
           c == task[w].config
<1> USE TypeParts DEF Safe
<1>1. /\ r \in Replicas /\ phase[r] = "running" /\ config[r] \in ConfigObjects /\ config[r] # None
      /\ \A v \in Workers : v # w /\ Home[v] = r => pc[v] = "idle"
      /\ \A d \in DOMAIN Controllers : controllers[r][d] # None
  BY AloneLemma DEF StoreConfig
<1>2. /\ pc'[w] = "inform" /\ task'[w] = task[w]
      /\ \A v \in Workers \ {w} : UNCHANGED <<pc[v], task[v]>>
      /\ pc' \in [Workers -> Labels] /\ UNCHANGED task
  BY DEF StoreConfig, Step, WorkerTypeOK, Labels
<1>3. /\ config' = [config EXCEPT ![r] = c] /\ config'[r] = c
      /\ \A q \in Replicas \ {r} : config'[q] = config[q]
      /\ UNCHANGED <<server, phase, informer, controllers, workqueue, changes>>
  BY <1>1 DEF StoreConfig, MemoryTypeOK
<1>4. /\ c \in Values /\ c # None /\ c.version <= version
      /\ NotOlder(config[r], c) /\ Follows(c, lister[r], stream[r])
  BY DEF StoreConfig, TaskOK, Taking, WorkerTypeOK
<1> USE DEF server, informer
<1>5. TypeOK'
  <2>1. WorkerTypeOK' /\ MemoryTypeOK'
    BY <1>2, <1>3, <1>4 DEF WorkerTypeOK, MemoryTypeOK
  <2>. QED  BY <1>3, <2>1, TypePartsNext DEF ServerTypeOK, InformerTypeOK, CountsOK
<1>6. ServerOK' /\ HolderOK'
  BY <1>2, <1>3, HolderStays DEF ServerOK, StoreConfig
<1>7. ASSUME NEW v \in Workers PROVE TaskOK(v)'
  <2>1. CASE v = w
    BY <1>2, <1>3, <1>4, <2>1, VersionLemma DEF TaskOK, NotOlder
  <2>2. CASE v # w /\ Home[v] = r
    BY <1>1, <1>2, <2>2 DEF TaskOK, Taking
  <2>3. CASE Home[v] # r
    <3>1. UNCHANGED <<pc[v], task[v], config[Home[v]], lister, stream, version>> /\ TaskOK(v)
      BY <1>2, <1>3, <2>3, WorkerAssumption
    <3>. QED  BY <3>1 DEF TaskOK
  <2>. QED  BY <2>1, <2>2, <2>3
<1>8. ASSUME NEW q \in Replicas PROVE StreamOK(q)' /\ MemoryOK(q)'
  <2>1. CASE q = r
    <3>1. StreamOK(r)'
      BY <1>1, <1>3, <1>4 DEF StreamOK
    <3>2. ASSUME NEW d \in DOMAIN Controllers
          PROVE  NotOlder(controllers[r][d], c)
      <4>1. NotOlder(controllers[r][d], config[r]) /\ controllers[r][d] \in Values
        BY <1>1 DEF MemoryOK, MemoryTypeOK
      <4>. QED  BY <1>1, <1>4, <4>1, VersionLemma DEF NotOlder, Values
    <3>3. ASSUME NEW d \in DOMAIN Controllers PROVE task'[w].next <= d
      <4>1. task[w].next = 1
        BY DEF TaskOK, StoreConfig
      <4>. QED  BY <1>2, <4>1, ControllersLemma
    <3>. QED  BY <1>1, <1>2, <1>3, <1>4, <2>1, <3>1, <3>2, <3>3 DEF MemoryOK
  <2>2. CASE q # r
    <3>1. UNCHANGED <<config[q], lister, stream, version, stored, phase, blind, controllers>>
      BY <1>3, <2>2
    <3>2. \A v \in Workers : Home[v] = q => UNCHANGED <<pc[v], task[v]>>
      BY <1>2, <2>2
    <3>. QED  BY <3>1, <3>2 DEF StreamOK, MemoryOK
  <2>. QED  BY <2>1, <2>2
<1>. QED  BY <1>2, <1>3, <1>5, <1>6, <1>7, <1>8

LEMMA SafeInform ==
    ASSUME Safe, NEW w \in Workers, InformController(w)
    PROVE  /\ Safe' /\ UNCHANGED config
           /\ \/ pc'[w] = "succeeded" /\ task'[w] = NoTask
              \/ pc'[w] = "inform" /\ task'[w].config = task[w].config
<1> DEFINE r == Home[w]
           c == task[w].config
           n == task[w].next
           u == [task[w] EXCEPT !.next = @ + 1]
<1> USE TypeParts DEF Safe
<1>1. /\ r \in Replicas /\ phase[r] = "running" /\ config[r] \in ConfigObjects
      /\ config[r] # None /\ pc[w] = "inform" /\ c = config[r] /\ n \in {1, 2}
      /\ \A v \in Workers : v # w /\ Home[v] = r => pc[v] = "idle"
      /\ task[w] \in [config : Values, next : DOMAIN Controllers]
  BY AloneLemma, ControllersLemma DEF InformController, TaskOK, WorkerTypeOK
<1>2. /\ controllers' = [controllers EXCEPT ![r][n] = c]
      /\ UNCHANGED <<server, phase, informer, config, workqueue, changes>>
  BY DEF InformController
<1>3. /\ controllers'[r][n] = c
      /\ \A d \in DOMAIN Controllers \ {n} : controllers'[r][d] = controllers[r][d]
      /\ \A q \in Replicas \ {r} : controllers'[q] = controllers[q]
  BY <1>1, <1>2, ControllersLemma DEF MemoryTypeOK
<1>4. /\ \A v \in Workers \ {w} : UNCHANGED <<pc[v], task[v]>>
      /\ pc' \in [Workers -> Labels]
      /\ task' \in [Workers -> [config : Values, next : DOMAIN Controllers]]
      /\ \/ n = 2 /\ pc'[w] = "succeeded" /\ task'[w] = NoTask
         \/ n = 1 /\ pc'[w] = "inform" /\ task'[w] = u
  <2>1. CASE IsLast(n)
    <3>1. n = 2 /\ Step(w, "succeeded", NoTask)
      BY <2>1, ControllersLemma DEF InformController, IsLast
    <3>. QED  BY <3>1, StepLemma, NoTaskLemma DEF Labels
  <2>2. CASE ~IsLast(n)
    <3>1. n = 1 /\ Step(w, "inform", u)
      BY <1>1, <2>2, ControllersLemma DEF InformController, IsLast
    <3>2. u \in [config : Values, next : DOMAIN Controllers]
      BY <1>1, <3>1, ControllersLemma
    <3>. QED  BY <3>1, <3>2, StepLemma DEF Labels
  <2>. QED  BY <2>1, <2>2
<1> USE DEF server, informer
<1>5. TypeOK'
  <2>1. WorkerTypeOK' /\ MemoryTypeOK'
    BY <1>1, <1>2, <1>4, ControllersLemma DEF WorkerTypeOK, MemoryTypeOK
  <2>. QED  BY <1>2, <2>1, TypePartsNext DEF ServerTypeOK, InformerTypeOK, CountsOK
<1>6. ServerOK' /\ HolderOK'
  BY <1>1, <1>2, <1>4, HolderStays DEF ServerOK
<1>7. ASSUME NEW v \in Workers PROVE TaskOK(v)'
  <2>1. CASE v = w
    BY <1>1, <1>2, <1>4, <2>1 DEF TaskOK, Taking
  <2>2. CASE v # w
    <3>1. UNCHANGED <<pc[v], task[v], config, lister, stream, version>> /\ TaskOK(v)
      BY <1>2, <1>4, <2>2
    <3>. QED  BY <3>1 DEF TaskOK
  <2>. QED  BY <2>1, <2>2
<1>8. ASSUME NEW q \in Replicas PROVE StreamOK(q)' /\ MemoryOK(q)'
  <2>1. StreamOK(q)'
    BY <1>2 DEF StreamOK
  <2>2. CASE q = r
    <3>1. ASSUME NEW d \in DOMAIN Controllers
          PROVE  /\ controllers'[r][d] # None /\ NotOlder(controllers'[r][d], config[r])
                 /\ \/ controllers'[r][d] = config[r]
                    \/ \E v \in Workers : Home[v] = r /\ pc'[v] = "inform" /\ task'[v].next <= d
      <4>1. CASE d = n
        BY <1>1, <1>3, <4>1, VersionLemma DEF NotOlder, ConfigObjects
      <4>2. CASE d # n
        <5>1. /\ controllers[r][d] # None /\ NotOlder(controllers[r][d], config[r])
              /\ controllers'[r][d] = controllers[r][d]
          BY <1>1, <1>3, <4>2 DEF MemoryOK
        <5>2. CASE controllers[r][d] = config[r]
          BY <5>1, <5>2
        <5>3. CASE controllers[r][d] # config[r]
          <6>1. PICK v \in Workers : Home[v] = r /\ pc[v] = "inform" /\ task[v].next <= d
            BY <1>1, <5>3 DEF MemoryOK
          <6>2. v = w /\ d = 2 /\ n = 1
            BY <1>1, <4>2, <6>1, ControllersLemma
          <6>3. pc'[w] = "inform" /\ task'[w].next = 2
            BY <1>1, <1>4, <6>2
          <6>. QED  BY <5>1, <6>2, <6>3
        <5>. QED  BY <5>2, <5>3
      <4>. QED  BY <4>1, <4>2
    <3>. QED  BY <1>1, <1>2, <2>1, <2>2, <3>1 DEF MemoryOK
  <2>3. CASE q # r
    <3>1. UNCHANGED <<config, version, phase, controllers[q]>> /\ MemoryOK(q)
      BY <1>2, <1>3, <2>3
    <3>2. \A v \in Workers : Home[v] = q => UNCHANGED <<pc[v], task[v]>>
      BY <1>4, <2>3
    <3>. QED  BY <2>1, <3>1, <3>2 DEF MemoryOK
  <2>. QED  BY <2>2, <2>3
<1>. QED  BY <1>1, <1>2, <1>4, <1>5, <1>6, <1>7, <1>8

(* What the creation of a deleted config comes to.                         *)
LEMMA CreateCases ==
    ASSUME Safe, NEW w \in Workers, CreateConfig(w)
    PROVE  /\ pc[w] = "create" /\ CountsOK'
           /\ UNCHANGED <<phase, lister, blind, memory, workqueue, changes>>
           /\ \/ /\ Step(w, "succeeded", NoTask)
                 /\ Write([spec |-> config[Home[w]].spec, version |-> version + 1])
              \/ Step(w, "failed", NoTask) /\ UNCHANGED <<server, stream>>
<1>1. CountsOK'
  BY TypeParts DEF Safe, CountsOK, CreateConfig
<1>. QED
  BY <1>1 DEF CreateConfig, KarydiaConfigsCreate, Put, Refused

LEMMA SafeCreate == ASSUME Safe, NEW w \in Workers, CreateConfig(w) PROVE Safe'
<1> DEFINE v == [spec |-> config[Home[w]].spec, version |-> version + 1]
<1>1. /\ pc[w] = "create" /\ CountsOK'
      /\ UNCHANGED <<phase, lister, blind, memory, workqueue, changes>>
      /\ Step(w, "succeeded", NoTask) \/ Step(w, "failed", NoTask)
      /\ Write(v) \/ UNCHANGED <<server, stream>>
  BY CreateCases
<1>2. v \in Values /\ v.version = version + 1 /\ v # None /\ version \in Nat
  <2>1. v \in ConfigObjects
    BY <1>1, AloneLemma, TypeParts DEF Safe, ServerTypeOK, ConfigObjects
  <2>2. version \in Nat /\ stored \in Values
    BY TypeParts DEF Safe, ServerTypeOK
  <2>. QED  BY <2>1, <2>2, NoneAssumption DEF Values
<1>3. /\ pc'[w] \in {"succeeded", "failed"}
      /\ pc' \in [Workers -> Labels]
      /\ task' \in [Workers -> [config : Values, next : DOMAIN Controllers]]
      /\ \A u \in Workers \ {w} : UNCHANGED <<pc[u], task[u]>>
  BY <1>1, StepLemma, NoTaskLemma DEF Labels
<1>4. WorkerTypeOK' /\ HolderOK'
  BY <1>1, <1>3, HolderStays, TypeParts DEF Safe, WorkerTypeOK
<1>5. TaskOK(w)'
  BY <1>3 DEF TaskOK, Taking
<1>6. \A q \in Replicas : MemoryOK(q)'
  <2>1. version' \in {version, version + 1}
    BY <1>1 DEF Write, server
  <2>2. \A u \in Workers : pc[u] = "inform" => UNCHANGED <<pc[u], task[u]>>
    BY <1>1, <1>3
  <2>. QED  BY <1>1, <2>1, <2>2, MemoryKept
<1>7. CASE Write(v)
  <2>1. /\ ServerTypeOK' /\ ServerOK' /\ InformerTypeOK' /\ MemoryTypeOK'
        /\ phase' \in [Replicas -> Phases]
        /\ \A r \in Replicas : StreamOK(r)'
        /\ \A u \in Workers : UNCHANGED <<pc[u], task[u]>> => TaskOK(u)'
    BY <1>1, <1>2, <1>7, SafeWrite
  <2>2. \A u \in Workers : TaskOK(u)'
    BY <1>3, <1>5, <2>1
  <2>3. TypeOK'
    BY <1>1, <1>4, <2>1, TypePartsNext
  <2>. QED  BY <1>4, <1>6, <2>1, <2>2, <2>3 DEF Safe
<1>8. CASE UNCHANGED <<server, stream>>
  <2>1. UNCHANGED <<version, stored, stream, lister, blind, config, controllers, phase>>
    BY <1>1, <1>8 DEF server, memory
  <2>2. TypeOK'
    BY <1>1, <1>4, <2>1, TypeParts, TypePartsNext
    DEF Safe, ServerTypeOK, InformerTypeOK, MemoryTypeOK
  <2>3. ServerOK'
    BY <2>1 DEF Safe, ServerOK
  <2>4. \A r \in Replicas : StreamOK(r)'
    BY <2>1 DEF Safe, StreamOK
  <2>5. ASSUME NEW u \in Workers PROVE TaskOK(u)'
    <3>1. CASE u # w
      <4>1. UNCHANGED <<pc[u], task[u]>> /\ TaskOK(u)
        BY <1>3, <3>1 DEF Safe
      <4>. QED  BY <2>1, <4>1 DEF TaskOK
    <3>. QED  BY <1>5, <3>1
  <2>. QED  BY <1>4, <1>6, <2>2, <2>3, <2>4, <2>5 DEF Safe
<1>. QED  BY <1>1, <1>7, <1>8

----------------------------------------------------------------------------
(* Heeded: no change is lost.                                              *)

\* What Heeded says of a replica depends on nothing else.
Untouched(r) ==
    /\ UNCHANGED <<phase[r], blind[r], stream[r], lister[r], config[r], workqueue[r]>>
    /\ \A w \in Workers : Home[w] = r => UNCHANGED <<pc[w], task[w]>>

LEMMA HeededUntouched ==
    ASSUME NEW r \in Replicas, Heeded(r), Untouched(r)
    PROVE  Heeded(r)'
BY DEF Heeded, Untouched, Busy, Settled, Heading

(* A write, for a replica whose workers and queue stay as they are.        *)
LEMMA HeededWrite ==
    ASSUME Inv, NEW v \in Values, v # None => v.version = version + 1,
           v = None => stored # None, Write(v),
           UNCHANGED <<phase, lister, blind, memory, workqueue>>,
           NEW r \in Replicas,
           \A w \in Workers : Home[w] = r => UNCHANGED <<pc[w], task[w]>>
    PROVE  Heeded(r)'
<1> DEFINE s == stream[r]
           t == stream'[r]
           l == lister[r]
<1>1. SUFFICES ASSUME phase[r] = "running", ~blind[r]
               PROVE  Busy(r)' \/ Wakes(l, t)
  BY DEF Heeded
<1>2. Busy(r) \/ Wakes(l, s) \/ Settled(r)
  BY <1>1 DEF Inv, Heeded
<1>3. /\ Len(s) \in Nat /\ Len(t) = Len(s) + 1
      /\ \A i \in 0..Len(s) : At(l, t, i) = At(l, s, i)
      /\ \A i \in 1..Len(s) : t[i] = s[i]
  BY <1>1, WriteLemma DEF Inv
<1>4. CASE Busy(r)
  <2>1. Busy(r)'
    BY <1>4 DEF Busy
  <2>. QED  BY <2>1
<1>5. CASE Wakes(l, s)
  <2>1. PICK i \in 1..Len(s) : s[i].relisted \/ At(l, s, i - 1) # None
    BY <1>5 DEF Wakes
  <2>2. i \in 1..Len(t) /\ i - 1 \in 0..Len(s)
    BY <1>3
  <2>3. t[i].relisted \/ At(l, t, i - 1) # None
    BY <1>3, <2>1, <2>2
  <2>. QED  BY <2>2, <2>3 DEF Wakes
<1>6. CASE Settled(r)
  <2>1. CASE s = << >> /\ Heading(r, l)
    <3>1. 1 \in 1..Len(t) /\ At(l, t, 1 - 1) # None
      BY <1>3, <2>1 DEF Heading, At
    <3>. QED  BY <3>1 DEF Wakes
  <2>2. CASE Len(s) = 1 /\ Heading(r, s[1].value)
    <3>1. 2 \in 1..Len(t) /\ At(l, s, 1) # None
      BY <1>3, <2>2 DEF Heading, At
    <3>2. 2 - 1 = 1 /\ At(l, t, 1) # None
      BY <1>3, <2>2, <3>1
    <3>. QED  BY <3>1, <3>2 DEF Wakes
  <2>. QED  BY <1>6, <2>1, <2>2 DEF Settled
<1>. QED  BY <1>2, <1>4, <1>5, <1>6

(* An event arrives: it queues the item, or it is an addition that nobody  *)
(* hears of, of what the process is heading for.                           *)
LEMMA HeededDeliver ==
    ASSUME Inv, NEW r \in Replicas, Deliver(r), NEW q \in Replicas
    PROVE  Heeded(q)'
<1> DEFINE l == lister[r]
           s == stream[r]
           h == Head(s).value
           t == Tail(s)
           due == UpdateHandlerAdds(l, Head(s)) \/ DeleteHandlerAdds(l, Head(s))
<1>1. /\ l \in Values /\ s \in Seq(Events(ConfigObjects)) /\ s # << >> /\ version \in Nat
      /\ ChainOK(l, s) /\ UpTo(version, l, s)
  BY TypeParts DEF Inv, Safe, Deliver, ServerTypeOK, InformerTypeOK, StreamOK
<1>2. /\ h \in Values /\ Head(s) = s[1] /\ s[1] \in Events(ConfigObjects)
      /\ t \in Seq(Events(ConfigObjects)) /\ Len(t) = Len(s) - 1 /\ Len(t) \in Nat
      /\ \A i \in 0..Len(t) : At(h, t, i) = At(l, s, i + 1)
      /\ \A i \in 1..Len(t) : t[i] = s[i + 1]
  BY <1>1, DeliverLemma
<1>3. /\ lister' = [lister EXCEPT ![r] = h] /\ stream' = [stream EXCEPT ![r] = t]
      /\ lister'[r] = h /\ stream'[r] = t
      /\ UNCHANGED <<server, phase, memory, pc, task>>
  BY TypeParts DEF Inv, Safe, Deliver, InformerTypeOK
<1>4. PICK adds \in Heard(due, Head(s)) :
        /\ workqueue' = [workqueue EXCEPT ![r] = Added(@, {k \in {Key} : adds})]
        /\ blind' = [blind EXCEPT ![r] = IF adds THEN FALSE ELSE @ \/ Head(s).relisted]
  BY DEF Deliver
<1>5. /\ workqueue'[r] = Added(workqueue[r], {k \in {Key} : adds})
      /\ blind'[r] = IF adds THEN FALSE ELSE blind[r] \/ Head(s).relisted
      /\ adds \in BOOLEAN
  BY <1>4, TypeParts
  DEF Inv, Safe, InformerTypeOK, WorkerTypeOK, Heard, UpdateHandlerAdds, DeleteHandlerAdds
<1>6. CASE q # r
  <2>1. Untouched(q)
    BY <1>3, <1>4, <1>6, TypeParts
    DEF Untouched, memory, Inv, Safe, InformerTypeOK, WorkerTypeOK
  <2>. QED  BY <2>1, HeededUntouched DEF Inv
<1>7. CASE q = r /\ adds
  <2>1. Key \in workqueue'[r].dirty
    BY <1>5, <1>7, TypeParts DEF Inv, Safe, WorkerTypeOK, Queues, Added
  <2>. QED  BY <1>7, <2>1 DEF Heeded, Busy
<1>8. CASE q = r /\ ~adds
  <2>1. SUFFICES ASSUME phase[r] = "running", ~blind'[r]
                 PROVE  Busy(r)' \/ Wakes(h, t) \/ Settled(r)'
    BY <1>3, <1>8 DEF Heeded
  <2>2. ~blind[r] /\ ~Head(s).relisted /\ ~due
    BY <1>2, <1>4, <1>5, <1>8, <2>1 DEF Heard, Events
  <2>3. l = None /\ h # None
    <3>1. Arrives(l, s, 1)
      BY <1>1, LenProperties, EmptySeq DEF ChainOK
    <3>2. /\ 0 \in 0..(1 - 1) /\ At(l, s, 0) = l /\ At(l, s, 1 - 1) = l
      BY DEF At
    <3>3. Newer(l, h) /\ (h = None => l # None)
      BY <1>2, <2>2, <3>1, <3>2 DEF Arrives
    <3>4. l # None => l.version \in Nat /\ (h # None => h.version \in Nat)
      BY <1>1, <1>2, VersionLemma
    <3>. QED  BY <2>2, <3>3, <3>4 DEF Newer, UpdateHandlerAdds, DeleteHandlerAdds
  <2>4. Busy(r) \/ Wakes(l, s) \/ Settled(r)
    BY <2>1, <2>2 DEF Inv, Heeded
  <2>5. CASE Busy(r)
    <3>1. /\ workqueue'[r].dirty = workqueue[r].dirty
          /\ workqueue'[r].delayed = workqueue[r].delayed
      BY <1>5, <1>8, TypeParts DEF Inv, Safe, WorkerTypeOK, Queues, Added
    <3>2. Busy(r)'
      BY <1>3, <2>5, <3>1 DEF Busy
    <3>. QED  BY <3>2
  <2>6. CASE Wakes(l, s)
    <3>1. PICK i \in 1..Len(s) : s[i].relisted \/ At(l, s, i - 1) # None
      BY <2>6 DEF Wakes
    <3>2. i # 1
      BY <1>2, <2>2, <2>3, <3>1 DEF At
    <3>3. i - 1 \in 1..Len(t) /\ (i - 1) + 1 = i /\ (i - 1) - 1 \in 0..Len(t)
          /\ ((i - 1) - 1) + 1 = i - 1
      BY <1>1, <1>2, <3>2, LenProperties
    <3>4. t[i - 1] = s[i] /\ At(h, t, (i - 1) - 1) = At(l, s, i - 1)
      BY <1>2, <3>3
    <3>. QED  BY <3>1, <3>3, <3>4 DEF Wakes
  <2>7. CASE Settled(r)
    <3>1. Len(s) = 1 /\ Heading(r, s[1].value)
      BY <1>1, <2>7 DEF Settled
    <3>2. t = << >>
      BY <1>2, <3>1, EmptySeq
    <3>3. h = s[1].value /\ config' = config
      BY <1>2, <1>3 DEF memory
    <3> HIDE DEF h, t
    <3>4. Heading(r, lister[r])'
      BY <1>3, <3>1, <3>3 DEF Heading
    <3>. QED  BY <1>3, <3>2, <3>4 DEF Settled
  <2>. QED  BY <2>4, <2>5, <2>6, <2>7
<1>. QED  BY <1>5, <1>6, <1>7, <1>8

(* A worker's step leaves the other replicas alone.                        *)
LEMMA WorkerElse ==
    ASSUME Inv, NEW w \in Workers, NEW l, NEW t, Step(w, l, t),
           UNCHANGED <<phase, informer>>,
           NEW r \in Replicas, r # Home[w], UNCHANGED <<workqueue[r], config[r]>>
    PROVE  Heeded(r)'
<1>1. \A v \in Workers : Home[v] = r => UNCHANGED <<pc[v], task[v]>>
  BY TypeParts DEF Inv, Safe, WorkerTypeOK, Step
<1>2. Untouched(r)
  BY <1>1 DEF Untouched, informer
<1>. QED  BY <1>2, HeededUntouched DEF Inv

LEMMA HeededGet ==
    ASSUME Inv, NEW w \in Workers, GetItem(w), NEW r \in Replicas PROVE Heeded(r)'
<1>1. CASE r = Home[w]
  <2>1. pc'[w] = "lookup"
    BY SafeGet DEF Inv
  <2>. QED  BY <1>1, <2>1 DEF Heeded, Busy
<1>2. CASE r # Home[w]
  <2>1. UNCHANGED <<workqueue[r], config[r], phase, informer>> /\ Step(w, "lookup", NoTask)
    BY <1>2, TypeParts DEF Inv, Safe, WorkerTypeOK, GetItem, memory
  <2>. QED  BY <1>2, <2>1, WorkerElse
<1>. QED  BY <1>1, <1>2

LEMMA HeededReturn ==
    ASSUME Inv, NEW w \in Workers, Return(w), NEW r \in Replicas PROVE Heeded(r)'
<1>1. Step(w, "idle", NoTask) /\ UNCHANGED <<phase, informer, memory>>
  BY DEF Return
<1>2. CASE r # Home[w]
  <2>1. UNCHANGED <<workqueue[r], config[r]>>
    BY <1>1, <1>2, TypeParts DEF Inv, Safe, WorkerTypeOK, Return, memory
  <2>. QED  BY <1>1, <1>2, <2>1, WorkerElse
<1>3. CASE r = Home[w]
  <2>1. /\ workqueue'[r] = Returned(workqueue[r], w, pc[w] = "failed")
        /\ workqueue[r].holding[w] = Key
    BY <1>3, AloneLemma, TypeParts DEF Inv, Safe, WorkerTypeOK, Return
  <2>2. /\ workqueue'[r].dirty = workqueue[r].dirty
        /\ workqueue[r].delayed \subseteq workqueue'[r].delayed
        /\ pc[w] = "failed" => Key \in workqueue'[r].delayed
    BY <2>1, TypeParts DEF Inv, Safe, WorkerTypeOK, Queues, Returned, Finished, Delayed
  <2>3. /\ pc'[w] = "idle" /\ \A v \in Workers \ {w} : UNCHANGED <<pc[v], task[v]>>
        /\ pc[w] \in {"succeeded", "failed"}
    BY <1>1, TypeParts DEF Inv, Safe, WorkerTypeOK, Step, Return
  <2>4. UNCHANGED <<phase, blind, stream, lister, config>>
    BY <1>1 DEF informer, memory
  <2>5. Busy(r) => Busy(r)'
    BY <2>2, <2>3 DEF Busy
  <2>6. \A c : Heading(r, c) => Heading(r, c)'
    BY <2>3, <2>4 DEF Heading, Taking
  <2>7. Settled(r) => Settled(r)'
    BY <2>4, <2>6 DEF Settled
  <2>. QED  BY <2>4, <2>5, <2>7, <1>3 DEF Inv, Heeded
<1>. QED  BY <1>2, <1>3

(* A worker looks the config up.                                           *)
LEMMA HeededLookup ==
    ASSUME Inv, NEW w \in Workers, Lookup(w), NEW r \in Replicas PROVE Heeded(r)'
<1> DEFINE l == lister[r]
           s == stream[r]
<1>1. /\ pc[w] = "lookup" /\ Home[w] \in Replicas
      /\ UNCHANGED <<server, phase, informer, memory, workqueue, changes>>
      /\ config[Home[w]] # None /\ pc[w] # "idle"
      /\ \A v \in Workers : v # w /\ Home[v] = Home[w] => pc[v] = "idle"
  BY AloneLemma DEF Lookup, Inv
<1>2. \/ lister[Home[w]] = None /\ Step(w, "create", NoTask)
      \/ /\ lister[Home[w]] # None
         /\ Step(w, "store", [NoTask EXCEPT !.config = lister[Home[w]]])
      \/ /\ lister[Home[w]] # None
         /\ lister[Home[w]].spec = config[Home[w]].spec
         /\ Step(w, "succeeded", NoTask)
  BY DEF Lookup, ListerGet, ReconcileIsNeeded
<1>3. CASE r # Home[w]
  <2>1. UNCHANGED <<workqueue[r], config[r]>>
    BY <1>1 DEF memory
  <2>. QED  BY <1>1, <1>2, <1>3, <2>1, WorkerElse
<1>4. CASE r = Home[w]
  <2>1. SUFFICES ASSUME phase[r] = "running", ~blind[r]
                 PROVE  Busy(r)' \/ Wakes(l, s) \/ Settled(r)'
    BY <1>1 DEF Heeded, informer
  <2>2. CASE l = None
    <3>1. pc'[w] = "create"
      BY <1>2, <1>4, <2>2, TypeParts DEF Inv, Safe, WorkerTypeOK, Step
    <3>. QED  BY <1>4, <3>1 DEF Busy
  <2>3. CASE l # None /\ s # << >>
    <3>1. 1 \in 1..Len(s) /\ At(l, s, 1 - 1) = l
      BY <2>3, EmptySeq, LenProperties, TypeParts DEF Inv, Safe, InformerTypeOK, At
    <3>. QED  BY <2>3, <3>1 DEF Wakes
  <2>4. CASE l # None /\ s = << >>
    <3>1. \/ pc'[w] = "store" /\ task'[w].config = l
          \/ pc'[w] = "succeeded" /\ l.spec = config[r].spec
      BY <1>2, <1>4, <2>4, TypeParts DEF Inv, Safe, WorkerTypeOK, Step, NoTask
    <3>2. \A v \in Workers : v # w /\ Home[v] = r => pc'[v] = "idle"
      BY <1>1, <1>2, <1>4, TypeParts DEF Inv, Safe, WorkerTypeOK, Step
    <3>3. stream'[r] = << >> /\ lister'[r] = l /\ config'[r] = config[r]
      BY <1>1, <2>4 DEF informer, memory
    <3>4. Heading(r, lister[r])'
      BY <1>4, <2>4, <3>1, <3>2, <3>3 DEF Heading, Taking
    <3>. QED  BY <3>3, <3>4 DEF Settled
  <2>. QED  BY <2>2, <2>3, <2>4
<1>. QED  BY <1>3, <1>4

(* A worker stores what it has found, or tells a controller.               *)
LEMMA HeededTake ==
    ASSUME Inv, NEW w \in Workers, StoreConfig(w) \/ InformController(w),
           NEW r \in Replicas
    PROVE  Heeded(r)'
<1> DEFINE h == Home[w]
           c == task[w].config
<1>1. /\ pc[w] \in Taking /\ h \in Replicas /\ pc[w] # "idle"
      /\ UNCHANGED <<server, phase, informer, workqueue>>
      /\ \A v \in Workers : v # w /\ Home[v] = h => pc[v] = "idle"
  BY AloneLemma DEF StoreConfig, InformController, Inv, Taking
<1>2. /\ \A v \in Workers \ {w} : UNCHANGED <<pc[v], task[v]>>
      /\ \A q \in Replicas \ {h} : config'[q] = config[q]
  BY TypeParts
  DEF Inv, Safe, WorkerTypeOK, MemoryTypeOK, StoreConfig, InformController, Step
<1>3. /\ config'[h] = c
      /\ \/ pc'[w] = "succeeded"
         \/ pc'[w] = "inform" /\ task'[w].config = c
  <2>1. CASE StoreConfig(w)
    BY <2>1, SafeStore DEF Inv
  <2>2. CASE InformController(w)
    BY <2>2, SafeInform DEF Inv, Safe, TaskOK, InformController
  <2>. QED  BY <2>1, <2>2
<1>4. CASE r # h
  <2>1. Untouched(r)
    BY <1>1, <1>2, <1>4 DEF Untouched, informer
  <2>. QED  BY <2>1, HeededUntouched DEF Inv
<1>5. CASE r = h
  <2>1. UNCHANGED <<phase, blind, stream, lister, workqueue>>
    BY <1>1 DEF informer
  <2>2. Busy(r) => Busy(r)'
    BY <1>1, <1>2, <2>1 DEF Busy, Taking
  <2>3. \A d : Heading(r, d) => Heading(r, d)'
    BY <1>1, <1>2, <1>3, <1>5 DEF Heading, Taking
  <2>4. Settled(r) => Settled(r)'
    BY <2>1, <2>3 DEF Settled
  <2>. QED  BY <2>1, <2>2, <2>4 DEF Inv, Heeded
<1>. QED  BY <1>4, <1>5

(* A worker creates the config anew, or tries to.                          *)
LEMMA HeededCreate ==
    ASSUME Inv, NEW w \in Workers, CreateConfig(w), NEW r \in Replicas PROVE Heeded(r)'
<1> DEFINE v == [spec |-> config[Home[w]].spec, version |-> version + 1]
           l == lister[r]
           s == stream[r]
           t == stream'[r]
<1>1. /\ pc[w] = "create"
      /\ UNCHANGED <<phase, lister, blind, memory, workqueue, changes>>
      /\ \/ (Step(w, "succeeded", NoTask) \/ Step(w, "failed", NoTask)) /\ Write(v)
         \/ Step(w, "failed", NoTask) /\ UNCHANGED <<server, stream>>
  BY CreateCases DEF Inv
<1>2. v \in Values /\ v.version = version + 1 /\ v # None
  <2>1. v \in ConfigObjects
    BY <1>1, AloneLemma, TypeParts DEF Inv, Safe, ServerTypeOK, ConfigObjects
  <2>. QED  BY <2>1, NoneAssumption DEF Values
<1>3. /\ pc'[w] \in {"succeeded", "failed"}
      /\ \A u \in Workers \ {w} : UNCHANGED <<pc[u], task[u]>>
  BY <1>1, TypeParts DEF Inv, Safe, WorkerTypeOK, Step
<1>4. CASE r # Home[w] /\ UNCHANGED stream
  <2>1. Untouched(r)
    BY <1>1, <1>3, <1>4 DEF Untouched, memory
  <2>. QED  BY <2>1, HeededUntouched DEF Inv
<1>5. CASE r # Home[w] /\ Write(v)
  BY <1>1, <1>2, <1>3, <1>5, HeededWrite
<1>6. CASE r = Home[w] /\ pc'[w] = "failed"
  BY <1>6 DEF Heeded, Busy
<1>7. CASE r = Home[w] /\ pc'[w] = "succeeded"
  <2>1. SUFFICES ASSUME phase[r] = "running", ~blind[r]
                 PROVE  Busy(r)' \/ Wakes(l, t) \/ Settled(r)'
    BY <1>1 DEF Heeded
  <2>2. Write(v)
    BY <1>1, <1>7, TypeParts DEF Inv, Safe, WorkerTypeOK, Step
  <2>3. /\ Len(s) \in Nat /\ Len(t) = Len(s) + 1
        /\ \A i \in 0..Len(s) : At(l, t, i) = At(l, s, i)
        /\ \A i \in 1..Len(s) : t[i] = s[i]
        /\ t[Len(t)] = Watched(v)
        /\ t \in Seq(Events(ConfigObjects)) /\ s \in Seq(Events(ConfigObjects))
    BY <1>1, <1>2, <2>1, <2>2, WriteLemma, TypeParts DEF Inv, Safe, InformerTypeOK
  <2>4. CASE l # None
    <3>1. 1 \in 1..Len(t) /\ At(l, t, 1 - 1) # None
      BY <2>3, <2>4 DEF At
    <3>. QED  BY <3>1 DEF Wakes
  <2>5. CASE l = None /\ s = << >>
    <3>1. Len(t) = 1 /\ t[1].value = v
      BY <2>3, <2>5, EmptySeq DEF Watched
    <3>2. \A u \in Workers : Home[u] = r => pc'[u] \notin Taking
      BY <1>1, <1>3, <1>7, AloneLemma DEF Inv, Taking
    <3>3. config'[r].spec = v.spec /\ lister'[r] = None
      BY <1>1, <1>7, <2>5 DEF memory
    <3>4. Heading(r, stream[r][1].value)'
      BY <1>2, <3>1, <3>2, <3>3 DEF Heading
    <3>. QED  BY <3>1, <3>3, <3>4 DEF Settled
  <2>6. CASE l = None /\ s # << >>
    <3>1. 1 \in 1..Len(s)
      BY <2>3, <2>6, EmptySeq
    <3>2. Arrives(l, s, 1)
      BY <3>1 DEF Inv, Safe, StreamOK, ChainOK
    <3>3. s[1].relisted \/ s[1].value # None
      BY <2>3, <2>6, <3>1, <3>2, ElementOfSeq DEF Arrives, Events, At
    <3>4. CASE s[1].relisted
      <4>1. 1 \in 1..Len(t) /\ t[1].relisted
        BY <2>3, <3>1, <3>4
      <4>. QED  BY <4>1 DEF Wakes
    <3>5. CASE s[1].value # None
      <4>1. 2 \in 1..Len(t) /\ 2 - 1 \in 0..Len(s) /\ At(l, s, 2 - 1) # None
        BY <2>3, <3>1, <3>5 DEF At
      <4>2. At(l, t, 2 - 1) # None
        BY <2>3, <4>1
      <4>. QED  BY <4>1, <4>2 DEF Wakes
    <3>. QED  BY <3>3, <3>4, <3>5
  <2>. QED  BY <2>4, <2>5, <2>6
<1>. QED  BY <1>1, <1>3, <1>4, <1>5, <1>6, <1>7

----------------------------------------------------------------------------
(* The invariant.                                                          *)

LEMMA InvInit == Init => Inv
<1> SUFFICES ASSUME Init PROVE Inv
  OBVIOUS
<1>1. Safe
  BY SafeInit
<1>2. \A r \in Replicas : Heeded(r)
  BY DEF Init, Heeded
<1>. QED  BY <1>1, <1>2 DEF Inv

(* A change by another party or an end of the process.                     *)
LEMMA InvOthers == ASSUME Inv, OtherParties PROVE Inv'
<1> USE DEF Inv
<1>1. version \in Nat /\ stored \in Values
  BY TypeParts DEF Safe, ServerTypeOK
<1>2. ASSUME NEW s \in Specs, ApplyConfig(s) PROVE Inv'
  <2> DEFINE v == [spec |-> s, version |-> version + 1]
  <2>1. v \in Values /\ v # None /\ v.version = version + 1
    <3>1. v \in ConfigObjects
      BY <1>1 DEF ConfigObjects
    <3>. QED  BY <3>1, NoneAssumption DEF Values
  <2>2. /\ Write(v) /\ Change
        /\ UNCHANGED <<phase, lister, blind, memory, workqueue, pc, task>>
    BY <1>2 DEF ApplyConfig, Put
  <2> HIDE DEF v
  <2>3. Safe'
    BY <2>1, <2>2, SafeOthers
  <2>4. \A r \in Replicas : Heeded(r)'
    BY <2>1, <2>2, HeededWrite
  <2>. QED  BY <2>3, <2>4
<1>3. ASSUME DeleteConfig PROVE Inv'
  <2>1. /\ Write(None) /\ Change /\ stored # None /\ None \in Values
        /\ UNCHANGED <<phase, lister, blind, memory, workqueue, pc, task>>
    BY <1>3 DEF DeleteConfig, Values
  <2>2. Safe'
    BY <2>1, SafeOthers
  <2>3. \A r \in Replicas : Heeded(r)'
    BY <2>1, HeededWrite
  <2>. QED  BY <2>2, <2>3
<1>4. ASSUME NEW r \in Replicas, Crash(r) PROVE Inv'
  <2>1. ASSUME NEW q \in Replicas PROVE Heeded(q)'
    <3>1. CASE q = r
      BY <1>4, <3>1, TypeParts DEF Safe, Crash, Heeded
    <3>2. CASE q # r
      <4>1. Untouched(q)
        BY <1>4, <3>2, TypeParts
        DEF Safe, Crash, Untouched, InformerTypeOK, MemoryTypeOK, WorkerTypeOK
      <4>. QED  BY <4>1, HeededUntouched
    <3>. QED  BY <3>1, <3>2
  <2>. QED  BY <1>4, <2>1, SafeCrash
<1>5. ASSUME NEW r \in Replicas, NEW kept \in 0..Len(stream[r]), BreakWatch(r, kept)
      PROVE  Inv'
  <2>1. /\ Safe'
        /\ \/ stored = None /\ lister[r] = None /\ blind'[r]
           \/ Wakes(lister[r], stream'[r])
    BY <1>5, SafeBreak
  <2>2. ASSUME NEW q \in Replicas PROVE Heeded(q)'
    <3>1. CASE q = r
      BY <1>5, <2>1, <3>1 DEF BreakWatch, Heeded
    <3>2. CASE q # r
      <4>1. Untouched(q)
        BY <1>5, <3>2, TypeParts DEF Safe, BreakWatch, Untouched, InformerTypeOK, memory
      <4>. QED  BY <4>1, HeededUntouched
    <3>. QED  BY <3>1, <3>2
  <2>. QED  BY <2>1, <2>2
<1>. QED  BY <1>2, <1>3, <1>4, <1>5 DEF OtherParties

(* A step of the process, its informer and its queue.                      *)
LEMMA InvReplica ==
    ASSUME Inv, NEW r \in Replicas, Load(r) \/ Run(r) \/ Deliver(r) \/ Fire(r)
    PROVE  Inv'
<1> USE DEF Inv
<1>1. CASE Load(r) \/ Run(r)
  <2>1. Safe' /\ (Run(r) => blind'[r])
    BY <1>1, SafeLoad, SafeRun
  <2>2. ASSUME NEW q \in Replicas PROVE Heeded(q)'
    <3>1. CASE q = r
      BY <1>1, <2>1, <3>1, TypeParts DEF Safe, Load, Heeded
    <3>2. CASE q # r
      <4>1. Untouched(q)
        BY <1>1, <3>2, TypeParts
        DEF Safe, Load, Run, Untouched, informer, memory, InformerTypeOK, MemoryTypeOK
      <4>. QED  BY <4>1, HeededUntouched
    <3>. QED  BY <3>1, <3>2
  <2>. QED  BY <2>1, <2>2
<1>2. CASE Deliver(r)
  BY <1>2, SafeDeliver, HeededDeliver
<1>3. CASE Fire(r)
  <2>1. ASSUME NEW q \in Replicas PROVE Heeded(q)'
    <3>1. CASE q = r
      <4>1. Key \in workqueue'[r].dirty
        BY <1>3, TypeParts DEF Safe, WorkerTypeOK, Queues, Fire, Fired
      <4>. QED  BY <3>1, <4>1 DEF Heeded, Busy
    <3>2. CASE q # r
      <4>1. Untouched(q)
        BY <1>3, <3>2, TypeParts DEF Safe, Fire, Untouched, informer, memory, WorkerTypeOK
      <4>. QED  BY <4>1, HeededUntouched
    <3>. QED  BY <3>1, <3>2
  <2>. QED  BY <1>3, <2>1, SafeFire
<1>. QED  BY <1>1, <1>2, <1>3

LEMMA InvNext == Inv /\ [Next]_vars => Inv'
<1> SUFFICES ASSUME Inv, [Next]_vars PROVE Inv'
  OBVIOUS
<1>1. CASE OtherParties
  BY <1>1, InvOthers
<1>2. ASSUME NEW r \in Replicas, Load(r) \/ Run(r) \/ Deliver(r) \/ Fire(r) PROVE Inv'
  BY <1>2, InvReplica
<1>3. ASSUME NEW w \in Workers, GetItem(w) PROVE Inv'
  BY <1>3, SafeGet, HeededGet DEF Inv
<1>4. ASSUME NEW w \in Workers, HandlerStep(w) PROVE Inv'
  <2>1. CASE Lookup(w)
    BY <2>1, SafeLookup, HeededLookup DEF Inv
  <2>2. CASE StoreConfig(w) \/ InformController(w)
    BY <2>2, SafeStore, SafeInform, HeededTake DEF Inv
  <2>3. CASE CreateConfig(w)
    BY <2>3, SafeCreate, HeededCreate DEF Inv
  <2>4. CASE Return(w)
    BY <2>4, SafeReturn, HeededReturn DEF Inv
  <2>. QED  BY <1>4, <2>1, <2>2, <2>3, <2>4 DEF HandlerStep
<1>5. CASE UNCHANGED vars
  <2> USE DEF vars, server, informer, memory
  <2>1. TypeOK'
    BY <1>5, TypeParts, TypePartsNext
    DEF Inv, Safe, ServerTypeOK, InformerTypeOK, MemoryTypeOK, WorkerTypeOK, CountsOK
  <2>2. ServerOK' /\ HolderOK' /\ \A w \in Workers : TaskOK(w)'
    BY <1>5 DEF Inv, Safe, ServerOK, HolderOK, TaskOK
  <2>3. \A r \in Replicas : StreamOK(r)' /\ MemoryOK(r)'
    BY <1>5 DEF Inv, Safe, StreamOK, MemoryOK
  <2>4. \A r \in Replicas : Untouched(r)
    BY <1>5 DEF Untouched
  <2>. QED  BY <2>1, <2>2, <2>3, <2>4, HeededUntouched DEF Inv, Safe
<1>. QED  BY <1>1, <1>2, <1>3, <1>4, <1>5 DEF Next

LEMMA Invariance == Spec => []Inv
BY InvInit, InvNext, PTL DEF Spec

----------------------------------------------------------------------------
(***************************************************************************)
(* The variables keep their types: a worker never hands on a config it has *)
(* not found, or tells a controller that is not there.                     *)
(***************************************************************************)
THEOREM TypeCorrect == Spec => []TypeOK
<1>1. Inv => TypeOK
  BY DEF Inv, Safe
<1>. QED  BY <1>1, Invariance, PTL

(***************************************************************************)
(* No change is lost between informer, queue, memory and controllers, for  *)
(* any number of replicas, workers and changes.                            *)
(***************************************************************************)
THEOREM Agreement == Spec => []AgreesWhenQuiet
<1>1. ASSUME Inv PROVE AgreesWhenQuiet
  <2> SUFFICES ASSUME NEW r \in Replicas, Quiet(r), ~blind[r], stored # None
               PROVE  Agrees(r)
    BY DEF AgreesWhenQuiet
  <2>1. /\ phase[r] = "running" /\ stream[r] = << >> /\ Len(stream[r]) = 0
        /\ workqueue[r].dirty = {} /\ workqueue[r].delayed = {}
        /\ Processing(workqueue[r]) = {} /\ workqueue[r] \in Queues({Key}, Workers)
    BY <1>1, EmptySeq, TypeParts DEF Inv, Safe, WorkerTypeOK, Quiet, Drained
  <2>2. \A w \in Workers : Home[w] = r => pc[w] = "idle"
    BY <1>1, <2>1, NoneAssumption DEF Inv, Safe, HolderOK, Processing, Queues
  <2>3. Settled(r)
    BY <1>1, <2>1, <2>2 DEF Inv, Heeded, Busy, Wakes
  <2>4. Heading(r, lister[r])
    BY <2>1, <2>3 DEF Settled
  <2>5. stored = lister[r]
    BY <1>1, <2>1 DEF Inv, Safe, StreamOK, At
  <2>6. config[r].spec = stored.spec
    BY <2>2, <2>4, <2>5 DEF Heading, Taking
  <2>7. \A c \in DOMAIN Controllers : controllers[r][c] = config[r]
    BY <1>1, <2>1, <2>2 DEF Inv, Safe, MemoryOK
  <2>. QED  BY <2>6, <2>7 DEF Agrees
<1>. QED  BY <1>1, Invariance, PTL

(***************************************************************************)
(* Neither a process nor one of its controllers goes back to an older      *)
(* config.                                                                 *)
(***************************************************************************)
THEOREM Progressing == Spec => NeverGoesBack
<1> DEFINE Forward ==
      \A r \in Replicas :
          /\ NotOlder(config[r], config'[r])
          /\ \A c \in DOMAIN Controllers : NotOlder(controllers[r][c], controllers'[r][c])
<1>1. ASSUME Inv, UNCHANGED memory PROVE Forward
  <2>1. ASSUME NEW v \in Values PROVE NotOlder(v, v)
    BY VersionLemma DEF NotOlder
  <2>. QED  BY <1>1, <2>1, TypeParts DEF Inv, Safe, MemoryTypeOK, memory
<1>2. ASSUME Inv, NEW r \in Replicas, Load(r) \/ Crash(r) PROVE Forward
  <2>1. ASSUME NEW v \in Values PROVE NotOlder(v, v) /\ NotOlder(v, None) /\ NotOlder(None, v)
    BY VersionLemma DEF NotOlder
  <2>2. /\ \A q \in Replicas \ {r} :
             config'[q] = config[q] /\ controllers'[q] = controllers[q]
        /\ config[r] = None \/ config'[r] = None
        /\ \A c \in DOMAIN Controllers : controllers[r][c] = None \/ controllers'[r][c] = None
    BY <1>2, TypeParts DEF Inv, Safe, MemoryTypeOK, MemoryOK, Load, Crash, Untold
  <2>3. /\ \A q \in Replicas : config[q] \in Values
        /\ \A q \in Replicas, c \in DOMAIN Controllers : controllers[q][c] \in Values
    BY <1>2, TypeParts DEF Inv, Safe, MemoryTypeOK
  <2>. QED  BY <2>1, <2>2, <2>3 DEF NotOlder
<1>3. ASSUME Inv, NEW w \in Workers, StoreConfig(w) PROVE Forward
  <2>1. /\ config' = [config EXCEPT ![Home[w]] = task[w].config] /\ UNCHANGED controllers
        /\ NotOlder(config[Home[w]], task[w].config)
    BY <1>3 DEF Inv, Safe, TaskOK, Taking, StoreConfig
  <2>2. ASSUME NEW v \in Values PROVE NotOlder(v, v)
    BY VersionLemma DEF NotOlder
  <2>. QED
    BY <1>3, <2>1, <2>2, WorkerAssumption, TypeParts DEF Inv, Safe, MemoryTypeOK
<1>4. ASSUME Inv, NEW w \in Workers, InformController(w) PROVE Forward
  <2>1. /\ UNCHANGED config
        /\ controllers' = [controllers EXCEPT ![Home[w]][task[w].next] = task[w].config]
        /\ task[w].config = config[Home[w]] /\ phase[Home[w]] = "running"
    BY <1>4, AloneLemma DEF Inv, Safe, TaskOK, InformController
  <2>2. ASSUME NEW v \in Values PROVE NotOlder(v, v)
    BY VersionLemma DEF NotOlder
  <2>3. \A c \in DOMAIN Controllers : NotOlder(controllers[Home[w]][c], config[Home[w]])
    BY <1>4, <2>1, WorkerAssumption DEF Inv, Safe, MemoryOK
  <2>. QED
    BY <1>4, <2>1, <2>2, <2>3, WorkerAssumption, TypeParts DEF Inv, Safe, MemoryTypeOK
<1>5. Inv /\ [Next]_vars => [Forward]_vars
  <2> SUFFICES ASSUME Inv, [Next]_vars PROVE Forward
    OBVIOUS
  <2>1. CASE UNCHANGED memory
    BY <1>1, <2>1
  <2>2. CASE \E r \in Replicas : Load(r) \/ Crash(r)
    BY <1>2, <2>2
  <2>3. CASE \E w \in Workers : StoreConfig(w) \/ InformController(w)
    BY <1>3, <1>4, <2>3
  <2>4. \/ UNCHANGED memory \/ \E r \in Replicas : Load(r) \/ Crash(r)
        \/ \E w \in Workers : StoreConfig(w) \/ InformController(w)
    BY DEF Next, vars, OtherParties, ApplyConfig, DeleteConfig, BreakWatch, Run, Deliver, Fire,
           GetItem, HandlerStep, Lookup, CreateConfig, Return
  <2>. QED  BY <2>1, <2>2, <2>3, <2>4
<1>. QED  BY <1>5, Invariance, PTL DEF Spec, NeverGoesBack

=============================================================================

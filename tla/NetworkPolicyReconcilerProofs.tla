-------------------- MODULE NetworkPolicyReconcilerProofs --------------------
(***************************************************************************)
(* What holds of the reconciler for any namespaces, names, templates,      *)
(* settings, replicas, workers and number of changes and faults.           *)
(***************************************************************************)
EXTENDS NetworkPolicyReconciler, SequenceTheorems, TLAPS

----------------------------------------------------------------------------
(* The types of the cluster under what other parties do to it.             *)

(* What PutNamespace and PutPolicy send to the watches is an event.        *)
LEMMA PublishedLemma ==
    ASSUME NEW Keys, NEW Objects,
           NEW stream \in [Replicas -> [Keys -> Seq(Events(Objects))]],
           NEW k \in Keys, NEW v \in Objects \cup {None}
    PROVE  Published(stream, k, v) \in [Replicas -> [Keys -> Seq(Events(Objects))]]
<1> DEFINE e == Watched(v)
<1>1. e \in Events(Objects)
  BY DEF Events, Watched
<1> HIDE DEF e
<1>2. ASSUME NEW r \in Replicas
      PROVE  [stream[r] EXCEPT ![k] = Append(@, e)] \in [Keys -> Seq(Events(Objects))]
  <2>1. Append(stream[r][k], e) \in Seq(Events(Objects))
    BY <1>1, AppendProperties
  <2>. QED  BY <2>1
<1>. QED  BY <1>2 DEF Published, e

(* What remains of a stream after a List are events.                       *)
LEMMA RelistedLemma ==
    ASSUME NEW Objects, NEW stream \in Seq(Events(Objects)),
           NEW kept \in 0..Len(stream),
           NEW cached, NEW v \in Objects \cup {None}
    PROVE  Relisted(stream, kept, cached, v) \in Seq(Events(Objects))
<1>1. SubSeq(stream, 1, kept) \in Seq(Events(Objects))
  <2>1. \A i \in 1..kept : stream[i] \in Events(Objects)
    BY LenProperties, ElementOfSeq
  <2>. QED  BY <2>1, SubSeqProperties, LenProperties
<1>2. <<[value |-> v, relisted |-> TRUE]>> \in Seq(Events(Objects))
  BY DEF Events
<1>3. << >> \in Seq(Events(Objects))
  BY EmptySeq
<1>. QED  BY <1>1, <1>2, <1>3, ConcatProperties DEF Relisted

(* Writing a namespace keeps the types.                                    *)
LEMMA PutNamespaceLemma ==
    ASSUME ClusterTypeOK, NEW n \in Namespaces, NEW v \in NamespaceObjects \cup {None},
           PutNamespace(n, v)
    PROVE  /\ namespace' \in [Namespaces -> NamespaceObjects \cup {None}]
           /\ namespaceStream' \in [Replicas -> [Namespaces -> Seq(Events(NamespaceObjects))]]
<1>1. Published(namespaceStream, n, v)
         \in [Replicas -> [Namespaces -> Seq(Events(NamespaceObjects))]]
  BY PublishedLemma DEF ClusterTypeOK
<1>. QED  BY <1>1 DEF ClusterTypeOK, PutNamespace

(* Writing a policy keeps the types.                                       *)
LEMMA PutPolicyLemma ==
    ASSUME ClusterTypeOK, NEW k \in PolicyKeys, NEW v \in PolicyObjects \cup {None},
           PutPolicy(k, v)
    PROVE  /\ policy' \in [PolicyKeys -> PolicyObjects \cup {None}]
           /\ policyStream' \in [Replicas -> [PolicyKeys -> Seq(Events(PolicyObjects))]]
<1>1. Published(policyStream, k, v)
         \in [Replicas -> [PolicyKeys -> Seq(Events(PolicyObjects))]]
  BY PublishedLemma DEF ClusterTypeOK
<1>. QED  BY <1>1 DEF ClusterTypeOK, PutPolicy

(* Every change of the other parties keeps the types.                      *)
LEMMA OtherPartiesType == ASSUME ClusterTypeOK, OtherParties PROVE ClusterTypeOK'
<1> USE DEF ClusterTypeOK
<1>1. ASSUME NEW kind, Change(kind)
      PROVE  changes' \in 0..MaxChanges
  BY <1>1, BoundAssumption DEF Change
<1>2. ASSUME NEW n \in Namespaces, NEW a \in Settings \cup {None},
             CreateNamespace(n, a) \/ AnnotateNamespace(n, a)
      PROVE  ClusterTypeOK'
  <2>1. CASE CreateNamespace(n, a)
    <3>1. [phase |-> "Active", annotation |-> a] \in NamespaceObjects \cup {None}
      BY DEF NamespaceObjects, Phases
    <3>2. changes' \in 0..MaxChanges
      BY <2>1, <1>1 DEF CreateNamespace
    <3>3. PutNamespace(n, [phase |-> "Active", annotation |-> a])
      BY <2>1 DEF CreateNamespace
    <3>. QED  BY <2>1, <3>1, <3>2, <3>3, PutNamespaceLemma DEF CreateNamespace, listers
  <2>2. CASE AnnotateNamespace(n, a)
    <3>1. [namespace[n] EXCEPT !.annotation = a] \in NamespaceObjects \cup {None}
      BY <2>2 DEF AnnotateNamespace, Active, NamespaceObjects
    <3>2. changes' \in 0..MaxChanges
      BY <2>2, <1>1 DEF AnnotateNamespace
    <3>3. PutNamespace(n, [namespace[n] EXCEPT !.annotation = a])
      BY <2>2 DEF AnnotateNamespace
    <3>. QED  BY <2>2, <3>1, <3>2, <3>3, PutNamespaceLemma DEF AnnotateNamespace, listers
  <2>. QED  BY <1>2, <2>1, <2>2
<1>3. ASSUME NEW n \in Namespaces, TerminateNamespace(n)
      PROVE  ClusterTypeOK'
  <2>1. [namespace[n] EXCEPT !.phase = "Terminating"] \in NamespaceObjects \cup {None}
    BY <1>3 DEF TerminateNamespace, Active, NamespaceObjects, Phases
  <2>2. changes' \in 0..MaxChanges
    BY <1>3, <1>1 DEF TerminateNamespace
  <2>3. PutNamespace(n, [namespace[n] EXCEPT !.phase = "Terminating"])
    BY <1>3 DEF TerminateNamespace
  <2>. QED  BY <1>3, <2>1, <2>2, <2>3, PutNamespaceLemma DEF TerminateNamespace, listers
<1>4. ASSUME NEW n \in Namespaces, RemoveNamespace(n)
      PROVE  ClusterTypeOK'
  <2>1. PutNamespace(n, None)
    BY <1>4 DEF RemoveNamespace
  <2>. QED  BY <1>4, <2>1, PutNamespaceLemma DEF RemoveNamespace, listers
<1>5. ASSUME NEW k \in PolicyKeys, NEW s \in Specs, CreatePolicy(k, s) \/ ModifyPolicy(k, s)
      PROVE  ClusterTypeOK'
  <2>1. CASE CreatePolicy(k, s)
    <3>1. [spec |-> s, source |-> None] \in PolicyObjects \cup {None}
      BY DEF PolicyObjects
    <3>2. changes' \in 0..MaxChanges
      BY <2>1, <1>1 DEF CreatePolicy
    <3>3. PutPolicy(k, [spec |-> s, source |-> None])
      BY <2>1 DEF CreatePolicy
    <3>. QED  BY <2>1, <3>1, <3>2, <3>3, PutPolicyLemma DEF CreatePolicy, listers
  <2>2. CASE ModifyPolicy(k, s)
    <3>1. [policy[k] EXCEPT !.spec = s] \in PolicyObjects \cup {None}
      BY <2>2 DEF ModifyPolicy, PolicyObjects
    <3>2. changes' \in 0..MaxChanges
      BY <2>2, <1>1 DEF ModifyPolicy
    <3>3. PutPolicy(k, [policy[k] EXCEPT !.spec = s])
      BY <2>2 DEF ModifyPolicy
    <3>. QED  BY <2>2, <3>1, <3>2, <3>3, PutPolicyLemma DEF ModifyPolicy, listers
  <2>. QED  BY <1>5, <2>1, <2>2
<1>6. ASSUME NEW k \in PolicyKeys, DeletePolicy(k) \/ EmptyNamespace(k)
      PROVE  ClusterTypeOK'
  <2>1. PutPolicy(k, None)
    BY <1>6 DEF DeletePolicy, EmptyNamespace
  <2>2. changes' \in 0..MaxChanges
    BY <1>6, <1>1 DEF DeletePolicy, EmptyNamespace
  <2>. QED  BY <1>6, <2>1, <2>2, PutPolicyLemma DEF DeletePolicy, EmptyNamespace, listers
<1>7. ASSUME NEW p \in Names, NEW s \in Specs \cup {None}, ChangeTemplate(p, s)
      PROVE  ClusterTypeOK'
  <2>1. changes' \in 0..MaxChanges
    BY <1>7, <1>1 DEF ChangeTemplate
  <2>. QED  BY <1>7, <2>1 DEF ChangeTemplate, listers, streams
<1>8. ASSUME NEW c \in Configs, ChangeConfig(c)
      PROVE  ClusterTypeOK'
  <2>1. changes' \in 0..MaxChanges
    BY <1>8, <1>1 DEF ChangeConfig
  <2>. QED  BY <1>8, <2>1 DEF ChangeConfig, listers, streams
<1>9. ASSUME NEW r \in Replicas, NEW n \in Namespaces,
             NEW kept \in 0..Len(namespaceStream[r][n]), BreakNamespaceWatch(r, n, kept)
      PROVE  ClusterTypeOK'
  <2>1. Relisted(namespaceStream[r][n], kept, namespacesLister[r][n], namespace[n])
          \in Seq(Events(NamespaceObjects))
    BY RelistedLemma
  <2>2. changes' \in 0..MaxChanges
    BY <1>9, <1>1 DEF BreakNamespaceWatch
  <2>. QED  BY <1>9, <2>1, <2>2 DEF BreakNamespaceWatch, objects, listers
<1>10. ASSUME NEW r \in Replicas, NEW k \in PolicyKeys,
              NEW kept \in 0..Len(policyStream[r][k]), BreakPolicyWatch(r, k, kept)
       PROVE  ClusterTypeOK'
  <2>1. Relisted(policyStream[r][k], kept, networkPolicyLister[r][k], policy[k])
          \in Seq(Events(PolicyObjects))
    BY RelistedLemma
  <2>2. changes' \in 0..MaxChanges
    BY <1>10, <1>1 DEF BreakPolicyWatch
  <2>. QED  BY <1>10, <2>1, <2>2 DEF BreakPolicyWatch, objects, listers
<1>. QED
  BY <1>2, <1>3, <1>4, <1>5, <1>6, <1>7, <1>8, <1>9, <1>10 DEF OtherParties

----------------------------------------------------------------------------
(* What a configuration is made of.                                        *)
LEMMA ConfigLemma ==
    ASSUME NEW c \in Configs
    PROVE  c.names \in Settings /\ c.enforcement \in BOOLEAN
BY ConfigAssumption

(* A setting is a sequence of names.                                       *)
LEMMA SettingLemma ==
    ASSUME NEW v \in Settings
    PROVE  /\ v \in Seq(Names) /\ Len(v) \in Nat \ {0} /\ DOMAIN v = 1..Len(v)
           /\ \A i \in 1..Len(v) : v[i] \in Names
BY SettingsAssumption, LenProperties, ElementOfSeq, EmptySeq

(* The task of a worker without an item.                                   *)
LEMMA NoTaskLemma == NoTask \in Tasks
BY DEF NoTask, Tasks

(* The operations of the queues keep their types.                          *)
LEMMA QueueLemma ==
    ASSUME NEW Keys, NEW Ws, NEW q \in Queues(Keys, Ws)
    PROVE  /\ \A ks \in SUBSET Keys : Added(q, ks) \in Queues(Keys, Ws)
           /\ \A w \in Ws, k \in Keys : Got(q, w, k) \in Queues(Keys, Ws)
           /\ \A w \in Ws : Finished(q, w) \in Queues(Keys, Ws)
           /\ \A k \in Keys : Fired(q, k) \in Queues(Keys, Ws)
           /\ \A w \in Ws : q.holding[w] # None => Delayed(q, w) \in Queues(Keys, Ws)
BY DEF Queues, Added, Got, Finished, Fired, Delayed

(* The queue of a process that starts.                                     *)
LEMMA EmptyQueueLemma ==
    ASSUME NEW Keys, NEW Ws
    PROVE  EmptyQueue(Ws) \in Queues(Keys, Ws)
BY DEF Queues, EmptyQueue

----------------------------------------------------------------------------
(* The initial state has the types.                                        *)
LEMMA TypeInit == Init => TypeOK
<1> SUFFICES ASSUME Init PROVE TypeOK
  OBVIOUS
<1> USE DEF Init, ClusterInit
<1>1. ClusterTypeOK
  <2>1. << >> \in Seq(Events(NamespaceObjects)) /\ << >> \in Seq(Events(PolicyObjects))
    BY EmptySeq
  <2>2. [phase |-> "Active", annotation |-> None] \in NamespaceObjects
    BY DEF NamespaceObjects, Phases
  <2>. QED  BY <2>1, <2>2, TemplateAssumption, BoundAssumption DEF ClusterTypeOK
<1>2. MemoryTypeOK
  BY ConfigLemma DEF MemoryTypeOK
<1>3. QueuesTypeOK
  BY EmptyQueueLemma DEF QueuesTypeOK
<1>4. WorkersTypeOK
  BY NoTaskLemma DEF WorkersTypeOK, Labels
<1>5. faults \in 0..MaxFaults
  BY FaultAssumption
<1>. QED  BY <1>1, <1>2, <1>3, <1>4, <1>5 DEF TypeOK

(* The start and the end of a process keep the types.                      *)
LEMMA TypeProcess ==
    ASSUME TypeOK, NEW r \in Replicas, Start(r) \/ Crash(r) \/ MapRace(r)
    PROVE  TypeOK'
<1> USE DEF TypeOK
<1>1. CASE Start(r)
  <2>1. ClusterTypeOK'
    BY <1>1 DEF Start, ClusterTypeOK, objects, streams
  <2>2. MemoryTypeOK'
    <3>1. config.names \in Settings /\ config.enforcement \in BOOLEAN
      BY ConfigLemma DEF ClusterTypeOK
    <3>. QED  BY <1>1, <3>1 DEF Start, MemoryTypeOK, ClusterTypeOK
  <2>3. QueuesTypeOK'
    <3>1. Added(namespaceWorkqueue[r], {n \in Namespaces : namespace[n] # None})
            \in Queues(Namespaces, NsWorkers)
      BY QueueLemma DEF QueuesTypeOK
    <3>. QED  BY <1>1, <3>1 DEF Start, QueuesTypeOK
  <2>4. WorkersTypeOK' /\ faults' \in 0..MaxFaults
    BY <1>1 DEF Start, WorkersTypeOK
  <2>. QED  BY <2>1, <2>2, <2>3, <2>4
<1>2. CASE Exit(r) /\ changes' \in 0..MaxChanges /\ faults' \in 0..MaxFaults
  <2>1. ClusterTypeOK'
    <3>1. << >> \in Seq(Events(NamespaceObjects)) /\ << >> \in Seq(Events(PolicyObjects))
      BY EmptySeq
    <3>. QED  BY <1>2, <3>1 DEF Exit, ClusterTypeOK, objects
  <2>2. MemoryTypeOK'
    BY <1>2 DEF Exit, MemoryTypeOK
  <2>3. QueuesTypeOK'
    BY <1>2, EmptyQueueLemma DEF Exit, QueuesTypeOK
  <2>4. WorkersTypeOK'
    BY <1>2, NoTaskLemma DEF Exit, WorkersTypeOK, Labels
  <2>. QED  BY <1>2, <2>1, <2>2, <2>3, <2>4
<1>3. CASE Crash(r)
  <2>1. changes' \in 0..MaxChanges /\ faults' \in 0..MaxFaults
    BY <1>3, BoundAssumption DEF Crash, Change, ClusterTypeOK
  <2>. QED  BY <1>2, <1>3, <2>1 DEF Crash
<1>4. CASE MapRace(r)
  <2>1. changes' \in 0..MaxChanges /\ faults' \in 0..MaxFaults
    BY <1>4, FaultAssumption DEF MapRace, ClusterTypeOK
  <2>. QED  BY <1>2, <1>4, <2>1 DEF MapRace
<1>. QED  BY <1>1, <1>3, <1>4

(* UpdateConfig keeps the types.                                           *)
LEMMA TypeUpdateConfig ==
    ASSUME TypeOK, NEW r \in Replicas, UpdateEnforcement(r) \/ UpdateNames(r)
    PROVE  TypeOK'
<1> USE DEF TypeOK
<1>1. MemoryTypeOK'
  <2>1. config \in Configs /\ config.enforcement \in BOOLEAN
    BY ConfigLemma DEF ClusterTypeOK
  <2>2. updating[r] # None => updating[r].names \in Settings
    BY ConfigLemma DEF MemoryTypeOK
  <2>. QED  BY <2>1, <2>2 DEF UpdateEnforcement, UpdateNames, MemoryTypeOK
<1>2. ClusterTypeOK'
  BY DEF UpdateEnforcement, UpdateNames, ClusterTypeOK, objects, streams, listers
<1>3. QueuesTypeOK' /\ WorkersTypeOK' /\ faults' \in 0..MaxFaults
  BY DEF UpdateEnforcement, UpdateNames, queues, QueuesTypeOK, WorkersTypeOK
<1>. QED  BY <1>1, <1>2, <1>3

(* The informers keep the types.                                           *)
LEMMA TypeInformers == ASSUME TypeOK, NEW r \in Replicas, Informers(r) PROVE TypeOK'
<1> USE DEF TypeOK
<1>1. ASSUME NEW n \in Namespaces, DeliverNamespace(r, n)
      PROVE  TypeOK'
  <2> DEFINE e == Head(namespaceStream[r][n])
  <2>1. e \in Events(NamespaceObjects)
        /\ Tail(namespaceStream[r][n]) \in Seq(Events(NamespaceObjects))
    BY <1>1, HeadTailProperties DEF DeliverNamespace, ClusterTypeOK
  <2>2. ClusterTypeOK'
    BY <1>1, <2>1 DEF DeliverNamespace, ClusterTypeOK, Events, objects
  <2>3. QueuesTypeOK'
    <3>1. PICK ks \in SUBSET Namespaces : namespaceWorkqueue' =
                [namespaceWorkqueue EXCEPT ![r] = Added(@, ks)]
      BY <1>1 DEF DeliverNamespace
    <3>2. Added(namespaceWorkqueue[r], ks) \in Queues(Namespaces, NsWorkers)
      BY QueueLemma DEF QueuesTypeOK
    <3>. QED  BY <1>1, <3>1, <3>2 DEF DeliverNamespace, QueuesTypeOK
  <2>4. MemoryTypeOK' /\ WorkersTypeOK' /\ faults' \in 0..MaxFaults
    BY <1>1 DEF DeliverNamespace, settings, MemoryTypeOK, WorkersTypeOK
  <2>. QED  BY <2>2, <2>3, <2>4
<1>2. ASSUME NEW k \in PolicyKeys, DeliverPolicy(r, k)
      PROVE  TypeOK'
  <2> DEFINE e == Head(policyStream[r][k])
  <2>1. e \in Events(PolicyObjects)
        /\ Tail(policyStream[r][k]) \in Seq(Events(PolicyObjects))
    BY <1>2, HeadTailProperties DEF DeliverPolicy, ClusterTypeOK
  <2>2. ClusterTypeOK'
    BY <1>2, <2>1 DEF DeliverPolicy, ClusterTypeOK, Events, objects
  <2>3. QueuesTypeOK'
    <3>1. PICK ks \in SUBSET PolicyKeys : networkPolicyworkqueue' =
                [networkPolicyworkqueue EXCEPT ![r] = Added(@, ks)]
      BY <1>2 DEF DeliverPolicy
    <3>2. Added(networkPolicyworkqueue[r], ks) \in Queues(PolicyKeys, NpWorkers)
      BY QueueLemma DEF QueuesTypeOK
    <3>. QED  BY <1>2, <3>1, <3>2 DEF DeliverPolicy, QueuesTypeOK
  <2>4. MemoryTypeOK' /\ WorkersTypeOK' /\ faults' \in 0..MaxFaults
    BY <1>2 DEF DeliverPolicy, settings, MemoryTypeOK, WorkersTypeOK
  <2>. QED  BY <2>2, <2>3, <2>4
<1>3. ASSUME NEW n \in Namespaces, FireNamespace(r, n)
      PROVE  TypeOK'
  <2>1. Fired(namespaceWorkqueue[r], n) \in Queues(Namespaces, NsWorkers)
    BY QueueLemma DEF QueuesTypeOK
  <2>2. QueuesTypeOK'
    BY <1>3, <2>1 DEF FireNamespace, QueuesTypeOK
  <2>3. ClusterTypeOK' /\ MemoryTypeOK' /\ WorkersTypeOK' /\ faults' \in 0..MaxFaults
    BY <1>3 DEF FireNamespace, objects, streams, listers, settings, ClusterTypeOK,
                MemoryTypeOK, WorkersTypeOK
  <2>. QED  BY <2>2, <2>3
<1>4. ASSUME NEW k \in PolicyKeys, FirePolicy(r, k)
      PROVE  TypeOK'
  <2>1. Fired(networkPolicyworkqueue[r], k) \in Queues(PolicyKeys, NpWorkers)
    BY QueueLemma DEF QueuesTypeOK
  <2>2. QueuesTypeOK'
    BY <1>4, <2>1 DEF FirePolicy, QueuesTypeOK
  <2>3. ClusterTypeOK' /\ MemoryTypeOK' /\ WorkersTypeOK' /\ faults' \in 0..MaxFaults
    BY <1>4 DEF FirePolicy, objects, streams, listers, settings, ClusterTypeOK,
                MemoryTypeOK, WorkersTypeOK
  <2>. QED  BY <2>2, <2>3
<1>. QED  BY <1>1, <1>2, <1>3, <1>4 DEF Informers

----------------------------------------------------------------------------
(***************************************************************************)
(* What a worker knows at each label.  A policy that is in the buffer      *)
(* stays there as long as the process runs, so that what a worker has seen *)
(* loaded is loaded when it uses it, whatever the others do meanwhile.     *)
(***************************************************************************)
Looping == {"load", "fetch", "store"}
AtPolicy == {"compare", "create", "update"}
Sweeping == {"range", "sweep", "remove"}

SoundIn(running, loaded, w, l, t) ==
    /\ l # "idle" => Home[w] \in running
    /\ l \notin {"idle", "succeeded", "failed"} => t.namespace # None
    /\ l \in {"enforcement"} \cup Looping \cup AtPolicy \cup Sweeping => t.value # None
    /\ l \in Looping => t.i > 0
    /\ l \in {"fetch", "store"} => t.i <= Len(t.value)
    /\ l = "store" => t.spec # None
    /\ l \in AtPolicy \cup {"remove"} => t.name \in loaded
    /\ l \in {"sweep", "remove"} => t.remaining \subseteq loaded
    /\ w \in NpWorkers /\ l \in Looping =>
         \A j \in DOMAIN t.value : j < t.i => t.value[j] \in loaded

SoundAt(w, l, t) == SoundIn(up, Loaded(w), w, l, t)

TaskOK == \A w \in Workers : SoundAt(w, pc[w], task[w])

Typed == TypeOK /\ TaskOK

(* A worker that is not idle holds an item of its queue, and two workers   *)
(* hold different items.                                                   *)
Held(w) == IF w \in NsWorkers THEN namespaceWorkqueue[Home[w]].holding[w]
                              ELSE networkPolicyworkqueue[Home[w]].holding[w]

Exclusive(holding) ==
    \A u, v \in DOMAIN holding : u # v /\ holding[u] # None => holding[u] # holding[v]

HoldersOK ==
    /\ \A w \in Workers : pc[w] # "idle" => Held(w) # None
    /\ \A w \in NsWorkers : task[w].namespace \in {None, Held(w)}
    /\ \A r \in Replicas : /\ Exclusive(namespaceWorkqueue[r].holding)
                           /\ Exclusive(networkPolicyworkqueue[r].holding)

Inv == Typed /\ HoldersOK

(* A step of one worker that changes neither the buffer nor the processes. *)
LEMMA StepLemma ==
    ASSUME Inv, NEW w \in Workers, NEW l \in Labels, NEW t \in Tasks,
           Step(w, l, t), UNCHANGED <<up, defaultNetworkPolicies>>,
           SoundAt(w, l, t)
    PROVE  WorkersTypeOK' /\ TaskOK'
<1>1. WorkersTypeOK'
  BY DEF Inv, Typed, TypeOK, WorkersTypeOK, Step
<1>2. ASSUME NEW v \in Workers
      PROVE  SoundAt(v, pc'[v], task'[v])
  <2>1. CASE v = w
    BY <2>1 DEF Inv, Typed, TypeOK, WorkersTypeOK, Step
  <2>2. CASE v # w
    BY <2>2 DEF Inv, Typed, TypeOK, WorkersTypeOK, Step, TaskOK
  <2>. QED  BY <2>1, <2>2
<1>3. TaskOK'
  BY <1>2 DEF TaskOK, SoundAt, SoundIn, Loaded, Buffer
<1>. QED  BY <1>1, <1>3

(* The memory that a step of a worker finds.                               *)
LEMMA WorkerLemma ==
    ASSUME Inv, NEW w \in Workers
    PROVE  /\ Home[w] \in Replicas
           /\ task[w] \in Tasks
           /\ SoundAt(w, pc[w], task[w])
           /\ Buffer(w) \in [Names -> Specs \cup {None}]
           /\ Loaded(w) \subseteq Names
           /\ task[w].value # None => task[w].value \in Settings
BY WorkerAssumption DEF Inv, Typed, TypeOK, WorkersTypeOK, MemoryTypeOK, TaskOK, Buffer, Loaded,
   Tasks

(* A step of a worker that writes nothing that is shared.                  *)
LEMMA LocalLemma ==
    ASSUME Inv, NEW w \in Workers, NEW l \in Labels, NEW t \in Tasks,
           Step(w, l, t), UNCHANGED <<Shared, defaultNetworkPolicies>>,
           faults' \in 0..MaxFaults, SoundAt(w, l, t)
    PROVE  Typed'
<1>1. WorkersTypeOK' /\ TaskOK'
  BY StepLemma DEF Shared
<1>2. ClusterTypeOK' /\ MemoryTypeOK' /\ QueuesTypeOK'
  BY DEF Inv, Typed, TypeOK, Shared, objects, streams, listers, settings, queues,
         ClusterTypeOK, MemoryTypeOK, QueuesTypeOK
<1>. QED  BY <1>1, <1>2 DEF Inv, Typed, TypeOK

(* A failed call counts within its bound.                                  *)
LEMMA FaultLemma ==
    ASSUME Inv, NEW call, UNCHANGED faults \/ Fault(call)
    PROVE  faults' \in 0..MaxFaults
BY FaultAssumption DEF Inv, Typed, TypeOK, Fault

(* The handler up to its loop over the names.                              *)
LEMMA InvSetting ==
    ASSUME Inv, NEW w \in Workers,
           LookupNamespace(w) \/ ReadNamespace(w) \/ ReadNames(w) \/ ReadEnforcement(w)
    PROVE  Typed'
<1> DEFINE t == task[w]
<1>1. /\ Home[w] \in Replicas /\ t \in Tasks /\ SoundAt(w, pc[w], t)
      /\ NoTask \in Tasks
  BY WorkerLemma, NoTaskLemma
<1>2. ASSUME UNCHANGED up, Home[w] \in up
      PROVE  SoundAt(w, "succeeded", NoTask)
  BY <1>2 DEF SoundAt, SoundIn, Looping, AtPolicy, Sweeping
<1>3. CASE LookupNamespace(w)
  <2> DEFINE found == namespacesLister[Home[w]][t.namespace]
             u == [t EXCEPT !.annotation = found.annotation]
  <2>1. Home[w] \in up /\ t.namespace \in Namespaces
    BY <1>1, <1>3 DEF LookupNamespace, SoundAt, SoundIn, Tasks
  <2>2. found \in NamespaceObjects \cup {None}
    BY <1>1, <2>1 DEF Inv, Typed, TypeOK, ClusterTypeOK
  <2>3. CASE found = None \/ IsExcluded(t.namespace)
    <3>1. Step(w, "succeeded", NoTask) /\ UNCHANGED <<Shared, defaultNetworkPolicies, faults>>
      BY <1>3, <2>3 DEF LookupNamespace
    <3>. QED  BY <1>1, <1>2, <2>1, <3>1, LocalLemma, FaultLemma DEF Labels, Shared
  <2>4. CASE ~(found = None \/ IsExcluded(t.namespace))
    <3>1. Step(w, "names", u) /\ UNCHANGED <<Shared, defaultNetworkPolicies, faults>>
      BY <1>3, <2>4 DEF LookupNamespace
    <3>2. u \in Tasks /\ u.namespace = t.namespace
      BY <1>1, <2>2, <2>4 DEF Tasks, NamespaceObjects
    <3>3. SoundAt(w, "names", u)
      BY <2>1, <3>2, NoneAssumption DEF SoundAt, SoundIn, Looping, AtPolicy, Sweeping
    <3>. QED  BY <3>1, <3>2, <3>3, LocalLemma, FaultLemma DEF Labels, Shared
  <2>. QED  BY <2>3, <2>4
<1>4. CASE ReadNamespace(w)
  <2> DEFINE u == [t EXCEPT !.annotation = namespace[t.namespace].annotation]
  <2>1. Home[w] \in up /\ t.namespace \in Namespaces
    BY <1>1, <1>4 DEF ReadNamespace, SoundAt, SoundIn, Tasks
  <2>2. CASE Step(w, "succeeded", NoTask)
    <3>1. UNCHANGED <<Shared, defaultNetworkPolicies>> /\ faults' \in 0..MaxFaults
      BY <1>4, FaultLemma DEF ReadNamespace
    <3>. QED  BY <1>1, <1>2, <2>1, <2>2, <3>1, LocalLemma DEF Labels, Shared
  <2>3. CASE namespace[t.namespace] # None /\ Step(w, "names", u)
    <3>1. UNCHANGED <<Shared, defaultNetworkPolicies>> /\ faults' \in 0..MaxFaults
      BY <1>4, FaultLemma DEF ReadNamespace
    <3>2. namespace[t.namespace] \in NamespaceObjects
      BY <2>1, <2>3 DEF Inv, Typed, TypeOK, ClusterTypeOK
    <3>3. u \in Tasks /\ u.namespace = t.namespace
      BY <1>1, <3>2 DEF Tasks, NamespaceObjects
    <3>4. SoundAt(w, "names", u)
      BY <2>1, <3>3, NoneAssumption DEF SoundAt, SoundIn, Looping, AtPolicy, Sweeping
    <3>. QED  BY <2>3, <3>1, <3>3, <3>4, LocalLemma DEF Labels
  <2>. QED  BY <1>4, <2>2, <2>3 DEF ReadNamespace
<1>5. CASE ReadNames(w)
  <2> DEFINE u == [t EXCEPT !.value = defaultNetworkPolicyNames[Home[w]], !.src = "config"]
  <2>1. Step(w, "enforcement", u) /\ UNCHANGED <<Shared, defaultNetworkPolicies, faults>>
        /\ pc[w] = "names"
    BY <1>5 DEF ReadNames
  <2>2. defaultNetworkPolicyNames[Home[w]] \in Settings
    BY <1>1 DEF Inv, Typed, TypeOK, MemoryTypeOK
  <2>3. u \in Tasks /\ u.namespace = t.namespace /\ u.value # None
    BY <1>1, <2>2, NoneAssumption DEF Tasks, Sources
  <2>4. SoundAt(w, "enforcement", u)
    BY <1>1, <2>1, <2>3 DEF SoundAt, SoundIn, Looping, AtPolicy, Sweeping
  <2>. QED  BY <2>1, <2>3, <2>4, LocalLemma, FaultLemma DEF Labels
<1>6. CASE ReadEnforcement(w)
  <2> DEFINE u == [t EXCEPT !.i = 1, !.annotation = None,
                            !.value = t.annotation, !.src = "namespace"]
             v == [t EXCEPT !.i = 1, !.annotation = None]
  <2>1. UNCHANGED <<Shared, defaultNetworkPolicies, faults>> /\ pc[w] = "enforcement"
    BY <1>6 DEF ReadEnforcement
  <2>2. \/ Step(w, "load", u) /\ t.annotation # None
        \/ Step(w, "load", v)
    BY <1>6 DEF ReadEnforcement
  <2>3. CASE Step(w, "load", u) /\ t.annotation # None
    <3>1. /\ u \in Tasks /\ u.namespace = t.namespace /\ u.value \in Settings
          /\ u.value # None /\ u.i = 1
      BY <1>1, <2>3 DEF Tasks, Sources
    <3>2. \A j \in DOMAIN u.value : ~(j < u.i)
      BY <3>1, SettingLemma
    <3>3. SoundAt(w, "load", u)
      BY <1>1, <2>1, <3>1, <3>2 DEF SoundAt, SoundIn, Looping, AtPolicy, Sweeping
    <3>. QED  BY <2>1, <2>3, <3>1, <3>3, LocalLemma, FaultLemma DEF Labels
  <2>4. CASE Step(w, "load", v)
    <3>1. t.value # None
      BY <1>1, <2>1 DEF SoundAt, SoundIn
    <3>2. v \in Tasks /\ v.namespace = t.namespace /\ v.value \in Settings
          /\ v.value # None /\ v.i = 1
      BY <1>1, <3>1 DEF Tasks
    <3>3. \A j \in DOMAIN v.value : ~(j < v.i)
      BY <3>2, SettingLemma
    <3>4. SoundAt(w, "load", v)
      BY <1>1, <2>1, <3>2, <3>3 DEF SoundAt, SoundIn, Looping, AtPolicy, Sweeping
    <3>. QED  BY <2>1, <2>4, <3>2, <3>4, LocalLemma, FaultLemma DEF Labels
  <2>. QED  BY <2>2, <2>3, <2>4
<1>. QED  BY <1>3, <1>4, <1>5, <1>6

(* The loop over the names of the setting.                                 *)
LEMMA InvLoad == ASSUME Inv, NEW w \in Workers, LoadBuffer(w) PROVE Typed'
<1> DEFINE t == task[w]
<1>1. /\ t \in Tasks /\ SoundAt(w, "load", t)
      /\ UNCHANGED <<Shared, defaultNetworkPolicies>> /\ faults' \in 0..MaxFaults
  BY WorkerLemma, FaultLemma DEF LoadBuffer
<1>2. /\ t.value \in Settings /\ t.value # None /\ t.namespace # None
      /\ Home[w] \in up /\ t.i \in Nat \ {0}
  BY <1>1 DEF SoundAt, SoundIn, Looping, Tasks
<1>3. /\ Len(t.value) \in Nat /\ DOMAIN t.value = 1..Len(t.value)
      /\ \A i \in 1..Len(t.value) : t.value[i] \in Names
  BY <1>2, SettingLemma
<1>4. CASE t.i > Len(t.value)
  <2>1. Step(w, IF w \in NpWorkers /\ t.name \in Expected(w) THEN "compare" ELSE "range", t)
    BY <1>4 DEF LoadBuffer
  <2>2. w \in NpWorkers /\ t.name \in Expected(w) => t.name \in Loaded(w)
    <3> SUFFICES ASSUME w \in NpWorkers, NEW j \in DOMAIN t.value, t.name = t.value[j]
                 PROVE  t.name \in Loaded(w)
      BY DEF Expected, Listed
    <3>1. j < t.i
      BY <1>2, <1>3, <1>4
    <3>. QED  BY <1>1, <3>1 DEF SoundAt, SoundIn, Looping
  <2>3. CASE w \in NpWorkers /\ t.name \in Expected(w)
    <3>1. SoundAt(w, "compare", t)
      BY <1>2, <2>2, <2>3 DEF SoundAt, SoundIn, Looping, AtPolicy, Sweeping
    <3>. QED  BY <1>1, <2>1, <2>3, <3>1, LocalLemma DEF Labels, Shared
  <2>4. CASE ~(w \in NpWorkers /\ t.name \in Expected(w))
    <3>1. SoundAt(w, "range", t)
      BY <1>2 DEF SoundAt, SoundIn, Looping, AtPolicy, Sweeping
    <3>. QED  BY <1>1, <2>1, <2>4, <3>1, LocalLemma DEF Labels, Shared
  <2>. QED  BY <2>3, <2>4
<1>5. CASE t.i <= Len(t.value)
  <2> DEFINE p == t.value[t.i]
  <2>1. p \in Names /\ ~(t.i > Len(t.value))
    BY <1>2, <1>3, <1>5
  <2>2. CASE Buffer(w)[p] = None
    <3>1. Step(w, "fetch", t)
      BY <2>1, <2>2 DEF LoadBuffer
    <3>2. SoundAt(w, "fetch", t)
      BY <1>1, <1>2, <1>5 DEF SoundAt, SoundIn, Looping, AtPolicy, Sweeping
    <3>. QED  BY <1>1, <3>1, <3>2, LocalLemma DEF Labels, Shared
  <2>3. CASE Buffer(w)[p] # None /\ w \in NsWorkers
    <3> DEFINE u == [t EXCEPT !.name = p]
    <3>1. Step(w, "compare", u)
      BY <2>1, <2>3 DEF LoadBuffer
    <3>2. u \in Tasks /\ u.name = p /\ u.namespace = t.namespace /\ u.value = t.value
      BY <1>1, <2>1 DEF Tasks
    <3>3. SoundAt(w, "compare", u)
      BY <1>2, <2>1, <2>3, <3>2 DEF SoundAt, SoundIn, Looping, AtPolicy, Sweeping, Loaded
    <3>. QED  BY <1>1, <3>1, <3>2, <3>3, LocalLemma DEF Labels, Shared
  <2>4. CASE Buffer(w)[p] # None /\ w \notin NsWorkers
    <3> DEFINE u == [t EXCEPT !.i = @ + 1]
    <3>1. Step(w, "load", u)
      BY <2>1, <2>4 DEF LoadBuffer
    <3>2. /\ u \in Tasks /\ u.namespace = t.namespace /\ u.value = t.value
          /\ u.i = t.i + 1
      BY <1>1, <1>2 DEF Tasks
    <3>3. ASSUME NEW j \in DOMAIN u.value, w \in NpWorkers, j < u.i
          PROVE  u.value[j] \in Loaded(w)
      <4>1. CASE j = t.i
        BY <2>1, <2>4, <3>2, <4>1 DEF Loaded
      <4>2. CASE j # t.i
        <5>1. j < t.i
          BY <1>2, <1>3, <3>2, <3>3, <4>2
        <5>. QED  BY <1>1, <3>2, <3>3, <5>1 DEF SoundAt, SoundIn, Looping
      <4>. QED  BY <4>1, <4>2
    <3>4. SoundAt(w, "load", u)
      BY <1>2, <3>2, <3>3 DEF SoundAt, SoundIn, Looping, AtPolicy, Sweeping
    <3>. QED  BY <1>1, <3>1, <3>2, <3>4, LocalLemma DEF Labels, Shared
  <2>. QED  BY <2>2, <2>3, <2>4
<1>. QED  BY <1>2, <1>3, <1>4, <1>5

(* Fetching a template that is not in the buffer.                          *)
LEMMA InvFetch == ASSUME Inv, NEW w \in Workers, FetchTemplate(w) PROVE Typed'
<1> DEFINE t == task[w]
           p == t.value[t.i]
<1>1. /\ t \in Tasks /\ SoundAt(w, "fetch", t)
      /\ UNCHANGED <<Shared, defaultNetworkPolicies>> /\ faults' \in 0..MaxFaults
  BY WorkerLemma, FaultLemma DEF FetchTemplate
<1>2. /\ t.value \in Settings /\ t.value # None /\ t.namespace # None
      /\ Home[w] \in up /\ t.i \in Nat \ {0} /\ t.i <= Len(t.value)
  BY <1>1 DEF SoundAt, SoundIn, Looping, Tasks
<1>3. p \in Names
  BY <1>2, SettingLemma
<1>4. CASE template[p] # None /\ Step(w, "store", [t EXCEPT !.spec = template[p]])
  <2> DEFINE u == [t EXCEPT !.spec = template[p]]
  <2>1. template[p] \in Specs
    BY <1>3, <1>4 DEF Inv, Typed, TypeOK, ClusterTypeOK
  <2>2. /\ u \in Tasks /\ u.namespace = t.namespace /\ u.value = t.value /\ u.i = t.i
        /\ u.spec # None
    BY <1>1, <1>4, <2>1 DEF Tasks
  <2>3. SoundAt(w, "store", u)
    BY <1>1, <1>2, <2>2 DEF SoundAt, SoundIn, Looping, AtPolicy, Sweeping
  <2>. QED  BY <1>1, <1>4, <2>2, <2>3, LocalLemma DEF Labels, Shared
<1>5. CASE TemplateMissing(w)
  <2>1. CASE w \in NsWorkers
    <3> DEFINE u == [t EXCEPT !.i = @ + 1]
    <3>1. Step(w, "load", u)
      BY <1>5, <2>1 DEF TemplateMissing, SkipTemplate
    <3>2. /\ u \in Tasks /\ u.namespace = t.namespace /\ u.value = t.value
          /\ u.i = t.i + 1
      BY <1>1, <1>2 DEF Tasks
    <3>3. w \notin NpWorkers
      BY <2>1, WorkerAssumption
    <3>4. SoundAt(w, "load", u)
      BY <1>2, <3>2, <3>3 DEF SoundAt, SoundIn, Looping, AtPolicy, Sweeping
    <3>. QED  BY <1>1, <3>1, <3>2, <3>4, LocalLemma DEF Labels, Shared
  <2>2. CASE w \notin NsWorkers
    <3>1. Step(w, "range", t)
      BY <1>5, <2>2 DEF TemplateMissing
    <3>2. SoundAt(w, "range", t)
      BY <1>2 DEF SoundAt, SoundIn, Looping, AtPolicy, Sweeping
    <3>. QED  BY <1>1, <3>1, <3>2, LocalLemma DEF Labels, Shared
  <2>. QED  BY <2>1, <2>2
<1>. QED  BY <1>4, <1>5 DEF FetchTemplate

(* Storing it, which only adds to the buffer.                              *)
LEMMA InvStore == ASSUME Inv, NEW w \in Workers, StoreTemplate(w) PROVE Typed'
<1> DEFINE t == task[w]
           p == t.value[t.i]
<1>1. /\ t \in Tasks /\ SoundAt(w, "store", t) /\ Home[w] \in Replicas
  BY WorkerLemma DEF StoreTemplate
<1>2. /\ t.value \in Settings /\ t.i \in Nat \ {0} /\ t.i <= Len(t.value)
      /\ t.spec \in Specs /\ t.spec # None
  BY <1>1 DEF SoundAt, SoundIn, Looping, Tasks
<1>3. p \in Names
  BY <1>2, SettingLemma
<1>4. defaultNetworkPolicies' = [defaultNetworkPolicies EXCEPT ![Home[w]][p] = t.spec]
      /\ pc' = [pc EXCEPT ![w] = "load"] /\ UNCHANGED <<Shared, faults>>
  BY DEF StoreTemplate
<1>5. \A v \in Workers : Loaded(v) \subseteq Loaded(v)'
  <2> SUFFICES ASSUME NEW v \in Workers, NEW q \in Names, Buffer(v)[q] # None
               PROVE  defaultNetworkPolicies'[Home[v]][q] # None
    BY DEF Loaded, Buffer
  <2>. QED
    BY <1>1, <1>2, <1>3, <1>4, WorkerAssumption
       DEF Buffer, Inv, Typed, TypeOK, MemoryTypeOK
<1>6. \A v \in Workers : Home[v] = Home[w] => p \in Loaded(v)'
  BY <1>1, <1>2, <1>3, <1>4 DEF Loaded, Buffer, Inv, Typed, TypeOK, MemoryTypeOK
<1>7. PICK seeing \in SUBSET {v \in Workers : Home[v] = Home[w]} :
         task' = [v \in Workers |->
                    IF v = w THEN [task[v] EXCEPT !.spec = None]
                    ELSE IF v \in seeing
                    THEN [task[v] EXCEPT !.remaining = @ \cup {p}]
                    ELSE task[v]]
  BY DEF StoreTemplate
<1>8. ASSUME NEW v \in Workers
      PROVE  /\ task'[v] \in Tasks /\ pc'[v] \in Labels
             /\ SoundIn(up', Loaded(v)', v, pc'[v], task'[v])
  <2>1. task[v] \in Tasks /\ SoundAt(v, pc[v], task[v]) /\ pc[v] \in Labels
    BY WorkerLemma DEF Inv, Typed, TypeOK, WorkersTypeOK
  <2>2. up' = up
    BY <1>4 DEF Shared
  <2>3. CASE v = w
    <3> DEFINE u == [t EXCEPT !.spec = None]
    <3>1. pc'[v] = "load" /\ task'[v] = u
      BY <1>4, <1>7, <2>3 DEF Inv, Typed, TypeOK, WorkersTypeOK
    <3>2. /\ u \in Tasks /\ u.namespace = t.namespace /\ u.value = t.value
          /\ u.i = t.i
      BY <1>1 DEF Tasks
    <3>3. SoundIn(up', Loaded(w)', w, "load", u)
      BY <1>1, <1>5, <2>2, <3>2 DEF SoundAt, SoundIn, Looping, AtPolicy, Sweeping
    <3>. QED  BY <2>3, <3>1, <3>2, <3>3 DEF Labels
  <2>4. CASE v # w /\ v \in seeing
    <3> DEFINE u == [task[v] EXCEPT !.remaining = @ \cup {p}]
    <3>1. pc'[v] = pc[v] /\ task'[v] = u
      BY <1>4, <1>7, <2>4 DEF Inv, Typed, TypeOK, WorkersTypeOK
    <3>2. /\ u \in Tasks /\ u.namespace = task[v].namespace /\ u.value = task[v].value
          /\ u.i = task[v].i /\ u.spec = task[v].spec /\ u.name = task[v].name
          /\ u.remaining = task[v].remaining \cup {p}
      BY <1>3, <2>1 DEF Tasks
    <3>3. SoundIn(up', Loaded(v)', v, pc[v], u)
      BY <1>5, <1>6, <1>7, <2>1, <2>2, <2>4, <3>1, <3>2
         DEF SoundAt, SoundIn, Looping, AtPolicy, Sweeping
    <3>. QED  BY <2>1, <3>1, <3>2, <3>3
  <2>5. CASE v # w /\ v \notin seeing
    <3>1. pc'[v] = pc[v] /\ task'[v] = task[v]
      BY <1>4, <1>7, <2>5 DEF Inv, Typed, TypeOK, WorkersTypeOK
    <3>. QED  BY <1>5, <2>1, <2>2, <3>1 DEF SoundAt, SoundIn
  <2>. QED  BY <2>3, <2>4, <2>5
<1>9. TaskOK' /\ WorkersTypeOK'
  <2>1. task' = [v \in Workers |-> task'[v]] /\ pc' \in [Workers -> Labels]
    BY <1>4, <1>7 DEF Inv, Typed, TypeOK, WorkersTypeOK, Labels
  <2>2. WorkersTypeOK'
    BY <1>8, <2>1 DEF WorkersTypeOK
  <2>3. TaskOK'
    BY <1>8 DEF TaskOK, SoundAt
  <2>. QED  BY <2>2, <2>3
<1>10. MemoryTypeOK'
  BY <1>1, <1>2, <1>3, <1>4 DEF Shared, settings, Inv, Typed, TypeOK, MemoryTypeOK
<1>11. ClusterTypeOK' /\ QueuesTypeOK' /\ faults' \in 0..MaxFaults
  BY <1>4 DEF Inv, Typed, TypeOK, Shared, objects, streams, listers, queues,
     ClusterTypeOK, QueuesTypeOK
<1>. QED  BY <1>9, <1>10, <1>11 DEF Inv, Typed, TypeOK

(* Going on after one policy.                                              *)
LEMMA NextPolicyLemma ==
    ASSUME Inv, NEW w \in Workers, pc[w] \in AtPolicy, NextPolicy(w)
    PROVE  \E l \in Labels, u \in Tasks : Step(w, l, u) /\ SoundAt(w, l, u)
<1> DEFINE t == task[w]
           u == [t EXCEPT !.i = @ + 1, !.name = None]
<1>1. /\ t \in Tasks /\ t.value # None /\ t.namespace # None /\ Home[w] \in up
      /\ t.i \in Nat
  BY WorkerLemma DEF SoundAt, SoundIn, AtPolicy, Tasks
<1>2. CASE w \in NsWorkers
  <2>1. Step(w, "load", u)
    BY <1>2 DEF NextPolicy
  <2>2. u \in Tasks /\ u.namespace = t.namespace /\ u.value = t.value /\ u.i = t.i + 1
    <3> DEFINE s == [t EXCEPT !.i = @ + 1]
    <3>1. s \in Tasks /\ s.namespace = t.namespace /\ s.value = t.value /\ s.i = t.i + 1
      BY <1>1 DEF Tasks
    <3>2. u = [s EXCEPT !.name = None]
      OBVIOUS
    <3> HIDE DEF s, u
    <3>. QED  BY <3>1, <3>2 DEF Tasks
  <2>3. w \notin NpWorkers
    BY <1>2, WorkerAssumption
  <2>4. SoundAt(w, "load", u)
    BY <1>1, <2>2, <2>3 DEF SoundAt, SoundIn, Looping, AtPolicy, Sweeping
  <2>. QED  BY <2>1, <2>2, <2>4 DEF Labels
<1>3. CASE w \notin NsWorkers
  <2>1. Step(w, "range", t) /\ SoundAt(w, "range", t)
    BY <1>1, <1>3 DEF NextPolicy, SoundAt, SoundIn, Looping, AtPolicy, Sweeping
  <2>. QED  BY <1>1, <2>1 DEF Labels
<1>. QED  BY <1>2, <1>3

(* Comparing the policy in the cache with the buffer.                      *)
LEMMA InvCompare == ASSUME Inv, NEW w \in Workers, ComparePolicy(w) PROVE Typed'
<1> DEFINE t == task[w]
<1>1. /\ t \in Tasks /\ SoundAt(w, "compare", t) /\ pc[w] \in AtPolicy
      /\ UNCHANGED <<Shared, defaultNetworkPolicies>> /\ faults' \in 0..MaxFaults
  BY WorkerLemma, FaultLemma DEF ComparePolicy, AtPolicy
<1>2. CASE Step(w, "create", t) \/ Step(w, "update", t)
  <2>1. SoundAt(w, "create", t) /\ SoundAt(w, "update", t)
    BY <1>1 DEF SoundAt, SoundIn, Looping, AtPolicy, Sweeping
  <2>. QED  BY <1>1, <1>2, <2>1, LocalLemma DEF Labels
<1>3. CASE NextPolicy(w)
  BY <1>1, <1>3, NextPolicyLemma, LocalLemma
<1>. QED  BY <1>2, <1>3 DEF ComparePolicy

(* The policy that a worker writes, and what it writes.                    *)
LEMMA WrittenLemma ==
    ASSUME Inv, NEW w \in Workers, pc[w] \in {"create", "update", "remove"}
    PROVE  /\ Key(w) \in PolicyKeys /\ task[w].name \in Loaded(w)
           /\ Buffer(w)[Key(w)[2]] \in Specs
           /\ [spec |-> Buffer(w)[Key(w)[2]], source |-> task[w].src] \in PolicyObjects
           /\ [spec |-> Buffer(w)[Key(w)[2]], source |-> None] \in PolicyObjects
<1>1. /\ task[w] \in Tasks /\ task[w].namespace # None /\ task[w].name \in Loaded(w)
      /\ Buffer(w) \in [Names -> Specs \cup {None}]
  BY WorkerLemma DEF SoundAt, SoundIn, AtPolicy
<1>2. task[w].namespace \in Namespaces /\ task[w].name \in Names
  BY <1>1 DEF Tasks, Loaded
<1>3. Buffer(w)[task[w].name] \in Specs
  BY <1>1, <1>2 DEF Loaded
<1>4. Key(w) \in PolicyKeys /\ Key(w)[2] = task[w].name
  BY <1>2 DEF Key, PolicyKeys
<1>. QED  BY <1>1, <1>3, <1>4 DEF PolicyObjects, Tasks

(* A step of a worker that writes a policy.                                *)
LEMMA WritingLemma ==
    ASSUME Inv, NEW w \in Workers, NEW l \in Labels, NEW t \in Tasks,
           Step(w, l, t), SoundAt(w, l, t), faults' \in 0..MaxFaults,
           \/ UNCHANGED <<policy, policyStream>>
           \/ \E k \in PolicyKeys, v \in PolicyObjects \cup {None} : PutPolicy(k, v),
           UNCHANGED <<namespace, template, config, namespaceStream, listers, up,
                       changes, settings, defaultNetworkPolicies, queues>>
    PROVE  Typed'
<1>1. WorkersTypeOK' /\ TaskOK'
  BY StepLemma
<1>2. /\ policy' \in [PolicyKeys -> PolicyObjects \cup {None}]
      /\ policyStream' \in [Replicas -> [PolicyKeys -> Seq(Events(PolicyObjects))]]
  BY PutPolicyLemma DEF Inv, Typed, TypeOK, ClusterTypeOK
<1>3. ClusterTypeOK' /\ MemoryTypeOK' /\ QueuesTypeOK'
  BY <1>2 DEF Inv, Typed, TypeOK, listers, settings, queues, ClusterTypeOK, MemoryTypeOK,
              QueuesTypeOK
<1>. QED  BY <1>1, <1>3 DEF Inv, Typed, TypeOK

(* Creating and updating a policy.                                         *)
LEMMA InvWrite ==
    ASSUME Inv, NEW w \in Workers, CreatePolicyOf(w) \/ UpdatePolicyOf(w)
    PROVE  Typed'
<1> DEFINE k == Key(w)
<1>1. pc[w] \in AtPolicy /\ pc[w] \in {"create", "update", "remove"} /\ NextPolicy(w)
  BY DEF CreatePolicyOf, UpdatePolicyOf, AtPolicy
<1>2. PICK l \in Labels, t \in Tasks : Step(w, l, t) /\ SoundAt(w, l, t)
  BY <1>1, NextPolicyLemma
<1>3. faults' \in 0..MaxFaults
  BY FaultLemma DEF CreatePolicyOf, UpdatePolicyOf
<1>4. \/ UNCHANGED <<policy, policyStream>>
      \/ \E v \in PolicyObjects \cup {None} : PutPolicy(k, v)
  BY <1>1, WrittenLemma DEF CreatePolicyOf, UpdatePolicyOf
<1>5. UNCHANGED <<namespace, template, config, namespaceStream, listers, up,
                  changes, settings, defaultNetworkPolicies, queues>>
  BY DEF CreatePolicyOf, UpdatePolicyOf
<1>6. k \in PolicyKeys
  BY <1>1, WrittenLemma
<1> HIDE DEF k
<1>. QED  BY <1>2, <1>3, <1>4, <1>5, <1>6, WritingLemma

(* The loop that deletes, without its Delete.                              *)
LEMMA InvSweep ==
    ASSUME Inv, NEW w \in Workers, RangeBuffer(w) \/ FindPolicy(w) \/ EndSweep(w)
    PROVE  Typed'
<1> DEFINE t == task[w]
<1>1. /\ t \in Tasks /\ SoundAt(w, pc[w], t) /\ pc[w] \in Sweeping
      /\ UNCHANGED <<Shared, defaultNetworkPolicies>> /\ faults' \in 0..MaxFaults
      /\ Loaded(w) \subseteq Names
  BY WorkerLemma, FaultLemma DEF RangeBuffer, FindPolicy, EndSweep, Sweeping
<1>2. t.namespace # None /\ t.value # None /\ Home[w] \in up
  BY <1>1 DEF SoundAt, SoundIn, Sweeping
<1>3. CASE RangeBuffer(w)
  <2> DEFINE u == [t EXCEPT !.name = None, !.remaining = Loaded(w) \ Expected(w)]
  <2>1. /\ u \in Tasks /\ u.namespace = t.namespace /\ u.value = t.value
        /\ u.remaining \subseteq Loaded(w)
    BY <1>1 DEF Tasks
  <2>2. SoundAt(w, "sweep", u)
    BY <1>2, <2>1 DEF SoundAt, SoundIn, Looping, AtPolicy, Sweeping
  <2>3. Step(w, "sweep", u)
    BY <1>3 DEF RangeBuffer
  <2>. QED  BY <1>1, <2>1, <2>2, <2>3, LocalLemma DEF Labels
<1>4. CASE FindPolicy(w)
  <2>1. PICK p \in t.remaining :
           \/ Step(w, "remove", [t EXCEPT !.remaining = @ \ {p}, !.name = p])
           \/ Step(w, "sweep", [t EXCEPT !.remaining = @ \ {p}])
    <3>1. PICK p \in t.remaining :
             \/ Step(w, "remove", [[t EXCEPT !.remaining = @ \ {p}] EXCEPT !.name = p])
             \/ Step(w, "sweep", [t EXCEPT !.remaining = @ \ {p}])
      BY <1>4 DEF FindPolicy
    <3>. QED  BY <3>1
  <2>2. p \in Loaded(w) /\ p \in Names /\ t.remaining \subseteq Loaded(w)
    BY <1>1, <1>4 DEF FindPolicy, SoundAt, SoundIn
  <2>3. CASE Step(w, "remove", [t EXCEPT !.remaining = @ \ {p}, !.name = p])
    <3> DEFINE u == [t EXCEPT !.remaining = @ \ {p}, !.name = p]
    <3>1. /\ u \in Tasks /\ u.namespace = t.namespace /\ u.value = t.value
          /\ u.remaining = t.remaining \ {p} /\ u.name = p
      BY <1>1, <2>2 DEF Tasks
    <3>2. SoundAt(w, "remove", u)
      BY <1>2, <2>2, <3>1 DEF SoundAt, SoundIn, Looping, AtPolicy, Sweeping
    <3>. QED  BY <1>1, <2>3, <3>1, <3>2, LocalLemma DEF Labels
  <2>4. CASE Step(w, "sweep", [t EXCEPT !.remaining = @ \ {p}])
    <3> DEFINE u == [t EXCEPT !.remaining = @ \ {p}]
    <3>1. /\ u \in Tasks /\ u.namespace = t.namespace /\ u.value = t.value
          /\ u.remaining = t.remaining \ {p}
      BY <1>1, <2>2 DEF Tasks
    <3>2. SoundAt(w, "sweep", u)
      BY <1>2, <2>2, <3>1 DEF SoundAt, SoundIn, Looping, AtPolicy, Sweeping
    <3>. QED  BY <1>1, <2>4, <3>1, <3>2, LocalLemma DEF Labels
  <2>. QED  BY <2>1, <2>3, <2>4
<1>5. CASE EndSweep(w)
  <2>1. SoundAt(w, "succeeded", NoTask)
    BY <1>2 DEF SoundAt, SoundIn, Looping, AtPolicy, Sweeping
  <2>2. Step(w, "succeeded", NoTask)
    BY <1>5 DEF EndSweep
  <2>. QED  BY <1>1, <2>1, <2>2, NoTaskLemma, LocalLemma DEF Labels
<1>. QED  BY <1>3, <1>4, <1>5

(* Delete.                                                                 *)
LEMMA InvRemove == ASSUME Inv, NEW w \in Workers, RemovePolicy(w) PROVE Typed'
<1> DEFINE t == task[w]
           u == [t EXCEPT !.name = None]
           k == Key(w)
<1>1. /\ t \in Tasks /\ SoundAt(w, "remove", t) /\ pc[w] = "remove"
      /\ faults' \in 0..MaxFaults
  BY WorkerLemma, FaultLemma DEF RemovePolicy
<1>2. t.namespace # None /\ t.value # None /\ Home[w] \in up /\ t.remaining \subseteq Loaded(w)
  BY <1>1 DEF SoundAt, SoundIn, Sweeping
<1>3. Step(w, "sweep", u) \/ Step(w, "failed", NoTask)
  BY DEF RemovePolicy
<1>4. /\ u \in Tasks /\ u.namespace = t.namespace /\ u.value = t.value
      /\ u.remaining = t.remaining
  BY <1>1 DEF Tasks
<1>5. SoundAt(w, "sweep", u) /\ SoundAt(w, "failed", NoTask)
  BY <1>2, <1>4 DEF SoundAt, SoundIn, Looping, AtPolicy, Sweeping
<1>6. \/ UNCHANGED <<policy, policyStream>>
      \/ PutPolicy(k, None)
  BY DEF RemovePolicy
<1>7. k \in PolicyKeys
  BY <1>1, WrittenLemma
<1>8. UNCHANGED <<namespace, template, config, namespaceStream, listers, up,
                  changes, settings, defaultNetworkPolicies, queues>>
  BY DEF RemovePolicy
<1>9. \E l \in Labels, v \in Tasks : Step(w, l, v) /\ SoundAt(w, l, v)
  BY <1>3, <1>4, <1>5, NoTaskLemma DEF Labels
<1> HIDE DEF k, u
<1>. QED  BY <1>1, <1>6, <1>7, <1>8, <1>9, WritingLemma

(* Taking an item and returning it.                                        *)
LEMMA InvItem ==
    ASSUME Inv, NEW w \in Workers, GetItem(w) \/ Return(w)
    PROVE  Typed'
<1>1. PICK l \in Labels, t \in Tasks : Step(w, l, t) /\ SoundAt(w, l, t)
  <2>1. ASSUME NEW n \in Namespaces, GetNamespaceItem(w, n)
        PROVE  \E l \in Labels, t \in Tasks : Step(w, l, t) /\ SoundAt(w, l, t)
    <3> DEFINE u == [NoTask EXCEPT !.namespace = n]
    <3>1. u \in Tasks /\ u.namespace # None
      BY NoneAssumption DEF Tasks, NoTask
    <3>2. SoundAt(w, "lookup", u)
      BY <2>1, <3>1 DEF GetNamespaceItem, SoundAt, SoundIn, Looping, AtPolicy, Sweeping
    <3>. QED  BY <2>1, <3>1, <3>2 DEF GetNamespaceItem, Labels
  <2>2. ASSUME NEW k \in PolicyKeys, GetPolicyItem(w, k)
        PROVE  \E l \in Labels, t \in Tasks : Step(w, l, t) /\ SoundAt(w, l, t)
    <3> DEFINE u == [NoTask EXCEPT !.namespace = k[1], !.name = k[2]]
    <3>1. k[1] \in Namespaces /\ k[2] \in Names
      BY DEF PolicyKeys
    <3>2. u \in Tasks /\ u.namespace # None
      BY <3>1, NoneAssumption DEF Tasks, NoTask
    <3>3. SoundAt(w, "lookup", u)
      BY <2>2, <3>2 DEF GetPolicyItem, SoundAt, SoundIn, Looping, AtPolicy, Sweeping
    <3>. QED  BY <2>2, <3>2, <3>3 DEF GetPolicyItem, Labels
  <2>3. CASE Return(w)
    <3>1. SoundAt(w, "idle", NoTask)
      BY DEF SoundAt, SoundIn, Looping, AtPolicy, Sweeping
    <3>. QED  BY <2>3, <3>1, NoTaskLemma DEF Return, Labels
  <2>. QED  BY <2>1, <2>2, <2>3 DEF GetItem
<1>2. UNCHANGED <<objects, streams, listers, up, changes, settings,
                  defaultNetworkPolicies, faults>>
  BY DEF GetItem, GetNamespaceItem, GetPolicyItem, Return
<1>3. WorkersTypeOK' /\ TaskOK'
  BY <1>1, <1>2, StepLemma
<1>4. Home[w] \in Replicas
  BY WorkerAssumption
<1>5. QueuesTypeOK'
  <2> USE DEF Inv, Typed, TypeOK, QueuesTypeOK
  <2>1. ASSUME NEW n \in Namespaces, GetNamespaceItem(w, n)
        PROVE  QueuesTypeOK'
    <3>1. Got(namespaceWorkqueue[Home[w]], w, n) \in Queues(Namespaces, NsWorkers)
      BY <1>4, <2>1, QueueLemma DEF GetNamespaceItem
    <3>. QED  BY <1>4, <2>1, <3>1 DEF GetNamespaceItem
  <2>2. ASSUME NEW k \in PolicyKeys, GetPolicyItem(w, k)
        PROVE  QueuesTypeOK'
    <3>1. Got(networkPolicyworkqueue[Home[w]], w, k) \in Queues(PolicyKeys, NpWorkers)
      BY <1>4, <2>2, QueueLemma DEF GetPolicyItem
    <3>. QED  BY <1>4, <2>2, <3>1 DEF GetPolicyItem
  <2>3. CASE Return(w)
    <3>1. CASE w \in NsWorkers
      <4>1. Returned(namespaceWorkqueue[Home[w]], w, pc[w] = "failed")
              \in Queues(Namespaces, NsWorkers)
        BY <1>4, <2>3, <3>1, QueueLemma DEF Returned, Return, Inv, HoldersOK, Held
      <4>. QED  BY <1>4, <2>3, <3>1, <4>1 DEF Return
    <3>2. CASE w \notin NsWorkers
      <4>1. Returned(networkPolicyworkqueue[Home[w]], w, pc[w] = "failed")
              \in Queues(PolicyKeys, NpWorkers)
        BY <1>4, <2>3, <3>2, QueueLemma DEF Returned, Return, Inv, HoldersOK, Held, Workers
      <4>. QED  BY <1>4, <2>3, <3>2, <4>1 DEF Return
    <3>. QED  BY <3>1, <3>2
  <2>. QED  BY <2>1, <2>2, <2>3 DEF GetItem
<1>6. ClusterTypeOK' /\ MemoryTypeOK' /\ faults' \in 0..MaxFaults
  BY <1>2 DEF Inv, Typed, TypeOK, objects, streams, listers, settings, ClusterTypeOK, MemoryTypeOK
<1>. QED  BY <1>3, <1>5, <1>6 DEF Inv, Typed, TypeOK

----------------------------------------------------------------------------
(* Steps outside the workers, of which only the end of a process takes     *)
(* something from the buffer, and with it the handlers of that process.    *)
LEMMA TaskElsewhere ==
    ASSUME Inv,
           Others \/ \E r \in Replicas :
              \/ Start(r) \/ Crash(r) \/ MapRace(r)
              \/ UpdateEnforcement(r) \/ UpdateNames(r) \/ Informers(r)
    PROVE  TaskOK'
<1>1. CASE \/ Others
           \/ \E r \in Replicas :
                 UpdateEnforcement(r) \/ UpdateNames(r) \/ Informers(r)
  <2>1. UNCHANGED <<up, defaultNetworkPolicies, pc, task>>
    <3>1. CASE Others
      BY <3>1 DEF Others, OtherParties, CreateNamespace, AnnotateNamespace,
         TerminateNamespace, RemoveNamespace, EmptyNamespace, CreatePolicy,
         ModifyPolicy, DeletePolicy, ChangeTemplate, ChangeConfig,
         BreakNamespaceWatch, BreakPolicyWatch
    <3>2. CASE \E r \in Replicas :
                 UpdateEnforcement(r) \/ UpdateNames(r) \/ Informers(r)
      BY <3>2 DEF UpdateEnforcement, UpdateNames, Informers, DeliverNamespace,
         DeliverPolicy, FireNamespace, FirePolicy
    <3>. QED  BY <1>1, <3>1, <3>2
  <2>. QED  BY <2>1 DEF Inv, Typed, TaskOK, SoundAt, Loaded, Buffer
<1>2. ASSUME NEW r \in Replicas, Start(r)
      PROVE  TaskOK'
  <2>1. /\ UNCHANGED <<pc, task>> /\ up' = up \cup {r}
        /\ \A x \in Replicas : x # r => defaultNetworkPolicies'[x] = defaultNetworkPolicies[x]
    BY <1>2 DEF Start, Inv, Typed, TypeOK, MemoryTypeOK
  <2>2. ASSUME NEW w \in Workers
        PROVE  SoundIn(up', Loaded(w)', w, pc'[w], task'[w])
    <3>1. SoundAt(w, pc[w], task[w])
      BY WorkerLemma
    <3>2. CASE Home[w] = r
      <4>1. pc[w] = "idle"
        BY <1>2, <3>1, <3>2 DEF Start, SoundAt, SoundIn
      <4>. QED  BY <2>1, <4>1 DEF SoundIn, Looping, AtPolicy, Sweeping
    <3>3. CASE Home[w] # r
      <4>1. Loaded(w)' = Loaded(w)
        BY <2>1, <3>3, WorkerAssumption DEF Loaded, Buffer
      <4>. QED  BY <2>1, <3>1, <4>1 DEF SoundAt, SoundIn
    <3>. QED  BY <3>2, <3>3
  <2>. QED  BY <2>2 DEF TaskOK, SoundAt
<1>3. ASSUME NEW r \in Replicas, Exit(r)
      PROVE  TaskOK'
  <2>1. /\ up' = up \ {r}
        /\ \A x \in Replicas : x # r => defaultNetworkPolicies'[x] = defaultNetworkPolicies[x]
        /\ \A w \in Workers :
              IF Home[w] = r THEN pc'[w] = "idle"
                             ELSE pc'[w] = pc[w] /\ task'[w] = task[w]
    BY <1>3 DEF Exit, Inv, Typed, TypeOK, MemoryTypeOK
  <2>2. ASSUME NEW w \in Workers
        PROVE  SoundIn(up', Loaded(w)', w, pc'[w], task'[w])
    <3>1. SoundAt(w, pc[w], task[w])
      BY WorkerLemma
    <3>2. CASE Home[w] = r
      BY <2>1, <3>2 DEF SoundIn, Looping, AtPolicy, Sweeping
    <3>3. CASE Home[w] # r
      <4>1. Loaded(w)' = Loaded(w)
        BY <2>1, <3>3, WorkerAssumption DEF Loaded, Buffer
      <4>. QED  BY <2>1, <3>1, <3>3, <4>1 DEF SoundAt, SoundIn
    <3>. QED  BY <3>2, <3>3
  <2>. QED  BY <2>2 DEF TaskOK, SoundAt
<1>. QED  BY <1>1, <1>2, <1>3 DEF Crash, MapRace

(* Types and tasks are kept by every step.                                 *)
LEMMA TypedNext == ASSUME Inv, [Next]_vars PROVE Typed'
<1>1. CASE Others
  <2>1. ClusterTypeOK'
    BY <1>1, OtherPartiesType DEF Others, Inv, Typed, TypeOK
  <2>2. TypeOK'
    BY <1>1, <2>1 DEF Others, Inv, Typed, TypeOK, settings, queues, MemoryTypeOK,
       QueuesTypeOK, WorkersTypeOK
  <2>. QED  BY <1>1, <2>2, TaskElsewhere DEF Typed
<1>2. CASE \E r \in Replicas :
              \/ Start(r) \/ Crash(r) \/ MapRace(r)
              \/ UpdateEnforcement(r) \/ UpdateNames(r) \/ Informers(r)
  <2>1. TypeOK
    BY DEF Inv, Typed
  <2>. QED
    BY <1>2, <2>1, TypeProcess, TypeUpdateConfig, TypeInformers, TaskElsewhere DEF Typed
<1>3. CASE \E w \in Workers : GetItem(w) \/ HandlerStep(w)
  BY <1>3, InvSetting, InvLoad, InvFetch, InvStore, InvCompare, InvWrite, InvSweep,
     InvRemove, InvItem DEF HandlerStep
<1>4. CASE UNCHANGED vars
  <2>1. TypeOK'
    BY <1>4 DEF Inv, Typed, TypeOK, vars, objects, streams, listers, settings, queues,
       ClusterTypeOK, MemoryTypeOK, QueuesTypeOK, WorkersTypeOK
  <2>2. TaskOK'
    BY <1>4 DEF Inv, Typed, TaskOK, vars, SoundAt, Loaded, Buffer
  <2>. QED  BY <2>1, <2>2 DEF Typed
<1>. QED  BY <1>1, <1>2, <1>3, <1>4 DEF Next

----------------------------------------------------------------------------
(* What the queues hand out.                                               *)

(* Steps after which every worker holds what it held, and works on that.   *)
LEMMA HoldersFrame ==
    ASSUME Inv,
           \A r \in Replicas :
              /\ namespaceWorkqueue'[r].holding = namespaceWorkqueue[r].holding
              /\ networkPolicyworkqueue'[r].holding = networkPolicyworkqueue[r].holding,
           \A w \in Workers :
              /\ pc'[w] # "idle" => pc[w] # "idle"
              /\ task'[w].namespace \in {None, task[w].namespace}
    PROVE  HoldersOK'
<1>1. \A w \in Workers : Held(w)' = Held(w)
  BY WorkerAssumption DEF Held
<1>. QED  BY <1>1, WorkerAssumption DEF Inv, HoldersOK, Workers

(* A step of a handler stays with its namespace, and leaves the other      *)
(* workers where they are.                                                 *)
LEMMA HandlerKeeps ==
    ASSUME Inv, NEW w \in Workers, HandlerStep(w), ~Return(w)
    PROVE  /\ UNCHANGED queues
           /\ pc[w] # "idle"
           /\ \A v \in Workers : /\ v # w => pc'[v] = pc[v]
                                 /\ task'[v].namespace \in {None, task[v].namespace}
<1> DEFINE t == task[w]
<1>1. /\ \A v \in Workers : task[v] \in Tasks
      /\ pc \in [Workers -> Labels] /\ task \in [Workers -> Tasks]
      /\ NoTask.namespace = None
  BY WorkerLemma DEF NoTask, Inv, Typed, TypeOK, WorkersTypeOK
<1>2. UNCHANGED queues /\ pc[w] # "idle"
  BY DEF HandlerStep, LookupNamespace, ReadNamespace, ReadNames, ReadEnforcement,
     LoadBuffer, FetchTemplate, StoreTemplate, ComparePolicy, CreatePolicyOf,
     UpdatePolicyOf, RangeBuffer, FindPolicy, RemovePolicy, EndSweep, Shared
<1> SUFFICES \A v \in Workers : /\ v # w => pc'[v] = pc[v]
                               /\ task'[v].namespace \in {None, task[v].namespace}
  BY <1>2
<1>3. ASSUME NEW l, NEW u, Step(w, l, u), u.namespace \in {None, t.namespace}
      PROVE  \A v \in Workers : /\ v # w => pc'[v] = pc[v]
                                /\ task'[v].namespace \in {None, task[v].namespace}
  BY <1>1, <1>3 DEF Step
<1>4. \A e : [t EXCEPT !.annotation = e].namespace = t.namespace
  BY <1>1 DEF Tasks
<1>5. CASE LookupNamespace(w) \/ ReadNamespace(w)
  BY <1>1, <1>3, <1>4, <1>5 DEF LookupNamespace, ReadNamespace
<1>6. CASE ReadNames(w)
  <2> DEFINE u == [t EXCEPT !.value = defaultNetworkPolicyNames[Home[w]], !.src = "config"]
  <2>1. u.namespace = t.namespace /\ Step(w, "enforcement", u)
    BY <1>1, <1>6 DEF Tasks, ReadNames
  <2>. QED  BY <1>3, <2>1
<1>7. CASE ReadEnforcement(w)
  <2> DEFINE u == [t EXCEPT !.i = 1, !.annotation = None,
                            !.value = t.annotation, !.src = "namespace"]
             v == [t EXCEPT !.i = 1, !.annotation = None]
  <2>1. u.namespace = t.namespace /\ v.namespace = t.namespace
    BY <1>1 DEF Tasks
  <2>2. Step(w, "load", u) \/ Step(w, "load", v)
    BY <1>7 DEF ReadEnforcement
  <2>. QED  BY <1>3, <2>1, <2>2
<1>8. /\ \A e : [t EXCEPT !.i = e].namespace = t.namespace
      /\ \A e : [t EXCEPT !.name = e].namespace = t.namespace
      /\ \A e : [t EXCEPT !.spec = e].namespace = t.namespace
      /\ \A e : [t EXCEPT !.remaining = e].namespace = t.namespace
  BY <1>1 DEF Tasks
<1>9. CASE LoadBuffer(w) \/ FetchTemplate(w)
  BY <1>3, <1>8, <1>9 DEF LoadBuffer, FetchTemplate, TemplateMissing, SkipTemplate
<1>10. CASE StoreTemplate(w)
  <2>1. /\ \A v \in Workers : task'[v].namespace = task[v].namespace
        /\ pc' = [pc EXCEPT ![w] = "load"]
    BY <1>1, <1>10 DEF StoreTemplate, Tasks
  <2>. QED  BY <1>1, <2>1
<1>11. CASE ComparePolicy(w) \/ CreatePolicyOf(w) \/ UpdatePolicyOf(w)
  <2> DEFINE u == [t EXCEPT !.i = @ + 1, !.name = None]
  <2>1. u.namespace = t.namespace
    BY <1>1 DEF Tasks
  <2>2. \/ Step(w, "load", u)
        \/ \E l : Step(w, l, t)
    BY <1>11 DEF ComparePolicy, CreatePolicyOf, UpdatePolicyOf, NextPolicy
  <2>. QED  BY <1>3, <2>1, <2>2
<1>12. CASE RangeBuffer(w)
  <2> DEFINE u == [t EXCEPT !.name = None, !.remaining = Loaded(w) \ Expected(w)]
  <2>1. u.namespace = t.namespace /\ Step(w, "sweep", u)
    BY <1>1, <1>12 DEF Tasks, RangeBuffer
  <2>. QED  BY <1>3, <2>1
<1>13. CASE FindPolicy(w)
  <2>1. PICK p : \/ Step(w, "remove", [[t EXCEPT !.remaining = @ \ {p}] EXCEPT !.name = p])
                 \/ Step(w, "sweep", [t EXCEPT !.remaining = @ \ {p}])
    BY <1>13 DEF FindPolicy
  <2> DEFINE u == [[t EXCEPT !.remaining = @ \ {p}] EXCEPT !.name = p]
             v == [t EXCEPT !.remaining = @ \ {p}]
  <2>2. u.namespace = t.namespace /\ v.namespace = t.namespace
    BY <1>1 DEF Tasks
  <2>. QED  BY <1>3, <2>1, <2>2
<1>14. CASE RemovePolicy(w) \/ EndSweep(w)
  BY <1>1, <1>3, <1>8, <1>14 DEF RemovePolicy, EndSweep
<1>. QED  BY <1>5, <1>6, <1>7, <1>9, <1>10, <1>11, <1>12, <1>13, <1>14 DEF HandlerStep

(* The steps of a handler.                                                 *)
LEMMA HoldersHandler ==
    ASSUME Inv, NEW w \in Workers, HandlerStep(w), ~Return(w)
    PROVE  HoldersOK'
<1>1. \A v \in Workers : pc'[v] # "idle" => pc[v] # "idle"
  BY HandlerKeeps
<1>. QED  BY <1>1, HandlerKeeps, HoldersFrame DEF queues

(* Get of either queue.                                                    *)
LEMMA GotHolding ==
    ASSUME NEW Keys, NEW Ws, NEW q \in Queues(Keys, Ws), NEW w \in Ws,
           Exclusive(q.holding), NEW k \in Keys, CanGet(q, w, k)
    PROVE  /\ Exclusive(Got(q, w, k).holding)
           /\ Got(q, w, k).holding = [q.holding EXCEPT ![w] = k]
<1>1. q.holding \in [Ws -> Keys \cup {None}]
  BY DEF Queues
<1>2. \A v \in Ws : k # None => q.holding[v] # k
  BY <1>1 DEF CanGet, Processing
<1>3. Got(q, w, k).holding = [q.holding EXCEPT ![w] = k]
  BY DEF Got, Queues
<1>. QED  BY <1>1, <1>2, <1>3 DEF Exclusive

(* Get and Done.                                                           *)
LEMMA HoldersItem ==
    ASSUME Inv, NEW w \in Workers, GetItem(w) \/ Return(w)
    PROVE  HoldersOK'
<1> DEFINE r == Home[w]
<1>1. /\ r \in Replicas
      /\ namespaceWorkqueue \in [Replicas -> Queues(Namespaces, NsWorkers)]
      /\ networkPolicyworkqueue \in [Replicas -> Queues(PolicyKeys, NpWorkers)]
      /\ pc \in [Workers -> Labels] /\ task \in [Workers -> Tasks]
      /\ HoldersOK
  BY WorkerAssumption DEF Inv, Typed, TypeOK, QueuesTypeOK, WorkersTypeOK
<1>2. ASSUME NEW n \in Namespaces, GetNamespaceItem(w, n)
      PROVE  HoldersOK'
  <2> DEFINE q == namespaceWorkqueue[r]
  <2>1. /\ w \in NsWorkers /\ w \notin NpWorkers /\ n # None
        /\ namespaceWorkqueue' = [namespaceWorkqueue EXCEPT ![r] = Got(q, w, n)]
        /\ networkPolicyworkqueue' = networkPolicyworkqueue
        /\ pc' = [pc EXCEPT ![w] = "lookup"]
        /\ task' = [task EXCEPT ![w] = [NoTask EXCEPT !.namespace = n]]
    BY <1>2, WorkerAssumption, NoneAssumption DEF GetNamespaceItem, Step, queues
  <2>2. Exclusive(Got(q, w, n).holding) /\ Got(q, w, n).holding = [q.holding EXCEPT ![w] = n]
    <3>1. /\ q \in Queues(Namespaces, NsWorkers) /\ w \in NsWorkers
          /\ Exclusive(q.holding) /\ CanGet(q, w, n)
      BY <1>1, <1>2 DEF GetNamespaceItem, HoldersOK
    <3> HIDE DEF q
    <3>. QED  BY <3>1, GotHolding
  <2>3. [NoTask EXCEPT !.namespace = n].namespace = n
    BY DEF NoTask
  <2>4. \A v \in Workers : Held(v)' = IF v = w THEN n ELSE Held(v)
    BY <1>1, <2>1, <2>2, WorkerAssumption DEF Held, Queues, Workers
  <2>7. \A v \in Workers : pc'[v] # "idle" => Held(v)' # None
    BY <1>1, <2>1, <2>4 DEF HoldersOK
  <2>8. \A v \in NsWorkers : task'[v].namespace \in {None, Held(v)'}
    BY <1>1, <2>1, <2>3, <2>4 DEF HoldersOK, Workers
  <2>9. \A x \in Replicas :
           /\ Exclusive(namespaceWorkqueue'[x].holding)
           /\ Exclusive(networkPolicyworkqueue'[x].holding)
    BY <1>1, <2>1, <2>2 DEF HoldersOK
  <2>. QED  BY <2>7, <2>8, <2>9 DEF HoldersOK
<1>3. ASSUME NEW k \in PolicyKeys, GetPolicyItem(w, k)
      PROVE  HoldersOK'
  <2> DEFINE q == networkPolicyworkqueue[r]
  <2>1. /\ w \in NpWorkers /\ w \notin NsWorkers /\ k # None
        /\ networkPolicyworkqueue' = [networkPolicyworkqueue EXCEPT ![r] = Got(q, w, k)]
        /\ namespaceWorkqueue' = namespaceWorkqueue
        /\ pc' = [pc EXCEPT ![w] = "lookup"]
        /\ \A v \in Workers : v # w => task'[v] = task[v]
    BY <1>1, <1>3, WorkerAssumption, NoneAssumption DEF GetPolicyItem, Step, queues
  <2>2. Exclusive(Got(q, w, k).holding) /\ Got(q, w, k).holding = [q.holding EXCEPT ![w] = k]
    <3>1. /\ q \in Queues(PolicyKeys, NpWorkers) /\ w \in NpWorkers
          /\ Exclusive(q.holding) /\ CanGet(q, w, k)
      BY <1>1, <1>3 DEF GetPolicyItem, HoldersOK
    <3> HIDE DEF q
    <3>. QED  BY <3>1, GotHolding
  <2>3. \A v \in Workers : Held(v)' = IF v = w THEN k ELSE Held(v)
    BY <1>1, <2>1, <2>2, WorkerAssumption DEF Held, Queues, Workers
  <2>7. \A v \in Workers : pc'[v] # "idle" => Held(v)' # None
    BY <1>1, <2>1, <2>3 DEF HoldersOK
  <2>8. \A v \in NsWorkers : task'[v].namespace \in {None, Held(v)'}
    BY <1>1, <2>1, <2>3 DEF HoldersOK, Workers
  <2>9. \A x \in Replicas :
           /\ Exclusive(namespaceWorkqueue'[x].holding)
           /\ Exclusive(networkPolicyworkqueue'[x].holding)
    BY <1>1, <2>1, <2>2 DEF HoldersOK
  <2>. QED  BY <2>7, <2>8, <2>9 DEF HoldersOK
<1>4. CASE Return(w)
  <2> DEFINE failed == pc[w] = "failed"
  <2>1. /\ pc' = [pc EXCEPT ![w] = "idle"] /\ task' = [task EXCEPT ![w] = NoTask]
        /\ NoTask.namespace = None
    BY <1>4 DEF Return, Step, NoTask
  <2>2. CASE w \in NsWorkers
    <3> DEFINE q == namespaceWorkqueue[r]
    <3>1. /\ namespaceWorkqueue' = [namespaceWorkqueue EXCEPT ![r] = Returned(q, w, failed)]
          /\ networkPolicyworkqueue' = networkPolicyworkqueue /\ w \notin NpWorkers
      BY <1>4, <2>2, WorkerAssumption DEF Return
    <3>2. /\ Exclusive(Returned(q, w, failed).holding)
          /\ Returned(q, w, failed).holding = [q.holding EXCEPT ![w] = None]
      <4>1. /\ q \in Queues(Namespaces, NsWorkers) /\ w \in NsWorkers
            /\ Exclusive(q.holding)
        BY <1>1, <2>2 DEF HoldersOK
      <4> DEFINE x == Returned(q, w, failed)
      <4>2. x \in {Finished(q, w), Finished(Delayed(q, w), w)}
        BY DEF Returned
      <4> HIDE DEF q, x
      <4>3. x.holding = [q.holding EXCEPT ![w] = None]
        BY <4>1, <4>2 DEF Finished, Delayed, Queues
      <4>4. Exclusive(x.holding)
        BY <4>1, <4>3 DEF Queues, Exclusive
      <4>. QED  BY <4>3, <4>4 DEF x
    <3>3. \A v \in Workers : v # w => Held(v)' = Held(v)
      BY <1>1, <2>2, <3>1, <3>2, WorkerAssumption DEF Held, Queues, Workers
    <3>7. \A v \in Workers : pc'[v] # "idle" => Held(v)' # None
      BY <1>1, <2>1, <3>3 DEF HoldersOK
    <3>8. \A v \in NsWorkers : task'[v].namespace \in {None, Held(v)'}
      BY <1>1, <2>1, <3>3 DEF HoldersOK, Workers
    <3>9. \A x \in Replicas :
             /\ Exclusive(namespaceWorkqueue'[x].holding)
             /\ Exclusive(networkPolicyworkqueue'[x].holding)
      BY <1>1, <3>1, <3>2 DEF HoldersOK
    <3>. QED  BY <3>7, <3>8, <3>9 DEF HoldersOK
  <2>3. CASE w \notin NsWorkers
    <3> DEFINE q == networkPolicyworkqueue[r]
    <3>1. /\ networkPolicyworkqueue' =
                [networkPolicyworkqueue EXCEPT ![r] = Returned(q, w, failed)]
          /\ namespaceWorkqueue' = namespaceWorkqueue /\ w \in NpWorkers
      BY <1>4, <2>3 DEF Return, Workers
    <3>2. /\ Exclusive(Returned(q, w, failed).holding)
          /\ Returned(q, w, failed).holding = [q.holding EXCEPT ![w] = None]
      <4>1. q \in Queues(PolicyKeys, NpWorkers) /\ Exclusive(q.holding)
        BY <1>1 DEF HoldersOK
      <4> DEFINE x == Returned(q, w, failed)
      <4>2. x \in {Finished(q, w), Finished(Delayed(q, w), w)}
        BY DEF Returned
      <4> HIDE DEF q, x
      <4>3. x.holding = [q.holding EXCEPT ![w] = None]
        BY <4>1, <4>2 DEF Finished, Delayed, Queues
      <4>4. Exclusive(x.holding)
        BY <3>1, <4>1, <4>3 DEF Queues, Exclusive
      <4>. QED  BY <4>3, <4>4 DEF x
    <3>3. \A v \in Workers : v # w => Held(v)' = Held(v)
      BY <1>1, <2>3, <3>1, <3>2, WorkerAssumption DEF Held, Queues, Workers
    <3>7. \A v \in Workers : pc'[v] # "idle" => Held(v)' # None
      BY <1>1, <2>1, <3>3 DEF HoldersOK
    <3>8. \A v \in NsWorkers : task'[v].namespace \in {None, Held(v)'}
      BY <1>1, <2>1, <3>3 DEF HoldersOK, Workers
    <3>9. \A x \in Replicas :
             /\ Exclusive(namespaceWorkqueue'[x].holding)
             /\ Exclusive(networkPolicyworkqueue'[x].holding)
      BY <1>1, <3>1, <3>2 DEF HoldersOK
    <3>. QED  BY <3>7, <3>8, <3>9 DEF HoldersOK
  <2>. QED  BY <2>2, <2>3
<1>. QED  BY <1>2, <1>3, <1>4 DEF GetItem

(* What happens outside the workers.                                       *)
LEMMA HoldersElsewhere ==
    ASSUME Inv,
           Others \/ UNCHANGED vars \/ \E r \in Replicas :
              \/ Start(r) \/ Crash(r) \/ MapRace(r)
              \/ UpdateEnforcement(r) \/ UpdateNames(r) \/ Informers(r)
    PROVE  HoldersOK'
<1>1. /\ namespaceWorkqueue \in [Replicas -> Queues(Namespaces, NsWorkers)]
      /\ networkPolicyworkqueue \in [Replicas -> Queues(PolicyKeys, NpWorkers)]
  BY DEF Inv, Typed, TypeOK, QueuesTypeOK
<1>2. CASE Others \/ UNCHANGED vars \/ \E r \in Replicas :
              UpdateEnforcement(r) \/ UpdateNames(r)
  BY <1>2, HoldersFrame
     DEF Others, UpdateEnforcement, UpdateNames, queues, vars
<1>3. ASSUME NEW r \in Replicas, Start(r) \/ Informers(r)
      PROVE  HoldersOK'
  <2>1. UNCHANGED <<pc, task>>
    BY <1>3 DEF Start, Informers, DeliverNamespace, DeliverPolicy, FireNamespace, FirePolicy
  <2>2. /\ \E ks : namespaceWorkqueue' = [namespaceWorkqueue EXCEPT ![r] = Added(@, ks)]
        /\ UNCHANGED networkPolicyworkqueue
     \/ /\ \E n : namespaceWorkqueue' = [namespaceWorkqueue EXCEPT ![r] = Fired(@, n)]
        /\ UNCHANGED networkPolicyworkqueue
     \/ /\ \E ks : networkPolicyworkqueue' =
                     [networkPolicyworkqueue EXCEPT ![r] = Added(@, ks)]
        /\ UNCHANGED namespaceWorkqueue
     \/ /\ \E k : networkPolicyworkqueue' =
                     [networkPolicyworkqueue EXCEPT ![r] = Fired(@, k)]
        /\ UNCHANGED namespaceWorkqueue
    BY <1>3 DEF Start, Informers, DeliverNamespace, DeliverPolicy, FireNamespace, FirePolicy
  <2>3. ASSUME NEW Keys, NEW Ws, NEW q \in Queues(Keys, Ws)
        PROVE  /\ \A ks : Added(q, ks).holding = q.holding
               /\ \A k : Fired(q, k).holding = q.holding
    BY DEF Queues, Added, Fired
  <2>4. /\ \A ks : /\ Added(namespaceWorkqueue[r], ks).holding
                         = namespaceWorkqueue[r].holding
                   /\ Added(networkPolicyworkqueue[r], ks).holding
                         = networkPolicyworkqueue[r].holding
        /\ \A k : /\ Fired(namespaceWorkqueue[r], k).holding
                         = namespaceWorkqueue[r].holding
                  /\ Fired(networkPolicyworkqueue[r], k).holding
                         = networkPolicyworkqueue[r].holding
    BY <1>1, <2>3
  <2>5. \A x \in Replicas :
           /\ namespaceWorkqueue'[x].holding = namespaceWorkqueue[x].holding
           /\ networkPolicyworkqueue'[x].holding = networkPolicyworkqueue[x].holding
    BY <1>1, <2>2, <2>4
  <2>. QED  BY <2>1, <2>5, HoldersFrame
<1>4. ASSUME NEW r \in Replicas, Exit(r)
      PROVE  HoldersOK'
  <2>1. /\ \A w \in Workers : IF Home[w] = r
                              THEN pc'[w] = "idle" /\ task'[w] = NoTask
                              ELSE pc'[w] = pc[w] /\ task'[w] = task[w]
        /\ \A x \in Replicas : IF x = r
              THEN /\ namespaceWorkqueue'[x] = EmptyQueue(NsWorkers)
                   /\ networkPolicyworkqueue'[x] = EmptyQueue(NpWorkers)
              ELSE /\ namespaceWorkqueue'[x] = namespaceWorkqueue[x]
                   /\ networkPolicyworkqueue'[x] = networkPolicyworkqueue[x]
    BY <1>1, <1>4 DEF Exit
  <2>2. /\ NoTask.namespace = None
        /\ Exclusive(EmptyQueue(NsWorkers).holding)
        /\ Exclusive(EmptyQueue(NpWorkers).holding)
    BY DEF NoTask, EmptyQueue, Exclusive
  <2>3. \A w \in Workers : Home[w] # r => Held(w)' = Held(w)
    BY <2>1, WorkerAssumption DEF Held
  <2>. QED  BY <2>1, <2>2, <2>3, WorkerAssumption DEF Inv, HoldersOK, Workers
<1>. QED  BY <1>2, <1>3, <1>4 DEF Crash, MapRace

----------------------------------------------------------------------------
(* Inv holds initially.                                                    *)
LEMMA InvInit == Init => Inv
<1> SUFFICES ASSUME Init PROVE Inv
  OBVIOUS
<1>1. /\ \A w \in Workers : pc[w] = "idle" /\ task[w].namespace = None
      /\ \A r \in Replicas : /\ Exclusive(namespaceWorkqueue[r].holding)
                             /\ Exclusive(networkPolicyworkqueue[r].holding)
  BY DEF Init, NoTask, EmptyQueue, Exclusive
<1>2. TaskOK /\ HoldersOK
  BY <1>1 DEF TaskOK, SoundAt, SoundIn, Looping, AtPolicy, Sweeping, HoldersOK, Workers
<1>. QED  BY <1>2, TypeInit DEF Inv, Typed

(* Inv holds in every reachable state.                                     *)
LEMMA InvAlways == Spec => []Inv
<1>1. Inv /\ [Next]_vars => Inv'
  BY TypedNext, HoldersElsewhere, HoldersItem, HoldersHandler DEF Inv, Next, HandlerStep
<1>. QED  BY <1>1, InvInit, PTL DEF Spec

(***************************************************************************)
(* The variables have their types: what goes through the streams, queues   *)
(* and tasks are namespaces, policies and settings.                        *)
(***************************************************************************)
THEOREM TypeCorrect == Spec => []TypeOK
BY InvAlways, PTL DEF Inv, Typed

(***************************************************************************)
(* reconcileIsNeeded, updateDefaultNetworkPolicy,                          *)
(* createDefaultNetworkPolicy and syncNetworkPolicy never dereference a    *)
(* policy that is not in the buffer, with any number of workers.           *)
(***************************************************************************)
THEOREM NoNil == Spec => []NoNilDereference
<1>1. Inv => NoNilDereference
  <2> SUFFICES ASSUME Inv, NEW w \in Workers
               PROVE  /\ pc[w] \in AtPolicy => task[w].name \in Loaded(w)
                      /\ w \in NpWorkers /\ pc[w] = "load"
                         /\ task[w].i > Len(task[w].value)
                         /\ task[w].name \in Expected(w) => task[w].name \in Loaded(w)
    BY DEF NoNilDereference, AtPolicy
  <2>1. SoundAt(w, pc[w], task[w]) /\ task[w] \in Tasks
    BY WorkerLemma
  <2>2. ASSUME w \in NpWorkers, pc[w] = "load", task[w].i > Len(task[w].value),
               task[w].name \in Expected(w)
        PROVE  task[w].name \in Loaded(w)
    <3>1. PICK j \in DOMAIN task[w].value : task[w].name = task[w].value[j]
      BY <2>2 DEF Expected, Listed
    <3>2. task[w].value \in Settings /\ task[w].i \in Nat
      BY <2>1, <2>2 DEF SoundAt, SoundIn, Looping, Tasks
    <3>3. j < task[w].i
      BY <2>2, <3>1, <3>2, SettingLemma
    <3>. QED  BY <2>1, <2>2, <3>1, <3>3 DEF SoundAt, SoundIn, Looping
  <2>. QED  BY <2>1, <2>2 DEF SoundAt, SoundIn
<1>. QED  BY <1>1, InvAlways, PTL

(***************************************************************************)
(* No two workers of a replica run the handler of the same item, whatever  *)
(* is added to the queues while they do (config_reconciler.go:46-49).      *)
(***************************************************************************)
THEOREM ExclusiveHandlers == Spec => []OneWorkerPerItem
<1>1. Inv => OneWorkerPerItem
  <2> SUFFICES ASSUME Inv, NEW v \in Workers, NEW w \in Workers, v # w,
                      Home[v] = Home[w], pc[v] # "idle", pc[w] # "idle"
               PROVE  /\ {v, w} \subseteq NsWorkers =>
                           \/ task[v].namespace # task[w].namespace
                           \/ None \in {task[v].namespace, task[w].namespace}
                      /\ {v, w} \subseteq NpWorkers =>
                           networkPolicyworkqueue[Home[v]].holding[v]
                              # networkPolicyworkqueue[Home[w]].holding[w]
    BY DEF OneWorkerPerItem
  <2>1. Home[v] \in Replicas /\ HoldersOK /\ NsWorkers \cap NpWorkers = {}
    BY WorkerAssumption DEF Inv
  <2>2. /\ DOMAIN namespaceWorkqueue[Home[v]].holding = NsWorkers
        /\ DOMAIN networkPolicyworkqueue[Home[v]].holding = NpWorkers
    BY <2>1 DEF Inv, Typed, TypeOK, QueuesTypeOK, Queues
  <2>3. Held(v) # None /\ Held(w) # None
    BY <2>1 DEF HoldersOK
  <2>4. CASE {v, w} \subseteq NsWorkers
    BY <2>1, <2>2, <2>3, <2>4 DEF HoldersOK, Exclusive, Held
  <2>5. CASE {v, w} \subseteq NpWorkers
    BY <2>1, <2>2, <2>3, <2>5 DEF HoldersOK, Exclusive, Held
  <2>. QED  BY <2>1, <2>4, <2>5
<1>. QED  BY <1>1, InvAlways, PTL

(* Besides other parties only a handler writes a policy.                   *)
LEMMA WritersOfPolicies ==
    ASSUME [Next]_vars, ~Others, ~\E w \in Workers : HandlerStep(w)
    PROVE  UNCHANGED policy
<1>1. ASSUME NEW r \in Replicas, Start(r) \/ Crash(r) \/ MapRace(r) PROVE UNCHANGED policy
  BY <1>1 DEF Start, Crash, MapRace, Exit, objects
<1>2. ASSUME NEW r \in Replicas, UpdateEnforcement(r) \/ UpdateNames(r) PROVE UNCHANGED policy
  BY <1>2 DEF UpdateEnforcement, UpdateNames, objects
<1>3. ASSUME NEW r \in Replicas, Informers(r) PROVE UNCHANGED policy
  BY <1>3 DEF Informers, DeliverNamespace, DeliverPolicy, FireNamespace, FirePolicy, objects
<1>4. ASSUME NEW w \in Workers, GetItem(w) PROVE UNCHANGED policy
  BY <1>4 DEF GetItem, GetNamespaceItem, GetPolicyItem, objects
<1>. QED  BY <1>1, <1>2, <1>3, <1>4 DEF Next, vars, objects

(* A worker writes or deletes no policy but those its buffer holds.        *)
LEMMA HandlerWrites ==
    ASSUME Inv, NEW w \in Workers, HandlerStep(w)
    PROVE  \/ UNCHANGED policy
           \/ /\ task[w].name \in Loaded(w)
              /\ \E v : policy' = [policy EXCEPT ![Key(w)] = v]
<1>1. CASE CreatePolicyOf(w) \/ UpdatePolicyOf(w) \/ RemovePolicy(w)
  <2>1. task[w].name \in Loaded(w)
    <3>1. pc[w] \in AtPolicy \cup {"remove"}
      BY <1>1 DEF CreatePolicyOf, UpdatePolicyOf, RemovePolicy, AtPolicy
    <3>. QED  BY <3>1, WorkerLemma DEF SoundAt, SoundIn
  <2>. QED  BY <1>1, <2>1 DEF CreatePolicyOf, UpdatePolicyOf, RemovePolicy, PutPolicy
<1>2. CASE ~(CreatePolicyOf(w) \/ UpdatePolicyOf(w) \/ RemovePolicy(w))
  BY <1>2 DEF HandlerStep, LookupNamespace, ReadNamespace, ReadNames, ReadEnforcement,
              LoadBuffer, FetchTemplate, StoreTemplate, ComparePolicy, RangeBuffer,
              FindPolicy, EndSweep, Return, Shared, objects
<1>. QED  BY <1>1, <1>2

(* Other parties count their changes, but for what Kubernetes does to a    *)
(* namespace that terminates.                                              *)
LEMMA OthersWrite ==
    ASSUME Inv, OtherParties, changes' = changes, NEW k \in PolicyKeys, Active(k[1])
    PROVE  policy'[k] = policy[k]
<1>1. changes \in Nat /\ policy \in [PolicyKeys -> PolicyObjects \cup {None}]
  BY BoundAssumption DEF Inv, Typed, TypeOK, ClusterTypeOK
<1>2. \A kind : ~Change(kind)
  BY <1>1 DEF Change
<1>3. \/ \E n \in Namespaces : RemoveNamespace(n)
      \/ \E j \in PolicyKeys : EmptyNamespace(j)
  BY <1>2 DEF OtherParties, CreateNamespace, AnnotateNamespace, TerminateNamespace,
              BreakNamespaceWatch, BreakPolicyWatch, CreatePolicy, ModifyPolicy,
              DeletePolicy, ChangeTemplate, ChangeConfig
<1>4. ASSUME NEW j \in PolicyKeys, EmptyNamespace(j) PROVE policy'[k] = policy[k]
  <2>1. j # k
    BY <1>4 DEF EmptyNamespace, Active
  <2>. QED  BY <1>1, <1>4, <2>1 DEF EmptyNamespace, PutPolicy
<1>. QED  BY <1>3, <1>4 DEF RemoveNamespace

(***************************************************************************)
(* karydia neither changes nor deletes a policy whose name it has not      *)
(* loaded (deleteMultipleDefaultNetworkPolicies ranges over the buffer).   *)
(***************************************************************************)
THEOREM ForeignKept == Spec => ForeignUntouched
<1> DEFINE Kept == \A n \in Namespaces, p \in Names :
                      /\ \A r \in Replicas : defaultNetworkPolicies[r][p] = None
                      /\ changes' = changes /\ Active(n)
                      => policy'[<<n, p>>] = policy[<<n, p>>]
<1>1. Inv /\ [Next]_vars => [Kept]_vars
  <2> SUFFICES ASSUME Inv, Next, NEW n \in Namespaces, NEW p \in Names,
                      \A r \in Replicas : defaultNetworkPolicies[r][p] = None,
                      changes' = changes, Active(n)
               PROVE  policy'[<<n, p>>] = policy[<<n, p>>]
    OBVIOUS
  <2>1. /\ policy \in [PolicyKeys -> PolicyObjects \cup {None}]
        /\ <<n, p>> \in PolicyKeys /\ <<n, p>>[1] = n
    BY DEF Inv, Typed, TypeOK, ClusterTypeOK, PolicyKeys
  <2>2. ASSUME NEW w \in Workers, HandlerStep(w)
        PROVE  policy'[<<n, p>>] = policy[<<n, p>>]
    <3>1. p \notin Loaded(w)
      BY WorkerAssumption DEF Loaded, Buffer
    <3>2. task[w].name \in Loaded(w) => Key(w) # <<n, p>>
      BY <3>1 DEF Key
    <3>. QED  BY <2>1, <2>2, <3>2, HandlerWrites
  <2>3. CASE Others
    BY <2>1, <2>3, OthersWrite DEF Others
  <2>4. CASE ~Others /\ ~\E w \in Workers : HandlerStep(w)
    <3>1. UNCHANGED policy
      BY <2>4, WritersOfPolicies
    <3>. QED  BY <3>1
  <2>. QED  BY <2>2, <2>3, <2>4
<1>. QED  BY <1>1, InvAlways, PTL DEF Spec, ForeignUntouched

----------------------------------------------------------------------------
(***************************************************************************)
(* What keeps karydia out of an excluded namespace as long as nobody else  *)
(* creates a policy there: as there is no policy, none is on its way to an *)
(* informer and none is queued, so that no policy worker comes there; and  *)
(* a namespace worker leaves as soon as it looks.                          *)
(***************************************************************************)
ExcludedKeys == Excluded \X Names

Apart(q) ==
    /\ (q.dirty \cup q.delayed) \cap ExcludedKeys = {}
    /\ \A w \in NpWorkers : q.holding[w] \notin ExcludedKeys

NothingThere ==
    \A k \in ExcludedKeys :
        policy[k] = None /\ \A r \in Replicas : policyStream[r][k] = << >>

NothingQueued == \A r \in Replicas : Apart(networkPolicyworkqueue[r])

NobodyThere ==
    \A w \in Workers :
        task[w].namespace \in Excluded => w \in NsWorkers /\ pc[w] = "lookup"

Vacant == NothingThere /\ NothingQueued /\ NobodyThere

(* The keys of policies in excluded namespaces.                            *)
LEMMA ExcludedLemma ==
    /\ ExcludedKeys \subseteq PolicyKeys /\ None \notin ExcludedKeys /\ None \notin Excluded
    /\ \A k \in PolicyKeys : k \in ExcludedKeys <=> k[1] \in Excluded
BY ExcludedAssumption, NoneAssumption DEF ExcludedKeys, PolicyKeys

(* The operations of the queue let no key in that was not in it.           *)
LEMMA ApartLemma ==
    ASSUME NEW q \in Queues(PolicyKeys, NpWorkers), Apart(q)
    PROVE  /\ \A ks : ks \cap ExcludedKeys = {} => Apart(Added(q, ks))
           /\ \A k \in q.delayed : Apart(Fired(q, k))
           /\ \A w \in NpWorkers : \A k : CanGet(q, w, k) => /\ k \notin ExcludedKeys
                                                           /\ Apart(Got(q, w, k))
           /\ \A w \in NpWorkers : \A failed : Apart(Returned(q, w, failed))
<1>1. q.holding \in [NpWorkers -> PolicyKeys \cup {None}] /\ None \notin ExcludedKeys
  BY ExcludedLemma DEF Queues
<1>2. ASSUME NEW ks, ks \cap ExcludedKeys = {} PROVE Apart(Added(q, ks))
  BY <1>2 DEF Apart, Added, Queues
<1>3. ASSUME NEW k \in q.delayed PROVE Apart(Fired(q, k))
  BY <1>3 DEF Apart, Fired, Queues
<1>4. ASSUME NEW w \in NpWorkers, NEW k, CanGet(q, w, k)
      PROVE  k \notin ExcludedKeys /\ Apart(Got(q, w, k))
  BY <1>1, <1>4 DEF Apart, CanGet, Got, Queues
<1>5. ASSUME NEW w \in NpWorkers, NEW failed PROVE Apart(Returned(q, w, failed))
  <2>1. /\ Finished(q, w).dirty = q.dirty /\ Finished(q, w).delayed = q.delayed
        /\ Finished(q, w).holding = [q.holding EXCEPT ![w] = None]
    BY DEF Finished, Queues
  <2>2. Apart(Finished(q, w))
    BY <1>1, <2>1 DEF Apart
  <2>3. /\ Finished(Delayed(q, w), w).dirty = q.dirty
        /\ Finished(Delayed(q, w), w).delayed = q.delayed \cup {q.holding[w]}
        /\ Finished(Delayed(q, w), w).holding = [q.holding EXCEPT ![w] = None]
    BY DEF Finished, Delayed, Queues
  <2>4. Apart(Finished(Delayed(q, w), w))
    BY <1>1, <2>3 DEF Apart
  <2>. QED  BY <2>2, <2>4 DEF Returned
<1>. QED  BY <1>2, <1>3, <1>4, <1>5

(* Writing a policy elsewhere leaves excluded namespaces alone.            *)
LEMMA WritingElsewhere ==
    ASSUME Inv, NothingThere, NEW k \in PolicyKeys, k \notin ExcludedKeys, NEW v,
           PutPolicy(k, v)
    PROVE  NothingThere'
<1>1. /\ policy \in [PolicyKeys -> PolicyObjects \cup {None}]
      /\ policyStream \in [Replicas -> [PolicyKeys -> Seq(Events(PolicyObjects))]]
  BY DEF Inv, Typed, TypeOK, ClusterTypeOK
<1>2. \A j \in ExcludedKeys : policy'[j] = policy[j]
  BY <1>1, ExcludedLemma DEF PutPolicy
<1>3. \A j \in ExcludedKeys, r \in Replicas : policyStream'[r][j] = policyStream[r][j]
  BY <1>1, ExcludedLemma DEF PutPolicy, Published
<1>. QED  BY <1>2, <1>3 DEF NothingThere

(* Other parties, who create no policies.                                  *)
LEMMA VacantOthers ==
    ASSUME "CreatePolicy" \notin Environment, Inv, Vacant, Others
    PROVE  Vacant'
<1>1. NothingQueued' /\ NobodyThere'
  BY DEF Others, queues, Vacant, NothingQueued, NobodyThere
<1> SUFFICES NothingThere'
  BY <1>1 DEF Vacant
<1>2. CASE UNCHANGED <<policy, policyStream>>
  BY <1>2 DEF Vacant, NothingThere
<1>3. ASSUME NEW k \in PolicyKeys, NEW s \in Specs,
             CreatePolicy(k, s) \/ ModifyPolicy(k, s)
      PROVE  NothingThere'
  <2>1. ~CreatePolicy(k, s)
    BY DEF CreatePolicy, Change
  <2>2. policy[k] # None /\ \E v : PutPolicy(k, v)
    BY <1>3, <2>1 DEF ModifyPolicy
  <2>3. k \notin ExcludedKeys
    BY <2>2 DEF Vacant, NothingThere
  <2>. QED  BY <2>2, <2>3, WritingElsewhere DEF Vacant
<1>4. ASSUME NEW r \in Replicas, NEW k \in PolicyKeys,
             NEW kept \in 0..Len(policyStream[r][k]), BreakPolicyWatch(r, k, kept)
      PROVE  NothingThere'
  <2>1. policyStream \in [Replicas -> [PolicyKeys -> Seq(Events(PolicyObjects))]]
    BY DEF Inv, Typed, TypeOK, ClusterTypeOK
  <2>2. k \notin ExcludedKeys
    <3>1. Len(<< >>) = 0 /\ kept < Len(policyStream[r][k])
      BY <1>4, EmptySeq DEF BreakPolicyWatch
    <3>. QED  BY <3>1 DEF Vacant, NothingThere
  <2>3. \A j \in ExcludedKeys, q \in Replicas : policyStream'[q][j] = policyStream[q][j]
    BY <1>4, <2>1, <2>2, ExcludedLemma DEF BreakPolicyWatch
  <2>. QED  BY <1>4, <2>3 DEF BreakPolicyWatch, objects, Vacant, NothingThere
<1>5. ASSUME NEW k \in PolicyKeys, DeletePolicy(k) \/ EmptyNamespace(k)
      PROVE  NothingThere'
  <2>1. policy[k] # None /\ PutPolicy(k, None)
    BY <1>5 DEF DeletePolicy, EmptyNamespace
  <2>. QED  BY <2>1, WritingElsewhere DEF Vacant, NothingThere
<1>6. \/ UNCHANGED <<policy, policyStream>>
      \/ \E k \in PolicyKeys :
            \/ \E s \in Specs : CreatePolicy(k, s) \/ ModifyPolicy(k, s)
            \/ DeletePolicy(k)
            \/ EmptyNamespace(k)
            \/ \E r \in Replicas : \E kept \in 0..Len(policyStream[r][k]) :
                  BreakPolicyWatch(r, k, kept)
  <2>1. OtherParties
    BY DEF Others
  <2>2. CASE \E n \in Namespaces :
                \/ \E a \in Settings \cup {None} :
                      CreateNamespace(n, a) \/ AnnotateNamespace(n, a)
                \/ TerminateNamespace(n)
                \/ RemoveNamespace(n)
                \/ \E r \in Replicas : \E kept \in 0..Len(namespaceStream[r][n]) :
                      BreakNamespaceWatch(r, n, kept)
    BY <2>2 DEF CreateNamespace, AnnotateNamespace, TerminateNamespace, RemoveNamespace,
                BreakNamespaceWatch, objects
  <2>3. CASE \/ \E p \in Names, s \in Specs \cup {None} : ChangeTemplate(p, s)
             \/ \E c \in Configs : ChangeConfig(c)
    BY <2>3 DEF ChangeTemplate, ChangeConfig, streams
  <2>. QED  BY <2>1, <2>2, <2>3 DEF OtherParties
<1>. QED  BY <1>2, <1>3, <1>4, <1>5, <1>6

(* The process and its informers.                                          *)
LEMMA VacantProcess ==
    ASSUME Inv, Vacant, NEW r \in Replicas,
           \/ Start(r) \/ Crash(r) \/ MapRace(r)
           \/ UpdateEnforcement(r) \/ UpdateNames(r) \/ Informers(r)
    PROVE  Vacant'
<1>1. /\ policyStream \in [Replicas -> [PolicyKeys -> Seq(Events(PolicyObjects))]]
      /\ networkPolicyworkqueue \in [Replicas -> Queues(PolicyKeys, NpWorkers)]
      /\ pc \in [Workers -> Labels] /\ task \in [Workers -> Tasks]
  BY DEF Inv, Typed, TypeOK, ClusterTypeOK, QueuesTypeOK, WorkersTypeOK
<1>2. CASE UNCHANGED <<policy, policyStream, networkPolicyworkqueue, pc, task>>
  BY <1>2 DEF Vacant, NothingThere, NothingQueued, NobodyThere
<1>3. CASE Exit(r)
  <2>1. NothingThere'
    BY <1>1, <1>3, ExcludedLemma DEF Exit, objects, Vacant, NothingThere
  <2>2. NothingQueued'
    <3>1. Apart(EmptyQueue(NpWorkers))
      BY ExcludedLemma DEF Apart, EmptyQueue
    <3>. QED  BY <1>1, <1>3, <3>1 DEF Exit, Vacant, NothingQueued
  <2>3. NobodyThere'
    <3>1. NoTask.namespace \notin Excluded
      BY ExcludedLemma DEF NoTask
    <3>. QED  BY <1>3, <3>1 DEF Exit, Vacant, NobodyThere
  <2>. QED  BY <2>1, <2>2, <2>3 DEF Vacant
<1>4. ASSUME NEW k \in PolicyKeys, DeliverPolicy(r, k)
      PROVE  Vacant'
  <2>1. k \notin ExcludedKeys
    BY <1>4 DEF DeliverPolicy, Vacant, NothingThere
  <2>2. NothingThere' /\ NobodyThere'
    BY <1>1, <1>4, <2>1, ExcludedLemma
    DEF DeliverPolicy, objects, Vacant, NothingThere, NobodyThere
  <2>3. PICK ks : /\ ks \subseteq {k}
                  /\ networkPolicyworkqueue' =
                       [networkPolicyworkqueue EXCEPT ![r] = Added(@, ks)]
    BY <1>4 DEF DeliverPolicy
  <2>4. Apart(Added(networkPolicyworkqueue[r], ks))
    BY <1>1, <2>1, <2>3, ApartLemma DEF Vacant, NothingQueued
  <2>5. NothingQueued'
    BY <1>1, <2>3, <2>4 DEF Vacant, NothingQueued
  <2>. QED  BY <2>2, <2>5 DEF Vacant
<1>5. ASSUME NEW k \in PolicyKeys, FirePolicy(r, k)
      PROVE  Vacant'
  <2>1. Apart(Fired(networkPolicyworkqueue[r], k))
    BY <1>1, <1>5, ApartLemma DEF FirePolicy, Vacant, NothingQueued
  <2>2. NothingQueued'
    BY <1>1, <1>5, <2>1 DEF FirePolicy, Vacant, NothingQueued
  <2>. QED
    BY <1>5, <2>2 DEF FirePolicy, objects, streams, Vacant, NothingThere, NobodyThere
<1>6. CASE Start(r) \/ UpdateEnforcement(r) \/ UpdateNames(r)
           \/ \E n \in Namespaces : DeliverNamespace(r, n) \/ FireNamespace(r, n)
  BY <1>2, <1>6 DEF Start, UpdateEnforcement, UpdateNames, DeliverNamespace, FireNamespace,
                    objects, streams, queues
<1>. QED  BY <1>3, <1>4, <1>5, <1>6 DEF Crash, MapRace, Informers

(* The workers take their items and return them.                           *)
LEMMA VacantItem ==
    ASSUME Inv, Vacant, NEW w \in Workers, GetItem(w) \/ Return(w)
    PROVE  Vacant'
<1> DEFINE r == Home[w]
<1>1. /\ r \in Replicas
      /\ networkPolicyworkqueue \in [Replicas -> Queues(PolicyKeys, NpWorkers)]
      /\ pc \in [Workers -> Labels] /\ task \in [Workers -> Tasks]
      /\ NsWorkers \cap NpWorkers = {}
  BY WorkerAssumption DEF Inv, Typed, TypeOK, QueuesTypeOK, WorkersTypeOK
<1>2. Apart(networkPolicyworkqueue[r]) /\ networkPolicyworkqueue[r] \in Queues(PolicyKeys, NpWorkers)
  BY <1>1 DEF Vacant, NothingQueued
<1>3. NothingThere'
  BY DEF GetItem, GetNamespaceItem, GetPolicyItem, Return, objects, streams, Vacant, NothingThere
<1>4. ASSUME NEW n \in Namespaces, GetNamespaceItem(w, n)
      PROVE  Vacant'
  <2>1. NothingQueued'
    BY <1>4 DEF GetNamespaceItem, Vacant, NothingQueued
  <2>2. NobodyThere'
    BY <1>1, <1>4 DEF GetNamespaceItem, Step, Vacant, NobodyThere
  <2>. QED  BY <1>3, <2>1, <2>2 DEF Vacant
<1>5. ASSUME NEW k \in PolicyKeys, GetPolicyItem(w, k)
      PROVE  Vacant'
  <2>1. k \notin ExcludedKeys /\ Apart(Got(networkPolicyworkqueue[r], w, k))
    BY <1>2, <1>5, ApartLemma DEF GetPolicyItem
  <2>2. NothingQueued'
    BY <1>1, <1>5, <2>1 DEF GetPolicyItem, Vacant, NothingQueued
  <2>3. [NoTask EXCEPT !.namespace = k[1], !.name = k[2]].namespace = k[1]
    BY DEF NoTask
  <2>4. NobodyThere'
    BY <1>1, <1>5, <2>1, <2>3, ExcludedLemma DEF GetPolicyItem, Step, Vacant, NobodyThere
  <2>. QED  BY <1>3, <2>2, <2>4 DEF Vacant
<1>6. CASE Return(w)
  <2>1. NothingQueued'
    <3>1. CASE w \in NsWorkers
      BY <1>6, <3>1 DEF Return, Vacant, NothingQueued
    <3>2. CASE w \in NpWorkers /\ w \notin NsWorkers
      <4>1. Apart(Returned(networkPolicyworkqueue[r], w, pc[w] = "failed"))
        BY <1>2, <3>2, ApartLemma
      <4>. QED  BY <1>1, <1>6, <3>2, <4>1 DEF Return, Vacant, NothingQueued
    <3>. QED  BY <3>1, <3>2 DEF Workers
  <2>2. NoTask.namespace \notin Excluded
    BY ExcludedLemma DEF NoTask
  <2>3. NobodyThere'
    BY <1>1, <1>6, <2>2 DEF Return, Step, Vacant, NobodyThere
  <2>. QED  BY <1>3, <2>1, <2>3 DEF Vacant
<1>. QED  BY <1>4, <1>5, <1>6 DEF GetItem

(* The steps of a handler.                                                 *)
LEMMA VacantHandler ==
    ASSUME Inv, Vacant, NEW w \in Workers, HandlerStep(w), ~Return(w)
    PROVE  Vacant'
<1>1. NothingQueued'
  BY HandlerKeeps DEF queues, Vacant, NothingQueued
<1>2. NobodyThere'
  <2> SUFFICES ASSUME NEW v \in Workers, task'[v].namespace \in Excluded
               PROVE  v \in NsWorkers /\ pc'[v] = "lookup"
    BY DEF NobodyThere
  <2>1. v \in NsWorkers /\ pc[v] = "lookup" /\ task[v].namespace \in Excluded
    BY HandlerKeeps, ExcludedLemma DEF Vacant, NobodyThere
  <2>2. CASE v = w
    <3>1. LookupNamespace(w)
      BY <2>1, <2>2, WorkerAssumption
      DEF HandlerStep, ReadNamespace, ReadNames, ReadEnforcement, LoadBuffer, FetchTemplate,
          StoreTemplate, ComparePolicy, CreatePolicyOf, UpdatePolicyOf, RangeBuffer,
          FindPolicy, RemovePolicy, EndSweep
    <3>2. task' = [task EXCEPT ![w] = NoTask]
      BY <2>1, <2>2, <3>1 DEF LookupNamespace, IsExcluded, Step
    <3>3. task'[v] = NoTask
      BY <2>2, <3>2 DEF Inv, Typed, TypeOK, WorkersTypeOK
    <3>. QED  BY <3>3, ExcludedLemma DEF NoTask
  <2>. QED  BY <2>1, <2>2, HandlerKeeps
<1>3. NothingThere'
  <2>1. CASE CreatePolicyOf(w) \/ UpdatePolicyOf(w) \/ RemovePolicy(w)
    <3>1. pc[w] \in {"create", "update", "remove"}
      BY <2>1 DEF CreatePolicyOf, UpdatePolicyOf, RemovePolicy
    <3>2. Key(w) \in PolicyKeys /\ Key(w) \notin ExcludedKeys
      BY <3>1, WrittenLemma, ExcludedLemma DEF Key, Vacant, NobodyThere
    <3>3. UNCHANGED <<policy, policyStream>> \/ \E v : PutPolicy(Key(w), v)
      BY <2>1 DEF CreatePolicyOf, UpdatePolicyOf, RemovePolicy
    <3>. QED  BY <3>2, <3>3, WritingElsewhere DEF Vacant, NothingThere
  <2>2. CASE UNCHANGED <<policy, policyStream>>
    BY <2>2 DEF Vacant, NothingThere
  <2>. QED
    BY <2>1, <2>2
    DEF HandlerStep, LookupNamespace, ReadNamespace, ReadNames, ReadEnforcement, LoadBuffer,
        FetchTemplate, StoreTemplate, ComparePolicy, RangeBuffer, FindPolicy, EndSweep,
        Shared, objects, streams
<1>. QED  BY <1>1, <1>2, <1>3 DEF Vacant

(***************************************************************************)
(* karydia installs no policy in an excluded namespace, in any interplay   *)
(* of namespace and policy workers, replicas, changes of the config, and   *)
(* broken watches, as long as nobody else creates a policy of a template's *)
(* name there (syncNamespaceHandler; syncNetworkPolicyHandler does not     *)
(* look at the excluded namespaces, so the condition is needed).           *)
(***************************************************************************)
THEOREM ExcludedEmpty ==
    ASSUME "CreatePolicy" \notin Environment
    PROVE  Spec => []ExcludedStayEmpty
<1>1. Init => Vacant
  <2> SUFFICES ASSUME Init PROVE Vacant
    OBVIOUS
  <2>1. NothingThere
    BY ExcludedLemma DEF Init, ClusterInit, NothingThere
  <2>2. NothingQueued
    BY ExcludedLemma DEF Init, NothingQueued, Apart, EmptyQueue
  <2>3. NobodyThere
    BY ExcludedLemma DEF Init, NoTask, NobodyThere
  <2>. QED  BY <2>1, <2>2, <2>3 DEF Vacant
<1>2. Inv /\ Vacant /\ [Next]_vars => Vacant'
  <2>1. ASSUME Vacant, UNCHANGED vars PROVE Vacant'
    BY <2>1 DEF vars, objects, streams, queues, Vacant, NothingThere, NothingQueued, NobodyThere
  <2>. QED
    BY <2>1, VacantOthers, VacantProcess, VacantItem, VacantHandler DEF Next, HandlerStep
<1>3. Vacant => ExcludedStayEmpty
  BY DEF Vacant, NothingThere, ExcludedKeys, ExcludedStayEmpty
<1>. QED  BY <1>1, <1>2, <1>3, InvAlways, PTL DEF Spec

=============================================================================

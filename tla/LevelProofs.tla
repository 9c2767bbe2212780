----------------------------- MODULE LevelProofs -----------------------------
(***************************************************************************)
(* No wakeup is lost: as long as nobody changes what a namespace is to     *)
(* have, karydia brings the namespaces to it and keeps them there, for any *)
(* namespaces, names, replicas and workers, any number of changes to the   *)
(* policies and the namespaces, and crashes at any point.                  *)
(***************************************************************************)
EXTENDS NetworkPolicyReconcilerProofs

CONSTANTS
    fixed,    \* the spec of the KarydiaConfig
    chosen,   \* by namespace: the setting that the config or its annotation makes
    wanted    \* by name: the contents of a template that a setting names

Want(n) == Listed(chosen[n])

(***************************************************************************)
(* What nobody changes: the config, the setting of a namespace, though it  *)
(* may come, go and come back and its annotation may change where the      *)
(* config is enforced, and the templates that settings name, which exist.  *)
(***************************************************************************)
Steady ==
    /\ chosen \in [Namespaces -> Settings] /\ wanted \in [Names -> Specs]
    /\ config = fixed
    /\ \A n \in Namespaces : namespace[n] # None => SettingOf(n) = chosen[n]
    /\ \A n \in Namespaces : \A p \in Want(n) : template[p] = wanted[p]

(* Watches do not break, and no call fails whose error the handlers        *)
(* swallow: BrokenWatch.cfg and SwallowedError.cfg show why.               *)
Reliable ==
    /\ "BreakWatch" \notin Environment
    /\ Faulty \cap {"GetNamespace", "GetTemplate", "Create", "Update"} = {}

(* Other parties create no policy under the name of one that karydia is to *)
(* create: there is no AddFunc that would hear of it (RivalPolicy.cfg).    *)
NoRivals ==
    Others => \A n \in Namespaces : \A p \in Want(n) :
                 policy[<<n, p>>] = None => policy'[<<n, p>>] = None

----------------------------------------------------------------------------
(* A stream and the cache it leads to, as what is known of a value v.      *)

Follows(s, cached, v) ==
    /\ \A i \in DOMAIN s : ~s[i].relisted
    /\ s = << >> => cached = v
    /\ s # << >> => s[Len(s)].value = v

\* What the cache will hold when the last event of s is delivered.
Before(s, cached) == IF Len(s) = 1 THEN cached ELSE s[Len(s) - 1].value

\* The cache and what it will be.
Versions(s, cached) == {cached} \cup {s[i].value : i \in DOMAIN s}

\* Stream t is s with the change of the object from v to x.
Extends(s, cached, v, t, x) ==
    /\ t # << >>
    /\ Follows(t, cached, x)
    /\ Before(t, cached) = v
    /\ Versions(t, cached) \subseteq Versions(s, cached) \cup {x}

\* Stream t is s once the informer has heard of its first event, e.
Shortens(s, cached, v, t, e) ==
    /\ ~e.relisted
    /\ Follows(t, e.value, v)
    /\ e.value \in Versions(s, cached)
    /\ Versions(t, e.value) \subseteq Versions(s, cached)
    /\ t = << >> => e.value = v /\ Before(s, cached) = cached
    /\ t # << >> => Before(t, e.value) = Before(s, cached)

(* A change goes to the end of the stream.                                 *)
LEMMA FollowsAppend ==
    ASSUME NEW Objects, NEW s \in Seq(Events(Objects)), NEW cached, NEW v,
           NEW x \in Objects \cup {None}, Follows(s, cached, v),
           NEW t, t = Append(s, Watched(x))
    PROVE  Extends(s, cached, v, t, x)
<1> DEFINE e == Watched(x)
<1>1. e \in Events(Objects) /\ ~e.relisted /\ e.value = x
  BY DEF Events, Watched
<1> HIDE DEF e
<1>2. /\ t \in Seq(Events(Objects)) /\ Len(t) = Len(s) + 1 /\ Len(s) \in Nat
      /\ DOMAIN s = 1..Len(s) /\ DOMAIN t = 1..Len(t)
      /\ \A i \in 1..Len(s) : t[i] = s[i]
      /\ t[Len(s) + 1] = e
  BY <1>1, AppendProperties, LenProperties DEF e
<1>3. t # << >>
  BY <1>2, EmptySeq
<1>4. Follows(t, cached, x)
  BY <1>1, <1>2, <1>3 DEF Follows
<1>5. Before(t, cached) = v
  <2>1. CASE s = << >>
    BY <1>2, <2>1, EmptySeq DEF Before, Follows
  <2>2. CASE s # << >>
    <3>1. Len(s) # 0
      BY <2>2, EmptySeq
    <3>2. Len(t) # 1 /\ Len(t) - 1 = Len(s) /\ Len(s) \in 1..Len(s)
      BY <1>2, <3>1
    <3>3. t[Len(t) - 1] = s[Len(s)] /\ s[Len(s)].value = v
      BY <1>2, <2>2, <3>2 DEF Follows
    <3>. QED  BY <3>2, <3>3 DEF Before
  <2>. QED  BY <2>1, <2>2
<1>6. Versions(t, cached) \subseteq Versions(s, cached) \cup {x}
  BY <1>1, <1>2 DEF Versions
<1>. QED  BY <1>3, <1>4, <1>5, <1>6 DEF Extends

(* The first event of the stream is delivered.                             *)
LEMMA FollowsTail ==
    ASSUME NEW Objects, NEW s \in Seq(Events(Objects)), NEW cached, NEW v,
           s # << >>, Follows(s, cached, v), NEW e, e = Head(s), NEW t, t = Tail(s)
    PROVE  Shortens(s, cached, v, t, e)
<1>1. /\ e = s[1] /\ t \in Seq(Events(Objects)) /\ Len(t) = Len(s) - 1
      /\ Len(s) \in Nat /\ Len(s) # 0
      /\ DOMAIN s = 1..Len(s) /\ DOMAIN t = 1..Len(t)
      /\ \A i \in 1..Len(t) : t[i] = s[i + 1]
  BY HeadTailProperties, LenProperties, EmptySeq
<1>2. 1 \in DOMAIN s /\ \A i \in 1..Len(t) : i + 1 \in DOMAIN s
  BY <1>1
<1>3. t = << >> <=> Len(s) = 1
  <2>1. t = << >> <=> Len(t) = 0
    BY <1>1, EmptySeq
  <2>. QED  BY <1>1, <2>1
<1>4. ~e.relisted /\ e.value \in Versions(s, cached)
  BY <1>1, <1>2 DEF Follows, Versions
<1>5. Versions(t, e.value) \subseteq Versions(s, cached)
  BY <1>1, <1>2, <1>4 DEF Versions
<1>6. t # << >> => t[Len(t)] = s[Len(s)]
  BY <1>1, <1>3
<1>7. s[Len(s)].value = v
  BY DEF Follows
<1>8. Follows(t, e.value, v)
  <2>1. \A i \in DOMAIN t : ~t[i].relisted
    BY <1>1, <1>2 DEF Follows
  <2>2. t = << >> => e.value = v
    BY <1>1, <1>3, <1>7
  <2>3. t # << >> => t[Len(t)].value = v
    BY <1>6, <1>7
  <2>. QED  BY <2>1, <2>2, <2>3 DEF Follows
<1>9. t = << >> => e.value = v /\ Before(s, cached) = cached
  BY <1>1, <1>3, <1>7 DEF Before
<1>10. t # << >> => Before(t, e.value) = Before(s, cached)
  <2> SUFFICES ASSUME t # << >> PROVE Before(t, e.value) = Before(s, cached)
    OBVIOUS
  <2>1. Len(s) > 1
    BY <1>1, <1>3
  <2>2. CASE Len(s) = 2
    BY <1>1, <2>2 DEF Before
  <2>3. CASE Len(s) > 2
    BY <1>1, <2>3 DEF Before
  <2>. QED  BY <1>1, <2>1, <2>2, <2>3
<1>. QED  BY <1>4, <1>5, <1>8, <1>9, <1>10 DEF Shortens

----------------------------------------------------------------------------
(***************************************************************************)
(* The invariant.  First, what everybody has of the objects at the API     *)
(* server: the memory of a process, its caches with the streams that lead  *)
(* to them, and the variables of a handler at each label.                  *)
(***************************************************************************)

\* The setting that the annotation of a namespace makes with the config.
Prescribed(a) == IF a # None /\ ~fixed.enforcement THEN a ELSE fixed.names

Conforms(k) == policy[k] # None /\ policy[k].spec = wanted[k[2]]

MemoryFollows(r) ==
    /\ updating[r] = None
    /\ defaultEnforcement[r] = fixed.enforcement
    /\ defaultNetworkPolicyNames[r] = fixed.names
    /\ \A n \in Namespaces : \A p \in Want(n) :
          defaultNetworkPolicies[r][p] \in {None, wanted[p]}

NamespaceFollows(r, n) ==
    IF r \in up
    THEN /\ Follows(namespaceStream[r][n], namespacesLister[r][n], namespace[n])
         /\ \A v \in Versions(namespaceStream[r][n], namespacesLister[r][n]) :
               v # None => Prescribed(v.annotation) = chosen[n]
    ELSE namespaceStream[r][n] = << >>

\* Only karydia creates a policy that a setting names, as it is wanted; so if
\* the last event on its way is a creation, there is nothing to do about it.
PolicyFollows(r, k) ==
    IF r \in up
    THEN /\ Follows(policyStream[r][k], networkPolicyLister[r][k], policy[k])
         /\ /\ policyStream[r][k] # << >> /\ k[2] \in Want(k[1])
            /\ Before(policyStream[r][k], networkPolicyLister[r][k]) = None
            => Conforms(k)
    ELSE policyStream[r][k] = << >>

TaskFollows(w, l, t) ==
    /\ l \in {"names", "enforcement"} => Prescribed(t.annotation) = chosen[t.namespace]
    /\ l = "enforcement" => t.value = fixed.names
    /\ l \in Looping \cup AtPolicy \cup Sweeping => t.value = chosen[t.namespace]
    /\ l = "store" => t.spec = wanted[t.value[t.i]]
    /\ l \in AtPolicy => t.name \in Want(t.namespace)
    /\ l \in AtPolicy /\ w \in NsWorkers => t.name = t.value[t.i]
    /\ l \in {"sweep", "remove"} => t.remaining \cap Want(t.namespace) = {}
    /\ l = "remove" => t.name \notin Want(t.namespace)

Memories == \A r \in Replicas : MemoryFollows(r)
NamespaceCaches == \A r \in Replicas, n \in Namespaces : NamespaceFollows(r, n)
PolicyCaches == \A r \in Replicas, k \in PolicyKeys : PolicyFollows(r, k)
Handlers == \A w \in Workers : TaskFollows(w, pc[w], task[w])

InStep == Memories /\ NamespaceCaches /\ PolicyCaches /\ Handlers

(***************************************************************************)
(* Second, that something is under way as long as something is to do.      *)
(* A replica is coming to p in namespace n if its namespace queue or a     *)
(* namespace worker will get there without having looked yet.              *)
(***************************************************************************)
Ahead(w, n, p) ==
    /\ w \in NsWorkers /\ task[w].namespace = n
    /\ \/ pc[w] \in {"lookup", "names", "enforcement"}
       \/ /\ pc[w] \in Looping \cup {"compare"}
          /\ \E j \in DOMAIN chosen[n] : task[w].i <= j /\ chosen[n][j] = p
       \/ /\ pc[w] \in {"create", "update"}
          /\ \E j \in DOMAIN chosen[n] : task[w].i < j /\ chosen[n][j] = p

Coming(r, n, p) ==
    \/ namespaceStream[r][n] # << >>
    \/ n \in namespaceWorkqueue[r].dirty
    \/ \E w \in Workers : Home[w] = r /\ Ahead(w, n, p)

(* It is repairing the policy k if an event of it or a policy worker is    *)
(* under way, or a worker of any kind is about to make the call that will  *)
(* succeed.                                                                *)
OnItsWay(w, k) ==
    /\ w \in NpWorkers /\ Key(w) = k
    /\ pc[w] \in {"lookup", "names", "enforcement", "compare"} \cup Looping

AboutTo(w, k) ==
    /\ Key(w) = k
    /\ \/ pc[w] = "create" /\ policy[k] = None
       \/ pc[w] = "update" /\ policy[k] # None

Repairing(r, k) ==
    \/ policyStream[r][k] # << >>
    \/ k \in networkPolicyworkqueue[r].dirty
    \/ \E w \in Workers : Home[w] = r /\ (OnItsWay(w, k) \/ AboutTo(w, k))

Fine(r, k) == Conforms(k) \/ Repairing(r, k)

Tended(r, n, p) ==
    \/ Coming(r, n, p)
    \/ defaultNetworkPolicies[r][p] # None /\ Fine(r, <<n, p>>)

NothingLost == \A r \in up, n \in Relevant : \A p \in Want(n) : Tended(r, n, p)

----------------------------------------------------------------------------
(***************************************************************************)
(* How a step can leave what a replica tends to tended: what was under way *)
(* still is, or has led to where it had to; and the workers that move hand *)
(* over what they were on their way to.                                    *)
(***************************************************************************)

\* Worker w stays where it is, as far as the invariant looks at it.
Stays(w) ==
    /\ pc'[w] = pc[w]
    /\ task'[w].namespace = task[w].namespace
    /\ task'[w].name = task[w].name
    /\ task'[w].i = task[w].i

\* A policy is as before, or the replica is going to hear of it.
Tells(r, k) == policy'[k] = policy[k] \/ policyStream'[r][k] # << >>

QueuesLead(r, n, p) ==
    /\ namespaceStream[r][n] # << >> => Coming(r, n, p)'
    /\ n \in namespaceWorkqueue[r].dirty => Coming(r, n, p)'
    /\ policyStream[r][<<n, p>>] # << >> => Fine(r, <<n, p>>)'
    /\ <<n, p>> \in networkPolicyworkqueue[r].dirty => Fine(r, <<n, p>>)'
    /\ defaultNetworkPolicies[r][p] # None => defaultNetworkPolicies'[r][p] # None
    /\ Tells(r, <<n, p>>)

HandsOver(w, n, p) ==
    /\ Ahead(w, n, p) => Tended(Home[w], n, p)'
    /\ OnItsWay(w, <<n, p>>) \/ AboutTo(w, <<n, p>>) => Fine(Home[w], <<n, p>>)'

LEMMA TendedStep ==
    ASSUME NEW r \in Replicas, NEW n \in Namespaces, NEW p \in Want(n),
           Tended(r, n, p), QueuesLead(r, n, p),
           \A w \in Workers : Home[w] = r => Stays(w) \/ HandsOver(w, n, p)
    PROVE  Tended(r, n, p)'
<1> DEFINE k == <<n, p>>
<1>1. ASSUME NEW w \in Workers, Home[w] = r, Ahead(w, n, p)
      PROVE  Tended(r, n, p)'
  <2>1. CASE Stays(w)
    BY <1>1, <2>1 DEF Stays, Ahead, Coming, Tended
  <2>2. CASE HandsOver(w, n, p)
    BY <1>1, <2>2 DEF HandsOver
  <2>. QED  BY <1>1, <2>1, <2>2
<1>2. ASSUME NEW w \in Workers, Home[w] = r, OnItsWay(w, k) \/ AboutTo(w, k)
      PROVE  Fine(r, k)'
  <2>1. CASE Stays(w) /\ OnItsWay(w, k)
    <3>1. OnItsWay(w, k)'
      BY <2>1 DEF Stays, OnItsWay, Key
    <3>. QED  BY <1>2, <3>1 DEF Fine, Repairing
  <2>2. CASE Stays(w) /\ AboutTo(w, k) /\ policy'[k] = policy[k]
    <3>1. AboutTo(w, k)'
      BY <2>2 DEF Stays, AboutTo, Key
    <3>. QED  BY <1>2, <3>1 DEF Fine, Repairing
  <2>3. CASE HandsOver(w, n, p)
    BY <1>2, <2>3 DEF HandsOver
  <2>4. CASE policyStream'[r][k] # << >>
    BY <2>4 DEF Fine, Repairing
  <2>. QED  BY <1>2, <2>1, <2>2, <2>3, <2>4 DEF QueuesLead, Tells
<1>3. CASE Coming(r, n, p)
  <2>1. CASE namespaceStream[r][n] # << >> \/ n \in namespaceWorkqueue[r].dirty
    BY <2>1 DEF QueuesLead, Tended
  <2>2. CASE \E w \in Workers : Home[w] = r /\ Ahead(w, n, p)
    BY <1>1, <2>2
  <2>. QED  BY <1>3, <2>1, <2>2 DEF Coming
<1>4. CASE defaultNetworkPolicies[r][p] # None /\ Fine(r, k)
  <2> SUFFICES Fine(r, k)'
    BY <1>4 DEF Tended, QueuesLead
  <2>1. CASE Conforms(k)
    BY <2>1 DEF QueuesLead, Tells, Conforms, Fine, Repairing
  <2>2. CASE policyStream[r][k] # << >> \/ k \in networkPolicyworkqueue[r].dirty
    BY <2>2 DEF QueuesLead
  <2>3. CASE \E w \in Workers : Home[w] = r /\ (OnItsWay(w, k) \/ AboutTo(w, k))
    BY <1>2, <2>3
  <2>. QED  BY <1>4, <2>1, <2>2, <2>3 DEF Fine, Repairing
<1>. QED  BY <1>3, <1>4 DEF Tended

----------------------------------------------------------------------------
(* What does not change, as the steps use it.                              *)
LEMMA SteadyLemma ==
    ASSUME Inv, Steady
    PROVE  /\ chosen \in [Namespaces -> Settings]
           /\ fixed \in Configs /\ fixed.names \in Settings /\ fixed.enforcement \in BOOLEAN
           /\ \A n \in Namespaces : Want(n) \subseteq Names
           /\ \A p \in Names : wanted[p] \in Specs /\ wanted[p] # None
           /\ \A n \in Namespaces : namespace[n] # None =>
                 /\ SettingOf(n) = chosen[n]
                 /\ Prescribed(namespace[n].annotation) = chosen[n]
<1>1. fixed \in Configs
  BY DEF Steady, Inv, Typed, TypeOK, ClusterTypeOK
<1>2. ASSUME NEW n \in Namespaces PROVE Want(n) \subseteq Names
  BY SettingLemma DEF Steady, Want, Listed
<1>3. ASSUME NEW n \in Namespaces, namespace[n] # None
      PROVE  SettingOf(n) = chosen[n] /\ Prescribed(namespace[n].annotation) = chosen[n]
  BY <1>3 DEF Steady, SettingOf, Prescribed
<1>. QED  BY <1>1, <1>2, <1>3, ConfigLemma, NoneAssumption DEF Steady

(* Other parties write one namespace or one policy.                        *)
LEMMA OthersChange ==
    ASSUME Inv, Reliable, OtherParties
    PROVE  /\ UNCHANGED <<listers, up>>
           /\ \/ UNCHANGED <<namespace, namespaceStream>>
              \/ \E n \in Namespaces, v \in NamespaceObjects \cup {None} : PutNamespace(n, v)
           /\ \/ UNCHANGED <<policy, policyStream>>
              \/ \E k \in PolicyKeys, v \in PolicyObjects \cup {None} : PutPolicy(k, v)
<1> DEFINE Goal ==
      /\ UNCHANGED <<listers, up>>
      /\ \/ UNCHANGED <<namespace, namespaceStream>>
         \/ \E n \in Namespaces, v \in NamespaceObjects \cup {None} : PutNamespace(n, v)
      /\ \/ UNCHANGED <<policy, policyStream>>
         \/ \E k \in PolicyKeys, v \in PolicyObjects \cup {None} : PutPolicy(k, v)
<1>1. /\ namespace \in [Namespaces -> NamespaceObjects \cup {None}]
      /\ policy \in [PolicyKeys -> PolicyObjects \cup {None}]
  BY DEF Inv, Typed, TypeOK, ClusterTypeOK
<1>2. ASSUME NEW n \in Namespaces, NEW v \in NamespaceObjects \cup {None},
             PutNamespace(n, v), UNCHANGED <<policy, policyStream, listers, up>>
      PROVE  Goal
  BY <1>2
<1>3. ASSUME NEW k \in PolicyKeys, NEW v \in PolicyObjects \cup {None},
             PutPolicy(k, v), UNCHANGED <<namespace, namespaceStream, listers, up>>
      PROVE  Goal
  BY <1>3
<1>4. ASSUME UNCHANGED <<namespace, policy, streams, listers, up>>
      PROVE  Goal
  BY <1>4 DEF streams
<1> HIDE DEF Goal
<1>5. ASSUME NEW n \in Namespaces, NEW a \in Settings \cup {None},
             CreateNamespace(n, a) \/ AnnotateNamespace(n, a)
      PROVE  Goal
  <2>1. [phase |-> "Active", annotation |-> a] \in NamespaceObjects \cup {None}
    BY DEF NamespaceObjects, Phases
  <2>2. namespace[n] # None => [namespace[n] EXCEPT !.annotation = a] \in NamespaceObjects \cup {None}
    BY <1>1 DEF NamespaceObjects
  <2>3. CASE CreateNamespace(n, a)
    BY <1>2, <2>1, <2>3 DEF CreateNamespace
  <2>4. CASE AnnotateNamespace(n, a)
    BY <1>2, <2>2, <2>4 DEF AnnotateNamespace, Active
  <2>. QED  BY <1>5, <2>3, <2>4
<1>6. ASSUME NEW n \in Namespaces, TerminateNamespace(n) \/ RemoveNamespace(n)
      PROVE  Goal
  <2>1. namespace[n] # None => [namespace[n] EXCEPT !.phase = "Terminating"] \in NamespaceObjects \cup {None}
    BY <1>1 DEF NamespaceObjects, Phases
  <2>2. CASE TerminateNamespace(n)
    BY <1>2, <2>1, <2>2 DEF TerminateNamespace, Active
  <2>3. CASE RemoveNamespace(n)
    BY <1>2, <2>3 DEF RemoveNamespace
  <2>. QED  BY <1>6, <2>2, <2>3
<1>7. ASSUME NEW k \in PolicyKeys, NEW s \in Specs, CreatePolicy(k, s) \/ ModifyPolicy(k, s)
      PROVE  Goal
  <2>1. [spec |-> s, source |-> None] \in PolicyObjects \cup {None}
    BY DEF PolicyObjects
  <2>2. policy[k] # None => [policy[k] EXCEPT !.spec = s] \in PolicyObjects \cup {None}
    BY <1>1 DEF PolicyObjects
  <2>3. CASE CreatePolicy(k, s)
    BY <1>3, <2>1, <2>3 DEF CreatePolicy
  <2>4. CASE ModifyPolicy(k, s)
    BY <1>3, <2>2, <2>4 DEF ModifyPolicy
  <2>. QED  BY <1>7, <2>3, <2>4
<1>8. ASSUME NEW k \in PolicyKeys, DeletePolicy(k) \/ EmptyNamespace(k)
      PROVE  Goal
  BY <1>3, <1>8 DEF DeletePolicy, EmptyNamespace
<1>9. ASSUME NEW p, NEW s, ChangeTemplate(p, s) PROVE Goal
  BY <1>4, <1>9 DEF ChangeTemplate
<1>10. ASSUME NEW c, ChangeConfig(c) PROVE Goal
  BY <1>4, <1>10 DEF ChangeConfig
<1>11. ASSUME NEW r, NEW x, NEW kept,
              BreakNamespaceWatch(r, x, kept) \/ BreakPolicyWatch(r, x, kept)
       PROVE  Goal
  BY <1>11 DEF BreakNamespaceWatch, BreakPolicyWatch, Change, Reliable
<1>. QED
  <2>1. Goal
    BY <1>5, <1>6, <1>7, <1>8, <1>9, <1>10, <1>11 DEF OtherParties
  <2>. QED  BY <2>1 DEF Goal

(* A namespace is written: the caches follow, and every replica hears.     *)
LEMMA PutNamespaceFollows ==
    ASSUME Inv, Inv', Steady, Steady', NamespaceCaches,
           NEW n \in Namespaces, NEW v \in NamespaceObjects \cup {None},
           PutNamespace(n, v), UNCHANGED <<listers, up>>
    PROVE  /\ NamespaceCaches'
           /\ \A r \in up : namespaceStream'[r][n] # << >>
           /\ \A r \in Replicas, m \in Namespaces : m # n =>
                 namespaceStream'[r][m] = namespaceStream[r][m] /\ namespace'[m] = namespace[m]
<1>1. /\ namespace \in [Namespaces -> NamespaceObjects \cup {None}]
      /\ namespaceStream \in [Replicas -> [Namespaces -> Seq(Events(NamespaceObjects))]]
  BY DEF Inv, Typed, TypeOK, ClusterTypeOK
<1>2. /\ namespace' = [namespace EXCEPT ![n] = v] /\ UNCHANGED namespacesLister
      /\ \A r \in Replicas : namespaceStream'[r] =
            IF r \in up THEN [namespaceStream[r] EXCEPT ![n] = Append(@, Watched(v))]
                        ELSE namespaceStream[r]
  BY DEF PutNamespace, Published, listers
<1>3. \A r \in Replicas, m \in Namespaces : m # n =>
         namespaceStream'[r][m] = namespaceStream[r][m] /\ namespace'[m] = namespace[m]
  BY <1>1, <1>2
<1>4. ASSUME NEW r \in up
      PROVE  NamespaceFollows(r, n)' /\ namespaceStream'[r][n] # << >>
  <2>1. r \in Replicas
    BY DEF Inv, Typed, TypeOK, ClusterTypeOK
  <2>2. PICK s, c, t : /\ s = namespaceStream[r][n] /\ c = namespacesLister[r][n]
                       /\ t = namespaceStream'[r][n]
    OBVIOUS
  <2>3. s \in Seq(Events(NamespaceObjects)) /\ t = Append(s, Watched(v))
    BY <1>1, <1>2, <2>1, <2>2
  <2>4. PICK y : y = namespace[n] /\ Follows(s, c, y)
    BY <2>1, <2>2 DEF NamespaceCaches, NamespaceFollows
  <2>5. \A x \in Versions(s, c) \cup {v} : x # None => Prescribed(x.annotation) = chosen[n]
    <3>1. \A x \in Versions(s, c) : x # None => Prescribed(x.annotation) = chosen[n]
      BY <2>1, <2>2 DEF NamespaceCaches, NamespaceFollows
    <3>2. v = namespace'[n]
      BY <1>1, <1>2
    <3>. QED  BY <3>1, <3>2 DEF Steady, SettingOf, Prescribed
  <2>6. Extends(s, c, y, t, v)
    BY <2>3, <2>4, FollowsAppend
  <2>7. /\ namespaceStream'[r][n] = t /\ namespacesLister'[r][n] = c /\ namespace'[n] = v
        /\ r \in up'
    BY <1>1, <1>2, <2>2
  <2>. QED  BY <2>5, <2>6, <2>7 DEF Extends, NamespaceFollows
<1>5. ASSUME NEW r \in Replicas, NEW m \in Namespaces PROVE NamespaceFollows(r, m)'
  <2>1. CASE m = n /\ r \in up
    BY <1>4, <2>1
  <2>2. CASE m # n \/ r \notin up
    <3>1. /\ namespaceStream'[r][m] = namespaceStream[r][m] /\ up' = up
          /\ namespacesLister'[r][m] = namespacesLister[r][m]
          /\ r \in up => namespace'[m] = namespace[m]
      BY <1>2, <1>3, <2>2
    <3>2. NamespaceFollows(r, m)
      BY DEF NamespaceCaches
    <3>. QED  BY <3>1, <3>2 DEF NamespaceFollows
  <2>. QED  BY <2>1, <2>2
<1>. QED  BY <1>3, <1>4, <1>5 DEF NamespaceCaches

(* A policy is written, if it is a new one that karydia wants, as it is    *)
(* wanted: the caches follow, and every replica hears.                     *)
LEMMA PutPolicyFollows ==
    ASSUME Inv, PolicyCaches, NEW k \in PolicyKeys, NEW v \in PolicyObjects \cup {None},
           PutPolicy(k, v), UNCHANGED <<networkPolicyLister, up>>,
           k[2] \in Want(k[1]) /\ policy[k] = None /\ v # None => v.spec = wanted[k[2]]
    PROVE  /\ PolicyCaches'
           /\ \A r \in up, j \in PolicyKeys :
                 Tells(r, j) /\ (policyStream[r][j] # << >> => policyStream'[r][j] # << >>)
           /\ policy'[k] = v
<1>1. /\ policy \in [PolicyKeys -> PolicyObjects \cup {None}]
      /\ policyStream \in [Replicas -> [PolicyKeys -> Seq(Events(PolicyObjects))]]
      /\ up \subseteq Replicas
  BY DEF Inv, Typed, TypeOK, ClusterTypeOK
<1>2. policy' = [policy EXCEPT ![k] = v] /\ policy'[k] = v
  BY <1>1 DEF PutPolicy
<1>3. CASE policy[k] = v
  <2>1. policy' = policy /\ policyStream' = policyStream
    BY <1>1, <1>2, <1>3 DEF PutPolicy
  <2>2. PolicyCaches'
    BY <2>1 DEF PolicyCaches, PolicyFollows, Conforms
  <2>. QED  BY <1>2, <2>1, <2>2 DEF Tells
<1>4. CASE policy[k] # v
  <2>1. \A r \in Replicas : policyStream'[r] =
            IF r \in up THEN [policyStream[r] EXCEPT ![k] = Append(@, Watched(v))]
                        ELSE policyStream[r]
    BY <1>4 DEF PutPolicy, Published
  <2>2. \A r \in Replicas, j \in PolicyKeys : j # k =>
           policyStream'[r][j] = policyStream[r][j] /\ policy'[j] = policy[j]
    BY <1>1, <1>2, <2>1
  <2>3. ASSUME NEW r \in up
        PROVE  PolicyFollows(r, k)' /\ policyStream'[r][k] # << >>
    <3>1. PICK s, c, t, y : /\ s = policyStream[r][k] /\ c = networkPolicyLister[r][k]
                            /\ t = policyStream'[r][k] /\ y = policy[k]
      OBVIOUS
    <3>2. s \in Seq(Events(PolicyObjects)) /\ t = Append(s, Watched(v))
      BY <1>1, <2>1, <3>1
    <3>3. Follows(s, c, y)
      BY <1>1, <3>1 DEF PolicyCaches, PolicyFollows
    <3>4. Extends(s, c, y, t, v)
      BY <3>2, <3>3, FollowsAppend
    <3>5. k[2] \in Want(k[1]) /\ Before(t, c) = None => Conforms(k)'
      BY <1>2, <1>4, <3>1, <3>4 DEF Extends, Conforms
    <3>. QED  BY <1>2, <3>1, <3>4, <3>5 DEF Extends, PolicyFollows
  <2>4. ASSUME NEW r \in Replicas, NEW j \in PolicyKeys PROVE PolicyFollows(r, j)'
    <3>1. CASE j = k /\ r \in up
      BY <2>3, <3>1
    <3>2. CASE j # k \/ r \notin up
      <4>1. /\ policyStream'[r][j] = policyStream[r][j] /\ up' = up
            /\ networkPolicyLister'[r][j] = networkPolicyLister[r][j]
            /\ r \in up => policy'[j] = policy[j]
        BY <2>1, <2>2, <3>2
      <4>2. PolicyFollows(r, j)
        BY DEF PolicyCaches
      <4>. QED  BY <4>1, <4>2 DEF PolicyFollows, Conforms
    <3>. QED  BY <3>1, <3>2
  <2>. QED  BY <1>1, <1>2, <2>2, <2>3, <2>4 DEF PolicyCaches, Tells
<1>. QED  BY <1>3, <1>4

(* A step after which every replica has still under way what was.          *)
LEMMA TendedUnderWay ==
    ASSUME NEW r \in Replicas, NEW n \in Namespaces, NEW p \in Want(n),
           namespaceStream[r][n] # << >> => namespaceStream'[r][n] # << >>,
           policyStream[r][<<n, p>>] # << >> => policyStream'[r][<<n, p>>] # << >>,
           namespaceWorkqueue[r].dirty \subseteq namespaceWorkqueue'[r].dirty,
           networkPolicyworkqueue[r].dirty \subseteq networkPolicyworkqueue'[r].dirty,
           defaultNetworkPolicies[r][p] # None => defaultNetworkPolicies'[r][p] # None,
           Tells(r, <<n, p>>)
    PROVE  QueuesLead(r, n, p)
BY DEF QueuesLead, Coming, Fine, Repairing

(* What other parties do.                                                  *)
LEMMA OthersFollow ==
    ASSUME Inv, Inv', Steady, Steady', Reliable, NoRivals, InStep, NothingLost, Others
    PROVE  InStep' /\ NothingLost'
<1>1. /\ OtherParties
      /\ UNCHANGED <<settings, defaultNetworkPolicies, queues, pc, task>>
      /\ UNCHANGED <<listers, up>> /\ up \subseteq Replicas
  BY OthersChange DEF Others, Inv, Typed, TypeOK, ClusterTypeOK
<1>2. /\ NamespaceCaches'
      /\ \A r \in up, n \in Namespaces :
            /\ namespace'[n] = namespace[n] \/ namespaceStream'[r][n] # << >>
            /\ namespaceStream[r][n] # << >> => namespaceStream'[r][n] # << >>
  <2>1. CASE UNCHANGED <<namespace, namespaceStream>>
    BY <1>1, <2>1 DEF InStep, NamespaceCaches, NamespaceFollows, listers
  <2>2. CASE \E n \in Namespaces, v \in NamespaceObjects \cup {None} : PutNamespace(n, v)
    <3>1. PICK n \in Namespaces, v \in NamespaceObjects \cup {None} : PutNamespace(n, v)
      BY <2>2
    <3>. QED  BY <1>1, <3>1, PutNamespaceFollows DEF InStep
  <2>. QED  BY <1>1, <2>1, <2>2, OthersChange
<1>3. /\ PolicyCaches'
      /\ \A r \in up, j \in PolicyKeys :
            Tells(r, j) /\ (policyStream[r][j] # << >> => policyStream'[r][j] # << >>)
  <2>1. CASE UNCHANGED <<policy, policyStream>>
    BY <1>1, <2>1 DEF InStep, PolicyCaches, PolicyFollows, Conforms, Tells, listers
  <2>2. CASE \E k \in PolicyKeys, v \in PolicyObjects \cup {None} : PutPolicy(k, v)
    <3>1. PICK k \in PolicyKeys, v \in PolicyObjects \cup {None} : PutPolicy(k, v)
      BY <2>2
    <3>2. policy'[k] = v
      BY <3>1 DEF PutPolicy, Inv, Typed, TypeOK, ClusterTypeOK
    <3>3. k[2] \in Want(k[1]) /\ policy[k] = None => v = None
      <4>1. k = <<k[1], k[2]>> /\ k[1] \in Namespaces
        BY DEF PolicyKeys
      <4>. QED  BY <3>2, <4>1 DEF NoRivals
    <3>. QED  BY <1>1, <3>1, <3>3, PutPolicyFollows DEF InStep, listers
  <2>. QED  BY <1>1, <2>1, <2>2, OthersChange
<1>4. Memories' /\ Handlers'
  BY <1>1 DEF InStep, Memories, MemoryFollows, Handlers, TaskFollows, settings
<1>5. ASSUME NEW r \in up', NEW n \in Relevant', NEW p \in Want(n)
      PROVE  Tended(r, n, p)'
  <2>1. r \in up /\ r \in Replicas /\ n \in Namespaces
    BY <1>1 DEF Relevant
  <2>2. CASE n \in Relevant
    <3>1. Tended(r, n, p) /\ <<n, p>> \in PolicyKeys
      BY <2>1, <2>2, SteadyLemma DEF NothingLost, PolicyKeys
    <3>2. QueuesLead(r, n, p)
      BY <1>1, <1>2, <1>3, <2>1, <3>1, TendedUnderWay DEF queues
    <3>3. \A w \in Workers : Stays(w)
      BY <1>1 DEF Stays
    <3>. QED  BY <2>1, <3>1, <3>2, <3>3, TendedStep
  <2>3. CASE n \notin Relevant
    <3>1. namespace'[n] # namespace[n]
      BY <2>1, <2>3 DEF Relevant, Active
    <3>. QED  BY <1>2, <2>1, <3>1 DEF Tended, Coming
  <2>. QED  BY <2>2, <2>3
<1>. QED  BY <1>2, <1>3, <1>4, <1>5 DEF InStep, NothingLost

(* A process starts: it has everything to do.                              *)
LEMMA StartFollows ==
    ASSUME Inv, Steady, InStep, NothingLost, NEW r \in Replicas, Start(r)
    PROVE  InStep' /\ NothingLost'
<1>1. /\ r \notin up /\ up' = up \cup {r} /\ up \subseteq Replicas
      /\ UNCHANGED <<objects, streams, updating, networkPolicyworkqueue, pc, task>>
      /\ namespacesLister' = [namespacesLister EXCEPT ![r] = namespace]
      /\ networkPolicyLister' = [networkPolicyLister EXCEPT ![r] = policy]
      /\ namespaceWorkqueue' = [namespaceWorkqueue EXCEPT ![r] =
            Added(@, {n \in Namespaces : namespace[n] # None})]
  BY DEF Start, Inv, Typed, TypeOK, ClusterTypeOK
<1>2. /\ namespacesLister \in [Replicas -> [Namespaces -> NamespaceObjects \cup {None}]]
      /\ networkPolicyLister \in [Replicas -> [PolicyKeys -> PolicyObjects \cup {None}]]
      /\ namespaceWorkqueue \in [Replicas -> Queues(Namespaces, NsWorkers)]
      /\ defaultNetworkPolicies \in [Replicas -> [Names -> Specs \cup {None}]]
      /\ defaultEnforcement \in [Replicas -> BOOLEAN]
      /\ defaultNetworkPolicyNames \in [Replicas -> Settings]
  BY DEF Inv, Typed, TypeOK, ClusterTypeOK, QueuesTypeOK, MemoryTypeOK
<1>3. Memories'
  <2>1. ASSUME NEW q \in Replicas, q # r PROVE MemoryFollows(q)'
    BY <1>1, <1>2, <2>1 DEF Start, InStep, Memories, MemoryFollows
  <2>2. MemoryFollows(r)'
    <3>1. updating'[r] = None
      BY <1>1 DEF InStep, Memories, MemoryFollows
    <3>2. defaultEnforcement'[r] = fixed.enforcement /\ defaultNetworkPolicyNames'[r] = fixed.names
      BY <1>2 DEF Start, Steady
    <3>3. ASSUME NEW n \in Namespaces, NEW p \in Want(n)
          PROVE  defaultNetworkPolicies'[r][p] \in {None, wanted[p]}
      BY <1>2, <3>3, SteadyLemma DEF Start, Steady
    <3>. QED  BY <3>1, <3>2, <3>3 DEF MemoryFollows
  <2>. QED  BY <2>1, <2>2 DEF Memories
<1>4. NamespaceCaches'
  <2>1. ASSUME NEW q \in Replicas, q # r, NEW n \in Namespaces PROVE NamespaceFollows(q, n)'
    BY <1>1, <1>2, <2>1 DEF InStep, NamespaceCaches, NamespaceFollows, streams, objects
  <2>2. ASSUME NEW n \in Namespaces PROVE NamespaceFollows(r, n)'
    <3>1. namespaceStream[r][n] = << >>
      BY <1>1 DEF InStep, NamespaceCaches, NamespaceFollows
    <3>2. PICK s, c : s = namespaceStream'[r][n] /\ c = namespacesLister'[r][n]
      OBVIOUS
    <3>3. s = << >> /\ c = namespace[n]
      BY <1>1, <1>2, <3>1, <3>2 DEF streams
    <3>4. Follows(s, c, namespace[n]) /\ Versions(s, c) = {namespace[n]}
      BY <3>3 DEF Follows, Versions
    <3>5. \A v \in Versions(s, c) : v # None => Prescribed(v.annotation) = chosen[n]
      BY <3>4, SteadyLemma
    <3>. QED  BY <1>1, <3>2, <3>4, <3>5 DEF NamespaceFollows, objects
  <2>. QED  BY <2>1, <2>2 DEF NamespaceCaches
<1>5. PolicyCaches'
  <2>1. ASSUME NEW q \in Replicas, q # r, NEW k \in PolicyKeys PROVE PolicyFollows(q, k)'
    BY <1>1, <1>2, <2>1 DEF InStep, PolicyCaches, PolicyFollows, Conforms, streams, objects
  <2>2. ASSUME NEW k \in PolicyKeys PROVE PolicyFollows(r, k)'
    <3>1. policyStream'[r][k] = << >>
      BY <1>1 DEF InStep, PolicyCaches, PolicyFollows, streams
    <3>2. networkPolicyLister'[r][k] = policy[k]
      BY <1>1, <1>2
    <3>3. Follows(policyStream'[r][k], networkPolicyLister'[r][k], policy'[k])
      BY <1>1, <3>1, <3>2 DEF Follows, objects
    <3>. QED  BY <1>1, <3>1, <3>3 DEF PolicyFollows
  <2>. QED  BY <2>1, <2>2 DEF PolicyCaches
<1>6. Handlers'
  BY <1>1 DEF InStep, Handlers, TaskFollows
<1>7. ASSUME NEW q \in up', NEW n \in Relevant', NEW p \in Want(n)
      PROVE  Tended(q, n, p)'
  <2>1. n \in Relevant /\ n \in Namespaces /\ q \in Replicas
    BY <1>1 DEF Relevant, Active, objects
  <2>2. CASE q = r
    <3>1. n \in namespaceWorkqueue'[r].dirty
      BY <1>1, <1>2, <2>1 DEF Relevant, Active, Added, Queues
    <3>. QED  BY <2>2, <3>1 DEF Tended, Coming
  <2>3. CASE q # r
    <3>1. Tended(q, n, p) /\ <<n, p>> \in PolicyKeys
      BY <1>1, <2>1, <2>3, SteadyLemma DEF NothingLost, PolicyKeys
    <3>2. QueuesLead(q, n, p)
      <4>1. /\ namespaceWorkqueue'[q] = namespaceWorkqueue[q]
            /\ defaultNetworkPolicies'[q] = defaultNetworkPolicies[q]
        BY <1>1, <1>2, <2>1, <2>3 DEF Start
      <4>2. Tells(q, <<n, p>>)
        BY <1>1 DEF Tells, objects
      <4>. QED  BY <1>1, <2>1, <4>1, <4>2, TendedUnderWay DEF streams
    <3>3. \A w \in Workers : Stays(w)
      BY <1>1 DEF Stays
    <3>. QED  BY <2>1, <3>1, <3>2, <3>3, TendedStep
  <2>. QED  BY <2>2, <2>3
<1>. QED  BY <1>3, <1>4, <1>5, <1>6, <1>7 DEF InStep, NothingLost

(* A process ends: nobody expects anything of it.                          *)
LEMMA ExitFollows ==
    ASSUME Inv, Steady, InStep, NothingLost, NEW r \in Replicas, Exit(r)
    PROVE  InStep' /\ NothingLost'
<1>1. /\ up' = up \ {r} /\ up \subseteq Replicas
      /\ UNCHANGED <<objects, defaultEnforcement, defaultNetworkPolicyNames>>
      /\ \A n \in Namespaces : namespaceStream'[r][n] = << >>
      /\ \A k \in PolicyKeys : policyStream'[r][k] = << >>
      /\ updating'[r] = None
      /\ \A p \in Names : defaultNetworkPolicies'[r][p] = None
      /\ pc' = [w \in Workers |-> IF Home[w] = r THEN "idle" ELSE pc[w]]
      /\ task' = [w \in Workers |-> IF Home[w] = r THEN NoTask ELSE task[w]]
  BY DEF Exit, Inv, Typed, TypeOK, ClusterTypeOK, MemoryTypeOK
<1>2. ASSUME NEW q \in Replicas, q # r
      PROVE  /\ namespaceStream'[q] = namespaceStream[q]
             /\ policyStream'[q] = policyStream[q]
             /\ namespacesLister'[q] = namespacesLister[q]
             /\ networkPolicyLister'[q] = networkPolicyLister[q]
             /\ updating'[q] = updating[q]
             /\ defaultNetworkPolicies'[q] = defaultNetworkPolicies[q]
             /\ namespaceWorkqueue'[q] = namespaceWorkqueue[q]
             /\ networkPolicyworkqueue'[q] = networkPolicyworkqueue[q]
  BY <1>2 DEF Exit, Inv, Typed, TypeOK, ClusterTypeOK, MemoryTypeOK, QueuesTypeOK
<1>3. Memories'
  <2>1. MemoryFollows(r)'
    BY <1>1, SteadyLemma DEF InStep, Memories, MemoryFollows
  <2>2. ASSUME NEW q \in Replicas, q # r PROVE MemoryFollows(q)'
    BY <1>1, <1>2, <2>2 DEF InStep, Memories, MemoryFollows
  <2>. QED  BY <2>1, <2>2 DEF Memories
<1>4. NamespaceCaches'
  BY <1>1, <1>2 DEF InStep, NamespaceCaches, NamespaceFollows, objects
<1>5. PolicyCaches'
  BY <1>1, <1>2 DEF InStep, PolicyCaches, PolicyFollows, Conforms, objects
<1>6. Handlers'
  <2>1. ASSUME NEW w \in Workers PROVE TaskFollows(w, pc'[w], task'[w])
    <3>1. CASE Home[w] = r
      BY <1>1, <3>1 DEF TaskFollows, Looping, AtPolicy, Sweeping
    <3>2. CASE Home[w] # r
      BY <1>1, <3>2 DEF InStep, Handlers
    <3>. QED  BY <3>1, <3>2
  <2>. QED  BY <2>1 DEF Handlers
<1>7. ASSUME NEW q \in up', NEW n \in Relevant', NEW p \in Want(n)
      PROVE  Tended(q, n, p)'
  <2>1. /\ n \in Relevant /\ n \in Namespaces /\ q \in Replicas /\ q # r
        /\ Tended(q, n, p) /\ <<n, p>> \in PolicyKeys
    BY <1>1, SteadyLemma DEF Relevant, Active, objects, NothingLost, PolicyKeys
  <2>2. QueuesLead(q, n, p)
    <3>1. Tells(q, <<n, p>>)
      BY <1>1 DEF Tells, objects
    <3>. QED  BY <1>2, <2>1, <3>1, TendedUnderWay
  <2>3. \A w \in Workers : Home[w] = q => Stays(w)
    BY <1>1, <2>1 DEF Stays
  <2>. QED  BY <2>1, <2>2, <2>3, TendedStep
<1>. QED  BY <1>3, <1>4, <1>5, <1>6, <1>7 DEF InStep, NothingLost

(* A step of an informer or a queue.                                       *)
LEMMA InformerTended ==
    ASSUME Inv, Steady, NothingLost,
           UNCHANGED <<namespace, policy, up, defaultNetworkPolicies, pc, task>>,
           \A q \in up, n \in Relevant : \A p \in Want(n) : QueuesLead(q, n, p)
    PROVE  NothingLost'
<1>1. up \subseteq Replicas
  BY DEF Inv, Typed, TypeOK, ClusterTypeOK
<1>2. ASSUME NEW q \in up', NEW n \in Relevant', NEW p \in Want(n)
      PROVE  Tended(q, n, p)'
  <2>1. /\ n \in Relevant /\ n \in Namespaces /\ q \in Replicas
        /\ Tended(q, n, p) /\ QueuesLead(q, n, p)
    BY <1>1 DEF Relevant, Active, NothingLost
  <2>2. \A w \in Workers : Stays(w)
    BY DEF Stays
  <2>. QED  BY <2>1, <2>2, TendedStep
<1>. QED  BY <1>2 DEF NothingLost

(* The informer of the namespaces.                                         *)
LEMMA DeliverNamespaceFollows ==
    ASSUME Inv, Steady, InStep, NothingLost,
           NEW r \in Replicas, NEW n \in Namespaces, DeliverNamespace(r, n)
    PROVE  InStep' /\ NothingLost'
<1>1. PICK s, c, v, e, t :
         /\ s = namespaceStream[r][n] /\ c = namespacesLister[r][n] /\ v = namespace[n]
         /\ e = Head(s) /\ t = Tail(s)
  OBVIOUS
<1>2. /\ namespaceStream \in [Replicas -> [Namespaces -> Seq(Events(NamespaceObjects))]]
      /\ namespacesLister \in [Replicas -> [Namespaces -> NamespaceObjects \cup {None}]]
      /\ namespaceWorkqueue \in [Replicas -> Queues(Namespaces, NsWorkers)]
      /\ up \subseteq Replicas
  BY DEF Inv, Typed, TypeOK, ClusterTypeOK, QueuesTypeOK
<1>3. s # << >> /\ r \in up /\ s \in Seq(Events(NamespaceObjects))
  BY <1>1, <1>2 DEF DeliverNamespace, InStep, NamespaceCaches, NamespaceFollows
<1>4. /\ Follows(s, c, v)
      /\ \A x \in Versions(s, c) : x # None => Prescribed(x.annotation) = chosen[n]
  BY <1>1, <1>3 DEF InStep, NamespaceCaches, NamespaceFollows
<1>5. Shortens(s, c, v, t, e)
  BY <1>1, <1>3, <1>4, FollowsTail
<1>6. /\ namespaceStream' = [namespaceStream EXCEPT ![r][n] = t]
      /\ namespacesLister' = [namespacesLister EXCEPT ![r][n] = e.value]
      /\ UNCHANGED <<objects, policyStream, up, settings, defaultNetworkPolicies,
                     networkPolicyworkqueue, networkPolicyLister, pc, task>>
  BY <1>1 DEF DeliverNamespace
<1>7. namespaceWorkqueue' = [namespaceWorkqueue EXCEPT
         ![r] = Added(@, {k \in {n} : e.value # None})]
  BY <1>1, <1>5 DEF DeliverNamespace, Heard, Shortens, NamespaceHandlerAdds
<1>8. NamespaceCaches'
  <2>1. NamespaceFollows(r, n)'
    <3>1. namespaceStream'[r][n] = t /\ namespacesLister'[r][n] = e.value
          /\ namespace'[n] = v /\ r \in up'
      BY <1>1, <1>2, <1>3, <1>6 DEF objects
    <3>. QED  BY <1>4, <1>5, <3>1 DEF Shortens, NamespaceFollows
  <2>2. ASSUME NEW q \in Replicas, NEW m \in Namespaces, q # r \/ m # n
        PROVE  NamespaceFollows(q, m)'
    <3>1. /\ namespaceStream'[q][m] = namespaceStream[q][m]
          /\ namespacesLister'[q][m] = namespacesLister[q][m]
      BY <1>2, <1>6, <2>2
    <3>. QED  BY <1>6, <3>1 DEF InStep, NamespaceCaches, NamespaceFollows, objects
  <2>. QED  BY <2>1, <2>2 DEF NamespaceCaches
<1>9. Memories' /\ PolicyCaches' /\ Handlers'
  BY <1>6 DEF InStep, Memories, MemoryFollows, PolicyCaches, PolicyFollows, Conforms,
     Handlers, TaskFollows, settings, objects
<1>10. ASSUME NEW q \in up, NEW m \in Relevant, NEW p \in Want(m)
       PROVE  QueuesLead(q, m, p)
  <2>1. /\ q \in Replicas /\ m \in Namespaces /\ namespace[m] # None
        /\ Tells(q, <<m, p>>)
    BY <1>2, <1>6 DEF Relevant, Active, Tells, objects
  <2>2. namespaceWorkqueue[q].dirty \subseteq namespaceWorkqueue'[q].dirty
    BY <1>2, <1>7, <2>1 DEF Added, Queues
  <2>3. CASE q = r /\ m = n
    <3>1. Coming(q, m, p)'
      <4>1. CASE t # << >>
        <5>1. namespaceStream'[q][m] # << >>
          BY <1>2, <1>6, <2>3, <4>1
        <5>. QED  BY <5>1 DEF Coming
      <4>2. CASE t = << >>
        <5>1. e.value # None
          BY <1>1, <1>5, <2>1, <2>3, <4>2 DEF Shortens
        <5>2. n \in namespaceWorkqueue'[r].dirty
          BY <1>2, <1>7, <5>1 DEF Added, Queues
        <5>. QED  BY <2>3, <5>2 DEF Coming
      <4>. QED  BY <4>1, <4>2
    <3>. QED  BY <1>6, <2>1, <3>1 DEF QueuesLead, Fine, Repairing
  <2>4. CASE ~(q = r /\ m = n)
    <3>1. namespaceStream'[q][m] = namespaceStream[q][m]
      BY <1>2, <1>6, <2>1, <2>4
    <3>. QED  BY <1>6, <2>1, <2>2, <3>1, TendedUnderWay
  <2>. QED  BY <2>3, <2>4
<1>. QED  BY <1>6, <1>8, <1>9, <1>10, InformerTended DEF InStep, objects

(* The informer of the policies.  The handler hears of all but creations.  *)
LEMMA DeliverPolicyFollows ==
    ASSUME Inv, Steady, InStep, NothingLost,
           NEW r \in Replicas, NEW k \in PolicyKeys, DeliverPolicy(r, k)
    PROVE  InStep' /\ NothingLost'
<1>1. PICK s, c, v, e, t :
         /\ s = policyStream[r][k] /\ c = networkPolicyLister[r][k] /\ v = policy[k]
         /\ e = Head(s) /\ t = Tail(s)
  OBVIOUS
<1>2. /\ policyStream \in [Replicas -> [PolicyKeys -> Seq(Events(PolicyObjects))]]
      /\ networkPolicyLister \in [Replicas -> [PolicyKeys -> PolicyObjects \cup {None}]]
      /\ networkPolicyworkqueue \in [Replicas -> Queues(PolicyKeys, NpWorkers)]
      /\ up \subseteq Replicas
  BY DEF Inv, Typed, TypeOK, ClusterTypeOK, QueuesTypeOK
<1>3. s # << >> /\ r \in up /\ s \in Seq(Events(PolicyObjects))
  BY <1>1, <1>2 DEF DeliverPolicy, InStep, PolicyCaches, PolicyFollows
<1>4. /\ Follows(s, c, v)
      /\ k[2] \in Want(k[1]) /\ Before(s, c) = None => Conforms(k)
  BY <1>1, <1>3 DEF InStep, PolicyCaches, PolicyFollows
<1>5. Shortens(s, c, v, t, e)
  BY <1>1, <1>3, <1>4, FollowsTail
<1>6. /\ policyStream' = [policyStream EXCEPT ![r][k] = t]
      /\ networkPolicyLister' = [networkPolicyLister EXCEPT ![r][k] = e.value]
      /\ UNCHANGED <<objects, namespaceStream, up, settings, defaultNetworkPolicies,
                     namespaceWorkqueue, namespacesLister, pc, task>>
  BY <1>1 DEF DeliverPolicy
<1>7. networkPolicyworkqueue' = [networkPolicyworkqueue EXCEPT
         ![r] = Added(@, {j \in {k} : c # None})]
  BY <1>1, <1>5 DEF DeliverPolicy, Heard, Shortens, PolicyHandlerAdds
<1>8. PolicyCaches'
  <2>1. PolicyFollows(r, k)'
    <3>1. policyStream'[r][k] = t /\ networkPolicyLister'[r][k] = e.value
          /\ policy' = policy /\ r \in up'
      BY <1>1, <1>2, <1>3, <1>6 DEF objects
    <3>2. t # << >> /\ k[2] \in Want(k[1]) /\ Before(t, e.value) = None => Conforms(k)'
      BY <1>4, <1>5, <3>1 DEF Shortens, Conforms
    <3>. QED  BY <1>1, <1>5, <3>1, <3>2 DEF Shortens, PolicyFollows
  <2>2. ASSUME NEW q \in Replicas, NEW j \in PolicyKeys, q # r \/ j # k
        PROVE  PolicyFollows(q, j)'
    <3>1. /\ policyStream'[q][j] = policyStream[q][j]
          /\ networkPolicyLister'[q][j] = networkPolicyLister[q][j]
      BY <1>2, <1>6, <2>2
    <3>. QED  BY <1>6, <3>1 DEF InStep, PolicyCaches, PolicyFollows, Conforms, objects
  <2>. QED  BY <2>1, <2>2 DEF PolicyCaches
<1>9. Memories' /\ NamespaceCaches' /\ Handlers'
  BY <1>6 DEF InStep, Memories, MemoryFollows, NamespaceCaches, NamespaceFollows,
     Handlers, TaskFollows, settings, objects
<1>10. ASSUME NEW q \in up, NEW n \in Relevant, NEW p \in Want(n)
       PROVE  QueuesLead(q, n, p)
  <2>1. /\ q \in Replicas /\ n \in Namespaces /\ <<n, p>> \in PolicyKeys
        /\ Tells(q, <<n, p>>)
    BY <1>2, <1>6, SteadyLemma DEF Relevant, Tells, objects, PolicyKeys
  <2>2. networkPolicyworkqueue[q].dirty \subseteq networkPolicyworkqueue'[q].dirty
    BY <1>2, <1>7, <2>1 DEF Added, Queues
  <2>3. CASE q = r /\ <<n, p>> = k
    <3>1. Fine(q, <<n, p>>)'
      <4>1. CASE t # << >>
        <5>1. policyStream'[q][<<n, p>>] # << >>
          BY <1>2, <1>6, <2>3, <4>1
        <5>. QED  BY <5>1 DEF Fine, Repairing
      <4>2. CASE t = << >> /\ c = None
        <5>1. k[1] = n /\ k[2] = p
          BY <2>3
        <5>2. Conforms(k)
          BY <1>4, <1>5, <4>2, <5>1 DEF Shortens
        <5>. QED  BY <1>6, <2>3, <5>2 DEF Fine, Conforms, objects
      <4>3. CASE c # None
        <5>1. k \in networkPolicyworkqueue'[r].dirty
          BY <1>2, <1>7, <4>3 DEF Added, Queues
        <5>. QED  BY <2>3, <5>1 DEF Fine, Repairing
      <4>. QED  BY <4>1, <4>2, <4>3
    <3>. QED  BY <1>6, <2>1, <3>1 DEF QueuesLead, Coming
  <2>4. CASE ~(q = r /\ <<n, p>> = k)
    <3>1. policyStream'[q][<<n, p>>] = policyStream[q][<<n, p>>]
      BY <1>2, <1>6, <2>1, <2>4
    <3>. QED  BY <1>6, <2>1, <2>2, <3>1, TendedUnderWay
  <2>. QED  BY <2>3, <2>4
<1>. QED  BY <1>6, <1>8, <1>9, <1>10, InformerTended DEF InStep, objects

----------------------------------------------------------------------------
(* The steps of the workers.                                               *)

(* A step of worker w hands over what w was on its way to.                 *)
LEMMA WorkerTended ==
    ASSUME Inv, Steady, NothingLost, NEW w \in Workers, UNCHANGED <<namespace, up>>,
           \A v \in Workers : v # w => Stays(v),
           \A q \in up, n \in Relevant : \A p \in Want(n) :
              QueuesLead(q, n, p) /\ HandsOver(w, n, p)
    PROVE  NothingLost'
<1>1. up \subseteq Replicas
  BY DEF Inv, Typed, TypeOK, ClusterTypeOK
<1>2. ASSUME NEW q \in up', NEW n \in Relevant', NEW p \in Want(n)
      PROVE  Tended(q, n, p)'
  <2>1. /\ n \in Relevant /\ n \in Namespaces /\ q \in Replicas
        /\ Tended(q, n, p) /\ QueuesLead(q, n, p) /\ HandsOver(w, n, p)
    BY <1>1 DEF Relevant, Active, NothingLost
  <2>. QED  BY <2>1, TendedStep
<1>. QED  BY <1>2 DEF NothingLost

(* What a step of worker w does to the workers.                            *)
LEMMA StepFollows ==
    ASSUME Inv, Handlers, NEW w \in Workers, NEW l, NEW t, Step(w, l, t), TaskFollows(w, l, t)
    PROVE  /\ Handlers' /\ pc'[w] = l /\ task'[w] = t
           /\ \A v \in Workers : v # w => Stays(v)
<1>1. /\ pc'[w] = l /\ task'[w] = t
      /\ \A v \in Workers : v # w => pc'[v] = pc[v] /\ task'[v] = task[v]
  BY DEF Step, Inv, Typed, TypeOK, WorkersTypeOK
<1>2. \A v \in Workers : TaskFollows(v, pc'[v], task'[v])
  BY <1>1 DEF Handlers
<1>. QED  BY <1>1, <1>2 DEF Handlers, Stays

(* What everybody has follows as long as it does not change.               *)
LEMMA InStepFrame ==
    ASSUME InStep, Handlers',
           UNCHANGED <<objects, streams, listers, up, settings, defaultNetworkPolicies>>
    PROVE  InStep'
BY DEF InStep, Memories, MemoryFollows, NamespaceCaches, NamespaceFollows, PolicyCaches,
   PolicyFollows, Conforms, settings, objects, streams, listers

(* A step of worker w that writes nothing that is shared.                  *)
LEMMA LocalFollows ==
    ASSUME Inv, Steady, InStep, NothingLost, NEW w \in Workers, NEW l, NEW t,
           Step(w, l, t), TaskFollows(w, l, t), UNCHANGED <<Shared, defaultNetworkPolicies>>,
           \A n \in Relevant : \A p \in Want(n) : HandsOver(w, n, p)
    PROVE  InStep' /\ NothingLost'
<1>1. Handlers' /\ \A v \in Workers : v # w => Stays(v)
  BY StepFollows DEF InStep
<1>2. InStep'
  BY <1>1, InStepFrame DEF Shared
<1>3. ASSUME NEW q \in up, NEW n \in Relevant, NEW p \in Want(n)
      PROVE  QueuesLead(q, n, p)
  <2>1. q \in Replicas /\ n \in Namespaces
    BY DEF Relevant, Inv, Typed, TypeOK, ClusterTypeOK
  <2>. QED  BY <2>1, TendedUnderWay DEF Shared, objects, streams, queues, Tells
<1>4. UNCHANGED <<namespace, up>>
  BY DEF Shared, objects
<1>. QED  BY <1>1, <1>2, <1>3, <1>4, WorkerTended

(* A worker where nobody expects anything of it.                           *)
LEMMA NothingToHandOver ==
    ASSUME NEW w \in Workers,
           pc[w] \in {"idle", "range", "sweep", "remove", "succeeded", "failed"}
    PROVE  \A n, p : HandsOver(w, n, p)
BY DEF HandsOver, Ahead, OnItsWay, AboutTo, Looping

(* What waits for a worker when a delay is over and after Done.            *)
LEMMA DirtyLemma ==
    ASSUME NEW Keys, NEW Ws, NEW q \in Queues(Keys, Ws)
    PROVE  /\ \A k : q.dirty \subseteq Fired(q, k).dirty
           /\ \A w, failed : q.dirty \subseteq Returned(q, w, failed).dirty
BY DEF Queues, Fired, Returned, Finished, Delayed

(* A delay is over.                                                        *)
LEMMA FireFollows ==
    ASSUME Inv, Steady, InStep, NothingLost, NEW r \in Replicas,
           \/ \E n \in Namespaces : FireNamespace(r, n)
           \/ \E k \in PolicyKeys : FirePolicy(r, k)
    PROVE  InStep' /\ NothingLost'
<1>1. UNCHANGED <<objects, streams, listers, up, settings, defaultNetworkPolicies, pc, task>>
  BY DEF FireNamespace, FirePolicy
<1>2. \A q \in Replicas :
         /\ namespaceWorkqueue[q].dirty \subseteq namespaceWorkqueue'[q].dirty
         /\ networkPolicyworkqueue[q].dirty \subseteq networkPolicyworkqueue'[q].dirty
  <2>1. /\ namespaceWorkqueue \in [Replicas -> Queues(Namespaces, NsWorkers)]
        /\ networkPolicyworkqueue \in [Replicas -> Queues(PolicyKeys, NpWorkers)]
    BY DEF Inv, Typed, TypeOK, QueuesTypeOK
  <2>2. CASE \E n \in Namespaces : FireNamespace(r, n)
    BY <2>1, <2>2, DirtyLemma DEF FireNamespace
  <2>3. CASE \E k \in PolicyKeys : FirePolicy(r, k)
    BY <2>1, <2>3, DirtyLemma DEF FirePolicy
  <2>. QED  BY <2>2, <2>3
<1>3. InStep'
  BY <1>1, InStepFrame DEF InStep, Handlers, TaskFollows
<1>4. ASSUME NEW q \in up, NEW n \in Relevant, NEW p \in Want(n)
      PROVE  QueuesLead(q, n, p)
  <2>1. q \in Replicas /\ n \in Namespaces
    BY DEF Relevant, Inv, Typed, TypeOK, ClusterTypeOK
  <2>. QED  BY <1>1, <1>2, <2>1, TendedUnderWay DEF objects, streams, Tells
<1>. QED  BY <1>1, <1>3, <1>4, InformerTended DEF objects

(* UpdateConfig has nothing to do.                                         *)
LEMMA NoUpdate ==
    ASSUME Inv, Steady, InStep, NEW r \in Replicas
    PROVE  ~UpdateEnforcement(r) /\ ~UpdateNames(r)
BY DEF Steady, InStep, Memories, MemoryFollows, UpdateEnforcement, UpdateNames

(* Get.                                                                    *)
LEMMA GetFollows ==
    ASSUME Inv, Steady, InStep, NothingLost, NEW w \in Workers, GetItem(w)
    PROVE  InStep' /\ NothingLost'
<1>1. /\ UNCHANGED <<objects, streams, listers, up, settings, defaultNetworkPolicies>>
      /\ pc[w] = "idle" /\ Home[w] \in Replicas
      /\ namespaceWorkqueue \in [Replicas -> Queues(Namespaces, NsWorkers)]
      /\ networkPolicyworkqueue \in [Replicas -> Queues(PolicyKeys, NpWorkers)]
  BY WorkerLemma DEF GetItem, GetNamespaceItem, GetPolicyItem, Inv, Typed, TypeOK, QueuesTypeOK
<1>2. PICK t : Step(w, "lookup", t)
  BY DEF GetItem, GetNamespaceItem, GetPolicyItem
<1>3. /\ Handlers' /\ pc'[w] = "lookup" /\ task'[w] = t
      /\ \A v \in Workers : v # w => Stays(v)
  <2>1. TaskFollows(w, "lookup", t)
    BY DEF TaskFollows, Looping, AtPolicy, Sweeping
  <2>. QED  BY <1>2, <2>1, StepFollows DEF InStep
<1>4. InStep'
  BY <1>1, <1>3, InStepFrame
<1>5. ASSUME NEW q \in up, NEW n \in Relevant, NEW p \in Want(n)
      PROVE  QueuesLead(q, n, p)
  <2>1. /\ q \in Replicas /\ n \in Namespaces /\ p \in Names /\ <<n, p>> \in PolicyKeys
    BY SteadyLemma DEF Relevant, Inv, Typed, TypeOK, ClusterTypeOK, PolicyKeys
  <2>2. n \in namespaceWorkqueue[q].dirty => Coming(q, n, p)'
    <3>1. CASE n \in namespaceWorkqueue'[q].dirty
      BY <3>1 DEF Coming
    <3>2. CASE n \in namespaceWorkqueue[q].dirty /\ n \notin namespaceWorkqueue'[q].dirty
      <4>1. GetNamespaceItem(w, n) /\ Home[w] = q
        <5>1. PICK m \in Namespaces : GetNamespaceItem(w, m)
          BY <1>1, <3>2 DEF GetItem, GetPolicyItem
        <5>. QED  BY <1>1, <2>1, <3>2, <5>1 DEF GetNamespaceItem, Got, Queues
      <4>2. w \in NsWorkers /\ task'[w].namespace = n
        BY <1>3, <4>1 DEF GetNamespaceItem, Step, Inv, Typed, TypeOK, WorkersTypeOK, NoTask
      <4>3. Ahead(w, n, p)'
        BY <1>3, <4>2 DEF Ahead
      <4>. QED  BY <4>1, <4>3 DEF Coming
    <3>. QED  BY <3>1, <3>2
  <2>3. <<n, p>> \in networkPolicyworkqueue[q].dirty => Fine(q, <<n, p>>)'
    <3> DEFINE k == <<n, p>>
    <3>1. CASE k \in networkPolicyworkqueue'[q].dirty
      BY <3>1 DEF Fine, Repairing
    <3>2. CASE k \in networkPolicyworkqueue[q].dirty /\ k \notin networkPolicyworkqueue'[q].dirty
      <4>1. GetPolicyItem(w, k) /\ Home[w] = q
        <5>1. PICK j \in PolicyKeys : GetPolicyItem(w, j)
          BY <1>1, <3>2 DEF GetItem, GetNamespaceItem
        <5>. QED  BY <1>1, <2>1, <3>2, <5>1 DEF GetPolicyItem, Got, Queues
      <4>2. w \in NpWorkers /\ task'[w].namespace = n /\ task'[w].name = p
        BY <1>3, <4>1 DEF GetPolicyItem, Step, Inv, Typed, TypeOK, WorkersTypeOK, NoTask
      <4>3. OnItsWay(w, k)'
        BY <1>3, <4>2 DEF OnItsWay, Key
      <4>. QED  BY <4>1, <4>3 DEF Fine, Repairing
    <3>. QED  BY <3>1, <3>2
  <2>4. Tells(q, <<n, p>>) /\ UNCHANGED <<namespaceStream, policyStream, defaultNetworkPolicies>>
    BY <1>1 DEF Tells, objects, streams
  <2>. QED  BY <2>2, <2>3, <2>4 DEF QueuesLead, Coming, Fine, Repairing
<1>6. UNCHANGED <<namespace, up>> /\ \A n, p : HandsOver(w, n, p)
  BY <1>1, NothingToHandOver DEF objects
<1>. QED  BY <1>3, <1>4, <1>5, <1>6, WorkerTended

(* Done: what is to be tried again is something else.                      *)
LEMMA ReturnFollows ==
    ASSUME Inv, Steady, InStep, NothingLost, NEW w \in Workers, Return(w)
    PROVE  InStep' /\ NothingLost'
<1>1. /\ UNCHANGED <<objects, streams, listers, up, settings, defaultNetworkPolicies>>
      /\ pc[w] \in {"succeeded", "failed"} /\ Home[w] \in Replicas
      /\ Step(w, "idle", NoTask)
  BY WorkerLemma DEF Return
<1>2. \A q \in Replicas :
         /\ namespaceWorkqueue[q].dirty \subseteq namespaceWorkqueue'[q].dirty
         /\ networkPolicyworkqueue[q].dirty \subseteq networkPolicyworkqueue'[q].dirty
  <2>1. /\ namespaceWorkqueue \in [Replicas -> Queues(Namespaces, NsWorkers)]
        /\ networkPolicyworkqueue \in [Replicas -> Queues(PolicyKeys, NpWorkers)]
    BY DEF Inv, Typed, TypeOK, QueuesTypeOK
  <2>. QED  BY <1>1, <2>1, DirtyLemma DEF Return
<1>3. Handlers' /\ \A v \in Workers : v # w => Stays(v)
  <2>1. TaskFollows(w, "idle", NoTask)
    BY DEF TaskFollows, Looping, AtPolicy, Sweeping
  <2>. QED  BY <1>1, <2>1, StepFollows DEF InStep
<1>4. InStep'
  BY <1>1, <1>3, InStepFrame
<1>5. ASSUME NEW q \in up, NEW n \in Relevant, NEW p \in Want(n)
      PROVE  QueuesLead(q, n, p)
  <2>1. q \in Replicas /\ n \in Namespaces
    BY DEF Relevant, Inv, Typed, TypeOK, ClusterTypeOK
  <2>. QED  BY <1>1, <1>2, <2>1, TendedUnderWay DEF objects, streams, Tells
<1>6. UNCHANGED <<namespace, up>> /\ \A n, p : HandsOver(w, n, p)
  BY <1>1, NothingToHandOver DEF objects
<1>. QED  BY <1>3, <1>4, <1>5, <1>6, WorkerTended

(* What a worker with an item has.                                         *)
LEMMA BusyLemma ==
    ASSUME Inv, Steady, InStep, NEW w \in Workers, pc[w] \notin {"idle", "succeeded", "failed"}
    PROVE  /\ Home[w] \in up /\ Home[w] \in Replicas /\ task[w] \in Tasks
           /\ task[w].namespace \in Namespaces
           /\ TaskFollows(w, pc[w], task[w])
           /\ SoundAt(w, pc[w], task[w])
           /\ w \in NsWorkers <=> w \notin NpWorkers
<1>1. SoundAt(w, pc[w], task[w]) /\ task[w] \in Tasks /\ Home[w] \in Replicas
  BY WorkerLemma
<1>. QED  BY <1>1, WorkerAssumption DEF SoundAt, SoundIn, Tasks, InStep, Handlers, Workers

(* Before the loop: the loop will come to every policy of the setting.     *)
LEMMA BeforeLoop ==
    ASSUME Inv, Steady, NEW w \in Workers, NEW l, NEW u,
           pc[w] \in {"lookup", "names", "enforcement"}, pc'[w] = l, task'[w] = u,
           u.namespace = task[w].namespace, u.name = task[w].name,
           l \in {"names", "enforcement"} \/ (l = "load" /\ u.i = 1)
    PROVE  \A n \in Relevant : \A p \in Want(n) : HandsOver(w, n, p)
<1> SUFFICES ASSUME NEW n \in Relevant, NEW p \in Want(n) PROVE HandsOver(w, n, p)
  OBVIOUS
<1>1. PICK j \in DOMAIN chosen[n] : chosen[n][j] = p /\ 1 <= j
  BY SteadyLemma, SettingLemma DEF Want, Listed, Relevant
<1>2. Ahead(w, n, p) => Ahead(w, n, p)'
  BY <1>1 DEF Ahead, Looping
<1>3. OnItsWay(w, <<n, p>>) => OnItsWay(w, <<n, p>>)'
  BY DEF OnItsWay, Key, Looping
<1>4. ~AboutTo(w, <<n, p>>)
  BY DEF AboutTo
<1>. QED  BY <1>2, <1>3, <1>4 DEF HandsOver, Tended, Coming, Fine, Repairing

(* In the loop: the worker is still before what it was before.             *)
LEMMA WithinLoop ==
    ASSUME Inv, Steady, NEW w \in Workers, NEW l, NEW u,
           pc[w] \in Looping, pc'[w] = l, task'[w] = u,
           u.namespace = task[w].namespace, l \in Looping \cup {"compare"},
           w \in NsWorkers => u.i = task[w].i,
           w \in NpWorkers => u.name = task[w].name
    PROVE  \A n \in Relevant : \A p \in Want(n) : HandsOver(w, n, p)
<1> SUFFICES ASSUME NEW n \in Relevant, NEW p \in Want(n) PROVE HandsOver(w, n, p)
  OBVIOUS
<1>1. Ahead(w, n, p) => Ahead(w, n, p)'
  BY DEF Ahead, Looping
<1>2. OnItsWay(w, <<n, p>>) => OnItsWay(w, <<n, p>>)'
  BY DEF OnItsWay, Key, Looping
<1>3. ~AboutTo(w, <<n, p>>)
  BY DEF AboutTo, Looping
<1>. QED  BY <1>1, <1>2, <1>3 DEF HandsOver, Tended, Coming, Fine, Repairing

(* The lister may lag behind, but then an event is on its way.             *)
LEMMA LookupFollows ==
    ASSUME Inv, Steady, InStep, NothingLost, NEW w \in Workers, LookupNamespace(w)
    PROVE  InStep' /\ NothingLost'
<1> DEFINE t == task[w]
           r == Home[w]
           m == t.namespace
           found == namespacesLister[r][m]
<1>1. /\ w \in NsWorkers /\ w \notin NpWorkers /\ pc[w] = "lookup"
      /\ UNCHANGED <<Shared, defaultNetworkPolicies>>
      /\ r \in up /\ r \in Replicas /\ t \in Tasks /\ m \in Namespaces
  BY BusyLemma DEF LookupNamespace
<1>2. Follows(namespaceStream[r][m], found, namespace[m])
      /\ (found # None => Prescribed(found.annotation) = chosen[m])
  <2>1. NamespaceFollows(r, m)
    BY <1>1 DEF InStep, NamespaceCaches
  <2>. QED  BY <1>1, <2>1 DEF NamespaceFollows, Versions
<1>3. CASE found = None \/ IsExcluded(m)
  <2>1. Step(w, "succeeded", NoTask)
    BY <1>3 DEF LookupNamespace
  <2>2. TaskFollows(w, "succeeded", NoTask)
    BY DEF TaskFollows, Looping, AtPolicy, Sweeping
  <2>3. ASSUME NEW n \in Relevant, NEW p \in Want(n) PROVE HandsOver(w, n, p)
    <3>1. ASSUME Ahead(w, n, p) PROVE Tended(r, n, p)'
      <4>1. n = m /\ found = None /\ namespace[m] # None
        BY <1>3, <3>1 DEF Ahead, Relevant, Active, IsExcluded
      <4>2. namespaceStream[r][m] # << >>
        BY <1>2, <4>1 DEF Follows
      <4>. QED  BY <1>1, <4>1, <4>2 DEF Tended, Coming, Shared, streams
    <3>2. ~OnItsWay(w, <<n, p>>) /\ ~AboutTo(w, <<n, p>>)
      BY <1>1 DEF OnItsWay, AboutTo
    <3>. QED  BY <3>1, <3>2 DEF HandsOver
  <2>. QED  BY <1>1, <2>1, <2>2, <2>3, LocalFollows
<1>4. CASE ~(found = None \/ IsExcluded(m))
  <2> DEFINE u == [t EXCEPT !.annotation = found.annotation]
  <2>1. Step(w, "names", u)
    BY <1>4 DEF LookupNamespace
  <2>2. u.namespace = m /\ u.name = t.name /\ u.annotation = found.annotation
    BY <1>1 DEF Tasks
  <2>3. TaskFollows(w, "names", u)
    BY <1>2, <1>4, <2>2 DEF TaskFollows, Looping, AtPolicy, Sweeping
  <2> HIDE DEF u
  <2>4. pc'[w] = "names" /\ task'[w] = u
    BY <2>1, <2>3, StepFollows DEF InStep
  <2>5. \A n \in Relevant : \A p \in Want(n) : HandsOver(w, n, p)
    BY <1>1, <2>2, <2>4, BeforeLoop
  <2>. QED  BY <1>1, <2>1, <2>3, <2>5, LocalFollows
<1>. QED  BY <1>3, <1>4

(* The API server has the namespace, or there is nothing to do.            *)
LEMMA ReadNamespaceFollows ==
    ASSUME Inv, Steady, Reliable, InStep, NothingLost, NEW w \in Workers, ReadNamespace(w)
    PROVE  InStep' /\ NothingLost'
<1> DEFINE t == task[w]
           m == t.namespace
           u == [t EXCEPT !.annotation = namespace[m].annotation]
<1>1. /\ w \in NpWorkers /\ w \notin NsWorkers /\ pc[w] = "lookup"
      /\ UNCHANGED <<Shared, defaultNetworkPolicies>>
      /\ t \in Tasks /\ m \in Namespaces
  BY BusyLemma DEF ReadNamespace
<1>2. CASE namespace[m] # None /\ Step(w, "names", u)
  <2>1. u.namespace = m /\ u.name = t.name /\ u.annotation = namespace[m].annotation
    BY <1>1 DEF Tasks
  <2>2. TaskFollows(w, "names", u)
    BY <1>1, <1>2, <2>1, SteadyLemma DEF TaskFollows, Looping, AtPolicy, Sweeping
  <2> HIDE DEF u
  <2>3. pc'[w] = "names" /\ task'[w] = u
    BY <1>2, <2>2, StepFollows DEF InStep
  <2>4. \A n \in Relevant : \A p \in Want(n) : HandsOver(w, n, p)
    BY <1>1, <2>1, <2>3, BeforeLoop
  <2>. QED  BY <1>1, <1>2, <2>2, <2>4, LocalFollows
<1>3. CASE namespace[m] = None /\ Step(w, "succeeded", NoTask)
  <2>1. TaskFollows(w, "succeeded", NoTask)
    BY DEF TaskFollows, Looping, AtPolicy, Sweeping
  <2>2. ASSUME NEW n \in Relevant, NEW p \in Want(n) PROVE HandsOver(w, n, p)
    BY <1>1, <1>3 DEF HandsOver, Ahead, OnItsWay, AboutTo, Key, Relevant, Active
  <2>. QED  BY <1>1, <1>3, <2>1, <2>2, LocalFollows
<1>. QED  BY <1>2, <1>3 DEF ReadNamespace, Fault, Reliable

(* The setting that the worker makes is the one of the namespace.          *)
LEMMA SettingFollows ==
    ASSUME Inv, Steady, InStep, NothingLost, NEW w \in Workers,
           ReadNames(w) \/ ReadEnforcement(w)
    PROVE  InStep' /\ NothingLost'
<1> DEFINE t == task[w]
           m == t.namespace
<1>1. /\ pc[w] \in {"names", "enforcement"} /\ UNCHANGED <<Shared, defaultNetworkPolicies>>
      /\ t \in Tasks /\ m \in Namespaces /\ TaskFollows(w, pc[w], t)
      /\ defaultEnforcement[Home[w]] = fixed.enforcement
      /\ defaultNetworkPolicyNames[Home[w]] = fixed.names
  BY BusyLemma DEF ReadNames, ReadEnforcement, InStep, Memories, MemoryFollows
<1>2. ASSUME NEW l, NEW u, Step(w, l, u), TaskFollows(w, l, u),
             u.namespace = m, u.name = t.name, l = "enforcement" \/ (l = "load" /\ u.i = 1)
      PROVE  InStep' /\ NothingLost'
  <2>1. pc'[w] = l /\ task'[w] = u
    BY <1>2, StepFollows DEF InStep
  <2>2. \A n \in Relevant : \A p \in Want(n) : HandsOver(w, n, p)
    BY <1>1, <1>2, <2>1, BeforeLoop
  <2>. QED  BY <1>1, <1>2, <2>2, LocalFollows
<1>3. CASE ReadNames(w)
  <2> DEFINE u == [t EXCEPT !.value = defaultNetworkPolicyNames[Home[w]], !.src = "config"]
  <2>1. Step(w, "enforcement", u) /\ pc[w] = "names"
    BY <1>3 DEF ReadNames
  <2>2. /\ u.namespace = m /\ u.name = t.name /\ u.annotation = t.annotation
        /\ u.value = fixed.names
    BY <1>1 DEF Tasks
  <2> HIDE DEF u
  <2>3. TaskFollows(w, "enforcement", u)
    BY <1>1, <2>1, <2>2 DEF TaskFollows, Looping, AtPolicy, Sweeping
  <2>. QED  BY <1>2, <2>1, <2>2, <2>3
<1>4. CASE ReadEnforcement(w)
  <2>1. /\ pc[w] = "enforcement" /\ Prescribed(t.annotation) = chosen[m]
        /\ t.value = fixed.names
    BY <1>1, <1>4 DEF ReadEnforcement, TaskFollows
  <2>2. ASSUME NEW u, Step(w, "load", u), u.namespace = m, u.name = t.name, u.i = 1,
               u.value = chosen[m]
        PROVE  InStep' /\ NothingLost'
    <3>1. TaskFollows(w, "load", u)
      BY <2>2 DEF TaskFollows, Looping, AtPolicy, Sweeping
    <3>. QED  BY <1>2, <2>2, <3>1
  <2>3. CASE t.annotation # None /\ ~defaultEnforcement[Home[w]]
    <3> DEFINE u == [t EXCEPT !.i = 1, !.annotation = None,
                              !.value = t.annotation, !.src = "namespace"]
    <3>1. Step(w, "load", u)
      BY <1>4, <2>3 DEF ReadEnforcement
    <3>2. u.namespace = m /\ u.name = t.name /\ u.i = 1 /\ u.value = t.annotation
      BY <1>1 DEF Tasks
    <3>3. t.annotation = chosen[m]
      BY <1>1, <2>1, <2>3 DEF Prescribed
    <3> HIDE DEF u
    <3>. QED  BY <2>2, <3>1, <3>2, <3>3
  <2>4. CASE ~(t.annotation # None /\ ~defaultEnforcement[Home[w]])
    <3> DEFINE u == [t EXCEPT !.i = 1, !.annotation = None]
    <3>1. Step(w, "load", u)
      BY <1>4, <2>4 DEF ReadEnforcement
    <3>2. u.namespace = m /\ u.name = t.name /\ u.i = 1 /\ u.value = t.value
      BY <1>1 DEF Tasks
    <3>3. t.value = chosen[m]
      BY <1>1, <2>1, <2>4 DEF Prescribed
    <3> HIDE DEF u
    <3>. QED  BY <2>2, <3>1, <3>2, <3>3
  <2>. QED  BY <2>3, <2>4
<1>. QED  BY <1>3, <1>4

(* What a worker in the loop over the setting has.                         *)
LEMMA LoopLemma ==
    ASSUME Inv, Steady, InStep, NEW w \in Workers, pc[w] \in Looping
    PROVE  /\ task[w] \in Tasks /\ task[w].namespace \in Namespaces
           /\ Home[w] \in up /\ Home[w] \in Replicas
           /\ w \in NsWorkers <=> w \notin NpWorkers
           /\ task[w].value = chosen[task[w].namespace]
           /\ Expected(w) = Want(task[w].namespace)
           /\ task[w].i \in Nat /\ Len(task[w].value) \in Nat
           /\ DOMAIN task[w].value = 1..Len(task[w].value)
           /\ task[w].i <= Len(task[w].value) =>
                 /\ task[w].i \in DOMAIN task[w].value
                 /\ task[w].value[task[w].i] \in Want(task[w].namespace)
<1>1. /\ task[w] \in Tasks /\ task[w].namespace \in Namespaces
      /\ Home[w] \in up /\ Home[w] \in Replicas
      /\ w \in NsWorkers <=> w \notin NpWorkers
      /\ TaskFollows(w, pc[w], task[w]) /\ SoundAt(w, pc[w], task[w])
  BY BusyLemma DEF Looping
<1>2. task[w].value = chosen[task[w].namespace]
  BY <1>1 DEF TaskFollows
<1>3. task[w].value \in Settings
  BY <1>1, <1>2, SteadyLemma
<1>4. task[w].i \in Nat \ {0}
  BY <1>1 DEF SoundAt, SoundIn, Tasks
<1>. QED  BY <1>1, <1>2, <1>3, <1>4, SettingLemma DEF Expected, Want, Listed

(* Loading: what the worker is at is named by the setting.                 *)
LEMMA LoadFollows ==
    ASSUME Inv, Steady, InStep, NothingLost, NEW w \in Workers, LoadBuffer(w)
    PROVE  InStep' /\ NothingLost'
<1> DEFINE t == task[w]
           m == t.namespace
<1>1. /\ pc[w] = "load" /\ pc[w] \in Looping /\ UNCHANGED <<Shared, defaultNetworkPolicies>>
  BY DEF LoadBuffer, Looping
<1>2. /\ t \in Tasks /\ m \in Namespaces /\ t.value = chosen[m] /\ Expected(w) = Want(m)
      /\ w \in NsWorkers <=> w \notin NpWorkers
      /\ t.i \in Nat /\ Len(t.value) \in Nat /\ DOMAIN t.value = 1..Len(t.value)
      /\ t.i <= Len(t.value) => t.i \in DOMAIN t.value /\ t.value[t.i] \in Want(m)
  BY <1>1, LoopLemma
<1>3. ASSUME NEW l, NEW u, Step(w, l, u), TaskFollows(w, l, u), u.namespace = m,
             l \in Looping \cup {"compare"},
             w \in NsWorkers => u.i = t.i, w \in NpWorkers => u.name = t.name
      PROVE  InStep' /\ NothingLost'
  <2>1. pc'[w] = l /\ task'[w] = u
    BY <1>3, StepFollows DEF InStep
  <2>2. \A n \in Relevant : \A p \in Want(n) : HandsOver(w, n, p)
    BY <1>1, <1>3, <2>1, WithinLoop
  <2>. QED  BY <1>1, <1>3, <2>2, LocalFollows
<1>4. CASE t.i > Len(t.value) /\ w \in NpWorkers /\ t.name \in Expected(w)
  <2>1. Step(w, "compare", t)
    BY <1>4 DEF LoadBuffer
  <2>2. TaskFollows(w, "compare", t)
    BY <1>2, <1>4 DEF TaskFollows, Looping, AtPolicy, Sweeping
  <2>. QED  BY <1>2, <1>3, <1>4, <2>1, <2>2
<1>5. CASE t.i > Len(t.value) /\ ~(w \in NpWorkers /\ t.name \in Expected(w))
  <2>1. Step(w, "range", t)
    BY <1>5 DEF LoadBuffer
  <2>2. TaskFollows(w, "range", t)
    BY <1>2 DEF TaskFollows, Looping, AtPolicy, Sweeping
  <2>3. ASSUME NEW n \in Relevant, NEW p \in Want(n) PROVE HandsOver(w, n, p)
    <3>1. ~Ahead(w, n, p)
      <4> SUFFICES ASSUME w \in NsWorkers, n = m, NEW j \in DOMAIN chosen[n], t.i <= j
                   PROVE  FALSE
        BY <1>1 DEF Ahead
      <4>. QED  BY <1>2, <1>5
    <3>2. ~OnItsWay(w, <<n, p>>)
      BY <1>2, <1>5 DEF OnItsWay, Key
    <3>3. ~AboutTo(w, <<n, p>>)
      BY <1>1 DEF AboutTo
    <3>. QED  BY <3>1, <3>2, <3>3 DEF HandsOver
  <2>. QED  BY <1>1, <2>1, <2>2, <2>3, LocalFollows
<1>6. CASE t.i <= Len(t.value)
  <2>1. t.i \in DOMAIN t.value /\ t.value[t.i] \in Want(m) /\ ~(t.i > Len(t.value))
    BY <1>2, <1>6
  <2>2. CASE Buffer(w)[t.value[t.i]] = None
    <3>1. Step(w, "fetch", t)
      BY <2>1, <2>2 DEF LoadBuffer
    <3>2. TaskFollows(w, "fetch", t)
      BY <1>2 DEF TaskFollows, Looping, AtPolicy, Sweeping
    <3>. QED  BY <1>3, <3>1, <3>2 DEF Looping
  <2>3. CASE Buffer(w)[t.value[t.i]] # None /\ w \in NsWorkers
    <3> DEFINE u == [t EXCEPT !.name = t.value[t.i]]
    <3>1. Step(w, "compare", u)
      BY <2>1, <2>3 DEF LoadBuffer
    <3>2. /\ u.namespace = m /\ u.name = t.value[t.i] /\ u.value = t.value /\ u.i = t.i
      BY <1>2 DEF Tasks
    <3> HIDE DEF u
    <3>3. TaskFollows(w, "compare", u)
      BY <1>2, <2>1, <3>2 DEF TaskFollows, Looping, AtPolicy, Sweeping
    <3>. QED  BY <1>2, <1>3, <2>3, <3>1, <3>2, <3>3
  <2>4. CASE Buffer(w)[t.value[t.i]] # None /\ w \notin NsWorkers
    <3> DEFINE u == [t EXCEPT !.i = @ + 1]
    <3>1. Step(w, "load", u)
      BY <2>1, <2>4 DEF LoadBuffer
    <3>2. u.namespace = m /\ u.name = t.name /\ u.value = t.value
      BY <1>2 DEF Tasks
    <3> HIDE DEF u
    <3>3. TaskFollows(w, "load", u)
      BY <1>2, <3>2 DEF TaskFollows, Looping, AtPolicy, Sweeping
    <3>. QED  BY <1>3, <2>4, <3>1, <3>2, <3>3 DEF Looping
  <2>. QED  BY <2>2, <2>3, <2>4
<1>. QED  BY <1>2, <1>4, <1>5, <1>6

(* The template is there, and what it should be.                           *)
LEMMA FetchFollows ==
    ASSUME Inv, Steady, Reliable, InStep, NothingLost, NEW w \in Workers, FetchTemplate(w)
    PROVE  InStep' /\ NothingLost'
<1> DEFINE t == task[w]
           m == t.namespace
           p == t.value[t.i]
           u == [t EXCEPT !.spec = template[p]]
<1>1. /\ pc[w] = "fetch" /\ pc[w] \in Looping /\ UNCHANGED <<Shared, defaultNetworkPolicies>>
  BY DEF FetchTemplate, Looping
<1>2. /\ t \in Tasks /\ m \in Namespaces /\ t.value = chosen[m]
      /\ t.i <= Len(t.value) => p \in Want(m)
  BY <1>1, LoopLemma
<1>3. p \in Want(m)
  BY <1>1, <1>2, BusyLemma DEF SoundAt, SoundIn
<1>4. template[p] = wanted[p] /\ template[p] # None
  <2>1. template[p] = wanted[p]
    BY <1>2, <1>3 DEF Steady
  <2>. QED  BY <1>2, <1>3, <2>1, SteadyLemma
<1>5. Step(w, "store", u)
  BY <1>4 DEF FetchTemplate, Fault, Reliable
<1>6. /\ u.namespace = m /\ u.name = t.name /\ u.value = t.value /\ u.i = t.i
      /\ u.spec = wanted[p]
  BY <1>2, <1>4 DEF Tasks
<1> HIDE DEF u
<1>7. TaskFollows(w, "store", u)
  BY <1>2, <1>6 DEF TaskFollows, Looping, AtPolicy, Sweeping
<1>8. pc'[w] = "store" /\ task'[w] = u
  BY <1>5, <1>7, StepFollows DEF InStep
<1>9. \A n \in Relevant : \A q \in Want(n) : HandsOver(w, n, q)
  BY <1>1, <1>6, <1>8, WithinLoop DEF Looping
<1>. QED  BY <1>1, <1>5, <1>7, <1>9, LocalFollows

(* The buffer gets what is wanted; a worker that ranges over it sees an    *)
(* entry appear only if its setting does not name it.                      *)
LEMMA StoreFollows ==
    ASSUME Inv, Steady, InStep, NothingLost, NEW w \in Workers, StoreTemplate(w)
    PROVE  InStep' /\ NothingLost'
<1> DEFINE t == task[w]
           m == t.namespace
           p == t.value[t.i]
           r == Home[w]
           u == [t EXCEPT !.spec = None]
<1>1. /\ pc[w] = "store" /\ pc[w] \in Looping /\ UNCHANGED Shared
      /\ defaultNetworkPolicies' = [defaultNetworkPolicies EXCEPT ![r][p] = t.spec]
      /\ pc' = [pc EXCEPT ![w] = "load"]
  BY DEF StoreTemplate, Looping
<1>2. /\ t \in Tasks /\ m \in Namespaces /\ r \in Replicas /\ t.value = chosen[m]
      /\ t.i <= Len(t.value) => p \in Want(m)
  BY <1>1, LoopLemma
<1>3. /\ TaskFollows(w, "store", t) /\ SoundAt(w, "store", t)
  BY <1>1, BusyLemma
<1>4. p \in Want(m) /\ p \in Names /\ t.spec = wanted[p] /\ t.spec # None
  BY <1>2, <1>3, SteadyLemma DEF TaskFollows, SoundAt, SoundIn
<1>5. /\ defaultNetworkPolicies \in [Replicas -> [Names -> Specs \cup {None}]]
      /\ pc \in [Workers -> Labels] /\ task \in [Workers -> Tasks] /\ up \subseteq Replicas
  BY DEF Inv, Typed, TypeOK, ClusterTypeOK, MemoryTypeOK, WorkersTypeOK
<1>6. PICK seeing : /\ seeing \subseteq {v \in Workers : pc[v] \in {"sweep", "remove"}
                                                         /\ p \notin Expected(v)}
                    /\ task' = [v \in Workers |->
                          IF v = w THEN u
                          ELSE IF v \in seeing
                          THEN [task[v] EXCEPT !.remaining = @ \cup {p}]
                          ELSE task[v]]
  BY DEF StoreTemplate
<1>7. /\ u.namespace = m /\ u.name = t.name /\ u.value = t.value /\ u.i = t.i
      /\ pc'[w] = "load" /\ task'[w] = u
  BY <1>1, <1>2, <1>5, <1>6 DEF Tasks
<1>8. ASSUME NEW v \in Workers, v # w
      PROVE  /\ Stays(v) /\ task'[v].value = task[v].value
             /\ task'[v].annotation = task[v].annotation /\ task'[v].spec = task[v].spec
             /\ task'[v].remaining = task[v].remaining
                \/ (v \in seeing /\ task'[v].remaining = task[v].remaining \cup {p})
  <2>1. pc'[v] = pc[v] /\ task[v] \in Tasks
    BY <1>1, <1>5, <1>8
  <2>2. CASE v \in seeing
    <3>1. task'[v] = [task[v] EXCEPT !.remaining = @ \cup {p}]
      BY <1>6, <1>8, <2>2
    <3>. QED  BY <2>1, <2>2, <3>1 DEF Stays, Tasks
  <2>3. CASE v \notin seeing
    <3>1. task'[v] = task[v]
      BY <1>6, <1>8, <2>3
    <3>. QED  BY <2>1, <3>1 DEF Stays
  <2>. QED  BY <2>2, <2>3
<1> HIDE DEF u
<1>9. Handlers'
  <2>1. TaskFollows(w, pc'[w], task'[w])
    BY <1>2, <1>7 DEF TaskFollows, Looping, AtPolicy, Sweeping
  <2>2. ASSUME NEW v \in Workers, v # w PROVE TaskFollows(v, pc'[v], task'[v])
    <3>1. TaskFollows(v, pc[v], task[v])
      BY DEF InStep, Handlers
    <3>2. v \in seeing => p \notin Want(task[v].namespace)
      <4>1. v \in seeing => task[v].value = chosen[task[v].namespace]
        BY <1>6, <3>1 DEF TaskFollows, Sweeping
      <4>. QED  BY <1>6, <4>1 DEF Expected, Want
    <3>. QED  BY <1>8, <2>2, <3>1, <3>2 DEF Stays, TaskFollows
  <2>. QED  BY <2>1, <2>2 DEF Handlers
<1>10. Memories'
  <2>1. ASSUME NEW q \in Replicas, NEW n \in Namespaces, NEW x \in Want(n)
        PROVE  defaultNetworkPolicies'[q][x] \in {None, wanted[x]}
    <3>1. x \in Names /\ defaultNetworkPolicies[q][x] \in {None, wanted[x]}
      BY SteadyLemma DEF InStep, Memories, MemoryFollows
    <3>. QED  BY <1>1, <1>2, <1>4, <1>5, <3>1
  <2>. QED  BY <1>1, <2>1 DEF InStep, Memories, MemoryFollows, Shared, settings
<1>11. NamespaceCaches' /\ PolicyCaches'
  BY <1>1 DEF InStep, NamespaceCaches, NamespaceFollows, PolicyCaches, PolicyFollows, Conforms,
     Shared, objects, streams, listers
<1>12. ASSUME NEW q \in up, NEW n \in Relevant, NEW x \in Want(n)
       PROVE  QueuesLead(q, n, x)
  <2>1. q \in Replicas /\ n \in Namespaces /\ x \in Names
    BY <1>5, SteadyLemma DEF Relevant
  <2>2. defaultNetworkPolicies[q][x] # None => defaultNetworkPolicies'[q][x] # None
    BY <1>1, <1>2, <1>4, <1>5, <2>1
  <2>. QED  BY <1>1, <2>1, <2>2, TendedUnderWay DEF Shared, objects, streams, queues, Tells
<1>13. \A n \in Relevant : \A x \in Want(n) : HandsOver(w, n, x)
  BY <1>1, <1>7, WithinLoop DEF Looping
<1>14. UNCHANGED <<namespace, up>>
  BY <1>1 DEF Shared, objects
<1>. QED  BY <1>8, <1>9, <1>10, <1>11, <1>12, <1>13, <1>14, WorkerTended DEF InStep

(* What a worker at a policy has.                                          *)
LEMMA AtPolicyLemma ==
    ASSUME Inv, Steady, InStep, NEW w \in Workers, pc[w] \in AtPolicy
    PROVE  /\ task[w] \in Tasks /\ task[w].namespace \in Namespaces
           /\ Home[w] \in up /\ Home[w] \in Replicas
           /\ w \in NsWorkers <=> w \notin NpWorkers
           /\ task[w].value = chosen[task[w].namespace]
           /\ task[w].name \in Want(task[w].namespace) /\ task[w].name \in Names
           /\ Key(w) = <<task[w].namespace, task[w].name>>
           /\ Key(w) \in PolicyKeys /\ Key(w)[2] = task[w].name
           /\ Key(w)[1] = task[w].namespace
           /\ w \in NsWorkers => task[w].name = chosen[task[w].namespace][task[w].i]
           /\ task[w].i \in Nat
           /\ Buffer(w)[task[w].name] = wanted[task[w].name]
           /\ defaultNetworkPolicies[Home[w]][task[w].name] # None
<1>1. /\ task[w] \in Tasks /\ task[w].namespace \in Namespaces
      /\ Home[w] \in up /\ Home[w] \in Replicas
      /\ w \in NsWorkers <=> w \notin NpWorkers
      /\ TaskFollows(w, pc[w], task[w]) /\ SoundAt(w, pc[w], task[w])
  BY BusyLemma DEF AtPolicy
<1>2. /\ task[w].value = chosen[task[w].namespace]
      /\ task[w].name \in Want(task[w].namespace)
      /\ w \in NsWorkers => task[w].name = task[w].value[task[w].i]
      /\ task[w].name \in Loaded(w)
  BY <1>1 DEF TaskFollows, SoundAt, SoundIn
<1>3. task[w].name \in Names
  BY <1>1, <1>2, SteadyLemma
<1>4. Buffer(w)[task[w].name] = wanted[task[w].name]
      /\ defaultNetworkPolicies[Home[w]][task[w].name] # None
  BY <1>1, <1>2 DEF InStep, Memories, MemoryFollows, Buffer, Loaded
<1>5. task[w].i \in Nat
  BY <1>1 DEF Tasks
<1>. QED  BY <1>1, <1>2, <1>3, <1>4, <1>5 DEF Key, PolicyKeys

(* Going on after one policy.                                              *)
LEMMA NextFollows ==
    ASSUME Inv, Steady, InStep, NEW w \in Workers, pc[w] \in AtPolicy, NextPolicy(w)
    PROVE  \E l, u : /\ Step(w, l, u) /\ TaskFollows(w, l, u)
                     /\ u.namespace = task[w].namespace
                     /\ w \in NsWorkers => l = "load" /\ u.i = task[w].i + 1
<1> DEFINE t == task[w]
           s == [t EXCEPT !.i = @ + 1]
           u == [t EXCEPT !.i = @ + 1, !.name = None]
<1>1. t \in Tasks /\ t.value = chosen[t.namespace]
  BY AtPolicyLemma
<1>2. CASE w \in NsWorkers
  <2>1. /\ s \in Tasks /\ s.namespace = t.namespace /\ s.value = t.value /\ s.i = t.i + 1
    BY <1>1 DEF Tasks
  <2>2. u = [s EXCEPT !.name = None]
    OBVIOUS
  <2>3. Step(w, "load", u)
    BY <1>2 DEF NextPolicy
  <2> HIDE DEF s, u
  <2>4. u.namespace = t.namespace /\ u.value = t.value /\ u.i = t.i + 1
    BY <2>1, <2>2 DEF Tasks
  <2>5. TaskFollows(w, "load", u)
    BY <1>1, <2>4 DEF TaskFollows, Looping, AtPolicy, Sweeping
  <2>. QED  BY <1>2, <2>3, <2>4, <2>5
<1>3. CASE w \notin NsWorkers
  <2>1. Step(w, "range", t)
    BY <1>3 DEF NextPolicy
  <2>2. TaskFollows(w, "range", t)
    BY <1>1 DEF TaskFollows, Looping, AtPolicy, Sweeping
  <2>. QED  BY <1>3, <2>1, <2>2
<1>. QED  BY <1>2, <1>3

(* What the worker sees in the cache is so, or an event is on its way.     *)
LEMMA CompareFollows ==
    ASSUME Inv, Steady, InStep, NothingLost, NEW w \in Workers, ComparePolicy(w)
    PROVE  InStep' /\ NothingLost'
<1> DEFINE t == task[w]
           r == Home[w]
<1>0. PICK m, p, k, found : /\ m = t.namespace /\ p = t.name /\ k = Key(w)
                            /\ found = networkPolicyLister[r][Key(w)]
  OBVIOUS
<1>1. /\ pc[w] = "compare" /\ pc[w] \in AtPolicy
      /\ UNCHANGED <<Shared, defaultNetworkPolicies>>
      /\ UNCHANGED <<policy, policyStream>>
  BY DEF ComparePolicy, AtPolicy, Shared, objects, streams
<1>2. /\ t \in Tasks /\ m \in Namespaces /\ r \in up /\ r \in Replicas
      /\ w \in NsWorkers <=> w \notin NpWorkers
      /\ t.value = chosen[m] /\ p \in Want(m) /\ k = <<m, p>> /\ k \in PolicyKeys
      /\ k[2] = p /\ t.i \in Nat
      /\ w \in NsWorkers => p = chosen[m][t.i]
      /\ Buffer(w)[p] = wanted[p] /\ defaultNetworkPolicies[r][p] # None
  BY <1>0, <1>1, AtPolicyLemma
<1>3. Follows(policyStream[r][k], found, policy[k])
  BY <1>0, <1>2 DEF InStep, PolicyCaches, PolicyFollows
<1>4. policyStream[r][k] = << >> => policy[k] = found
  BY <1>3 DEF Follows
<1>5. ASSUME NEW l, NEW u, Step(w, l, u), TaskFollows(w, l, u), u.namespace = m,
             Fine(r, k)',
             w \in NsWorkers => \/ l \in {"create", "update"} /\ u.i = t.i
                                \/ l = "load" /\ u.i = t.i + 1
      PROVE  InStep' /\ NothingLost'
  <2>1. pc'[w] = l /\ task'[w] = u
    BY <1>5, StepFollows DEF InStep
  <2>2. ASSUME NEW n \in Relevant, NEW q \in Want(n) PROVE HandsOver(w, n, q)
    <3>1. ASSUME Ahead(w, n, q) PROVE Tended(r, n, q)'
      <4>1. w \in NsWorkers /\ n = m
        BY <1>0, <3>1 DEF Ahead
      <4>2. PICK j \in DOMAIN chosen[n] : t.i <= j /\ chosen[n][j] = q
        BY <1>1, <3>1 DEF Ahead
      <4>3. j \in Nat
        BY <1>2, <4>1, <4>2, SteadyLemma, SettingLemma
      <4>4. CASE j = t.i
        <5>1. q = p /\ <<n, q>> = k
          BY <1>2, <4>1, <4>2, <4>4
        <5>. QED  BY <1>1, <1>2, <1>5, <5>1 DEF Tended
      <4>5. CASE j # t.i
        <5>1. t.i < j /\ t.i + 1 <= j
          BY <1>2, <4>2, <4>3, <4>5
        <5>2. Ahead(w, n, q)'
          BY <1>5, <2>1, <4>1, <4>2, <5>1 DEF Ahead, Looping
        <5>. QED  BY <5>2 DEF Tended, Coming
      <4>. QED  BY <4>4, <4>5
    <3>2. OnItsWay(w, <<n, q>>) => Fine(r, <<n, q>>)'
      <4>1. OnItsWay(w, <<n, q>>) => <<n, q>> = k
        BY <1>0 DEF OnItsWay
      <4>. QED  BY <1>5, <4>1
    <3>3. ~AboutTo(w, <<n, q>>)
      BY <1>1 DEF AboutTo
    <3>. QED  BY <3>1, <3>2, <3>3 DEF HandsOver
  <2>. QED  BY <1>1, <1>5, <2>2, LocalFollows
<1>6. ASSUME policyStream[r][k] # << >> PROVE Fine(r, k)'
  BY <1>1, <1>6 DEF Fine, Repairing
<1>7. CASE found = None
  <2>1. Step(w, "create", t)
    BY <1>0, <1>7 DEF ComparePolicy
  <2>2. TaskFollows(w, "create", t)
    BY <1>0, <1>1, <1>2, BusyLemma DEF TaskFollows, Looping, AtPolicy, Sweeping
  <2>3. pc'[w] = "create" /\ task'[w] = t
    BY <2>1, <2>2, StepFollows DEF InStep
  <2>4. CASE policyStream[r][k] = << >>
    <3>1. AboutTo(w, <<m, p>>)'
      BY <1>0, <1>1, <1>2, <1>4, <1>7, <2>3, <2>4 DEF AboutTo, Key
    <3>2. Fine(r, <<m, p>>)'
      BY <3>1 DEF Fine, Repairing
    <3>. QED  BY <1>0, <1>2, <1>5, <2>1, <2>2, <3>2
  <2>. QED  BY <1>0, <1>5, <1>6, <2>1, <2>2, <2>4
<1>8. CASE found # None /\ found.spec # Buffer(w)[p]
  <2>1. Step(w, "update", t)
    BY <1>0, <1>8 DEF ComparePolicy
  <2>2. TaskFollows(w, "update", t)
    BY <1>0, <1>1, <1>2, BusyLemma DEF TaskFollows, Looping, AtPolicy, Sweeping
  <2>3. pc'[w] = "update" /\ task'[w] = t
    BY <2>1, <2>2, StepFollows DEF InStep
  <2>4. CASE policyStream[r][k] = << >>
    <3>1. AboutTo(w, <<m, p>>)'
      BY <1>0, <1>1, <1>2, <1>4, <1>8, <2>3, <2>4 DEF AboutTo, Key
    <3>2. Fine(r, <<m, p>>)'
      BY <3>1 DEF Fine, Repairing
    <3>. QED  BY <1>0, <1>2, <1>5, <2>1, <2>2, <3>2
  <2>. QED  BY <1>0, <1>5, <1>6, <2>1, <2>2, <2>4
<1>9. CASE found # None /\ found.spec = Buffer(w)[p]
  <2>1. NextPolicy(w)
    BY <1>0, <1>9 DEF ComparePolicy
  <2>2. PICK l, u : /\ Step(w, l, u) /\ TaskFollows(w, l, u) /\ u.namespace = m
                    /\ w \in NsWorkers => l = "load" /\ u.i = t.i + 1
    BY <1>0, <1>1, <2>1, NextFollows
  <2>3. CASE policyStream[r][k] = << >>
    <3>1. Conforms(<<m, p>>)'
      BY <1>1, <1>2, <1>4, <1>9, <2>3 DEF Conforms
    <3>2. Fine(r, <<m, p>>)'
      BY <3>1 DEF Fine
    <3>. QED  BY <1>2, <1>5, <2>2, <3>2
  <2>. QED  BY <1>5, <1>6, <2>2, <2>3
<1>. QED  BY <1>7, <1>8, <1>9

(* A step of worker w that may write a policy.                             *)
LEMMA WritingFollows ==
    ASSUME Inv, Steady, InStep, NothingLost, NEW w \in Workers, NEW l, NEW u,
           Step(w, l, u), TaskFollows(w, l, u),
           UNCHANGED <<namespace, template, config, namespaceStream, listers, up,
                       changes, settings, defaultNetworkPolicies, queues>>,
           \/ UNCHANGED <<policy, policyStream>>
           \/ \E k \in PolicyKeys, v \in PolicyObjects \cup {None} :
                 /\ PutPolicy(k, v)
                 /\ k[2] \in Want(k[1]) /\ policy[k] = None /\ v # None => v.spec = wanted[k[2]],
           \A n \in Relevant : \A p \in Want(n) : HandsOver(w, n, p)
    PROVE  InStep' /\ NothingLost'
<1>1. Handlers' /\ \A v \in Workers : v # w => Stays(v)
  BY StepFollows DEF InStep
<1>2. /\ PolicyCaches'
      /\ \A r \in up, j \in PolicyKeys :
            Tells(r, j) /\ (policyStream[r][j] # << >> => policyStream'[r][j] # << >>)
  <2>1. CASE UNCHANGED <<policy, policyStream>>
    BY <2>1 DEF InStep, PolicyCaches, PolicyFollows, Conforms, Tells, listers
  <2>2. CASE ~UNCHANGED <<policy, policyStream>>
    BY <2>2, PutPolicyFollows DEF InStep, listers
  <2>. QED  BY <2>1, <2>2
<1>3. Memories' /\ NamespaceCaches'
  BY DEF InStep, Memories, MemoryFollows, NamespaceCaches, NamespaceFollows, settings, listers
<1>4. ASSUME NEW q \in up, NEW n \in Relevant, NEW p \in Want(n)
      PROVE  QueuesLead(q, n, p)
  <2>1. q \in Replicas /\ n \in Namespaces /\ <<n, p>> \in PolicyKeys
    BY SteadyLemma DEF Relevant, PolicyKeys, Inv, Typed, TypeOK, ClusterTypeOK
  <2>. QED  BY <1>2, <2>1, TendedUnderWay DEF queues
<1>. QED  BY <1>1, <1>2, <1>3, <1>4, WorkerTended DEF InStep

(* What karydia creates or updates is as it is wanted.                     *)
LEMMA WriteFollows ==
    ASSUME Inv, Steady, Reliable, InStep, NothingLost, NEW w \in Workers,
           CreatePolicyOf(w) \/ UpdatePolicyOf(w)
    PROVE  InStep' /\ NothingLost'
<1> DEFINE t == task[w]
<1>0. PICK m, p, k : m = t.namespace /\ p = t.name /\ k = Key(w)
  OBVIOUS
<1>1. /\ pc[w] \in {"create", "update"} /\ pc[w] \in AtPolicy /\ NextPolicy(w)
      /\ UNCHANGED <<namespace, template, config, namespaceStream, listers, up,
                     changes, settings, defaultNetworkPolicies, queues>>
  BY DEF CreatePolicyOf, UpdatePolicyOf, AtPolicy
<1>2. /\ t \in Tasks /\ m \in Namespaces /\ p \in Want(m) /\ k = <<m, p>> /\ k \in PolicyKeys
      /\ k[1] = m /\ k[2] = p /\ t.i \in Nat /\ Buffer(w)[p] = wanted[p] /\ p \in Names
  BY <1>0, <1>1, AtPolicyLemma
<1>3. PICK l, u : /\ Step(w, l, u) /\ TaskFollows(w, l, u) /\ u.namespace = m
                  /\ w \in NsWorkers => l = "load" /\ u.i = t.i + 1
  BY <1>0, <1>1, NextFollows
<1>4. PICK created, updated :
         /\ created = [spec |-> Buffer(w)[p], source |-> t.src]
         /\ updated = [spec |-> Buffer(w)[p], source |-> None]
  OBVIOUS
<1>5. /\ created \in PolicyObjects /\ updated \in PolicyObjects
      /\ created.spec = wanted[p] /\ updated.spec = wanted[p]
      /\ created # None /\ updated # None
  <2>1. created \in PolicyObjects /\ updated \in PolicyObjects
    BY <1>2, <1>4, SteadyLemma DEF PolicyObjects, Tasks
  <2>. QED  BY <1>2, <1>4, <2>1, ObjectAssumption
<1>6. ASSUME NEW v, v = created \/ v = updated, PutPolicy(k, v)
      PROVE  Conforms(k)'
  <2>1. policy'[k] = v
    BY <1>2, <1>6 DEF PutPolicy, Inv, Typed, TypeOK, ClusterTypeOK
  <2>. QED  BY <1>2, <1>5, <1>6, <2>1 DEF Conforms
<1>7. \/ UNCHANGED <<policy, policyStream>>
      \/ \E v \in {created, updated} : PutPolicy(k, v)
  BY <1>0, <1>2, <1>4 DEF CreatePolicyOf, UpdatePolicyOf
<1>8. ASSUME AboutTo(w, k), Active(m) PROVE Conforms(k)'
  <2>1. CASE CreatePolicyOf(w)
    <3>1. CanCreate(k) /\ pc[w] = "create"
      BY <1>2, <1>8, <2>1 DEF CanCreate, AboutTo, CreatePolicyOf
    <3>2. PutPolicy(k, created)
      BY <1>0, <1>2, <1>4, <2>1, <3>1 DEF CreatePolicyOf, Fault, Reliable
    <3>. QED  BY <1>6, <3>2
  <2>2. CASE UpdatePolicyOf(w)
    <3>1. policy[k] # None /\ pc[w] = "update"
      BY <1>8, <2>2 DEF AboutTo, UpdatePolicyOf
    <3>2. PutPolicy(k, updated)
      BY <1>0, <1>2, <1>4, <2>2, <3>1 DEF UpdatePolicyOf, Fault, Reliable
    <3>. QED  BY <1>6, <3>2
  <2>. QED  BY <2>1, <2>2
<1>9. ASSUME NEW n \in Relevant, NEW q \in Want(n) PROVE HandsOver(w, n, q)
  <2>1. pc'[w] = l /\ task'[w] = u
    BY <1>3, StepFollows DEF InStep
  <2>2. ASSUME Ahead(w, n, q) PROVE Tended(Home[w], n, q)'
    <3>1. w \in NsWorkers /\ n = m
      BY <1>0, <2>2 DEF Ahead
    <3>2. PICK j \in DOMAIN chosen[n] : t.i < j /\ chosen[n][j] = q
      BY <1>1, <2>2 DEF Ahead, Looping
    <3>3. t.i + 1 <= j
      BY <1>2, <3>1, <3>2, SteadyLemma, SettingLemma
    <3>4. Ahead(w, n, q)'
      BY <1>3, <2>1, <3>1, <3>2, <3>3 DEF Ahead, Looping
    <3>. QED  BY <3>4 DEF Tended, Coming
  <2>3. ~OnItsWay(w, <<n, q>>)
    BY <1>1 DEF OnItsWay, Looping
  <2>4. ASSUME AboutTo(w, <<n, q>>) PROVE Fine(Home[w], <<n, q>>)'
    <3>1. <<n, q>> = k
      BY <1>0, <2>4 DEF AboutTo
    <3>2. n = m
      BY <1>2, <3>1
    <3>3. Active(m)
      BY <3>2 DEF Relevant
    <3>. QED  BY <1>8, <2>4, <3>1, <3>3 DEF Fine
  <2>. QED  BY <2>2, <2>3, <2>4 DEF HandsOver
<1>10. \/ UNCHANGED <<policy, policyStream>>
       \/ \E j \in PolicyKeys, v \in PolicyObjects \cup {None} :
             /\ PutPolicy(j, v)
             /\ j[2] \in Want(j[1]) /\ policy[j] = None /\ v # None => v.spec = wanted[j[2]]
  <2>1. ASSUME NEW v \in {created, updated}, PutPolicy(k, v)
        PROVE  \E j \in PolicyKeys, x \in PolicyObjects \cup {None} :
                 /\ PutPolicy(j, x)
                 /\ j[2] \in Want(j[1]) /\ policy[j] = None /\ x # None => x.spec = wanted[j[2]]
    <3>1. v \in PolicyObjects \cup {None} /\ v.spec = wanted[k[2]]
      BY <1>2, <1>5
    <3>. QED  BY <1>2, <2>1, <3>1
  <2>. QED  BY <1>7, <2>1
<1>. QED  BY <1>1, <1>3, <1>9, <1>10, WritingFollows

(* The loop that deletes visits and removes nothing that is wanted.        *)
LEMMA SweepFollows ==
    ASSUME Inv, Steady, InStep, NothingLost, NEW w \in Workers,
           RangeBuffer(w) \/ FindPolicy(w) \/ RemovePolicy(w) \/ EndSweep(w)
    PROVE  InStep' /\ NothingLost'
<1> DEFINE t == task[w]
<1>1. /\ pc[w] \in Sweeping /\ \A n, p : HandsOver(w, n, p)
      /\ t \in Tasks /\ TaskFollows(w, pc[w], t) /\ t.value = chosen[t.namespace]
  <2>1. pc[w] \in Sweeping
    BY DEF RangeBuffer, FindPolicy, RemovePolicy, EndSweep, Sweeping
  <2>. QED  BY <2>1, NothingToHandOver, BusyLemma DEF Sweeping, TaskFollows
<1>2. ASSUME NEW u, u.value = t.value, u.namespace = t.namespace,
             u.remaining \cap Want(t.namespace) = {}
      PROVE  TaskFollows(w, "sweep", u)
  BY <1>1, <1>2 DEF TaskFollows, Looping, AtPolicy, Sweeping
<1>3. TaskFollows(w, "succeeded", NoTask) /\ TaskFollows(w, "failed", NoTask)
  BY DEF TaskFollows, Looping, AtPolicy, Sweeping
<1>4. CASE RangeBuffer(w)
  <2> DEFINE u == [t EXCEPT !.name = None, !.remaining = Loaded(w) \ Expected(w)]
  <2>1. Step(w, "sweep", u) /\ UNCHANGED <<Shared, defaultNetworkPolicies>>
    BY <1>4 DEF RangeBuffer
  <2>2. u.value = t.value /\ u.namespace = t.namespace /\ u.remaining = Loaded(w) \ Expected(w)
    BY <1>1 DEF Tasks
  <2> HIDE DEF u
  <2>3. TaskFollows(w, "sweep", u)
    BY <1>1, <1>2, <2>2 DEF Expected, Want
  <2>. QED  BY <1>1, <2>1, <2>3, LocalFollows
<1>5. CASE FindPolicy(w)
  <2>1. PICK p \in t.remaining :
           \/ Step(w, "remove", [[t EXCEPT !.remaining = @ \ {p}] EXCEPT !.name = p])
           \/ Step(w, "sweep", [t EXCEPT !.remaining = @ \ {p}])
    BY <1>5 DEF FindPolicy
  <2> DEFINE u == [t EXCEPT !.remaining = @ \ {p}]
             x == [u EXCEPT !.name = p]
  <2>2. /\ u \in Tasks /\ u.value = t.value /\ u.namespace = t.namespace
        /\ u.remaining = t.remaining \ {p}
    BY <1>1 DEF Tasks
  <2>3. pc[w] = "sweep" /\ UNCHANGED <<Shared, defaultNetworkPolicies>>
    BY <1>5 DEF FindPolicy
  <2>4. Step(w, "remove", x) \/ Step(w, "sweep", u)
    BY <2>1
  <2>5. t.remaining \cap Want(t.namespace) = {}
    BY <1>1, <2>3 DEF TaskFollows
  <2> HIDE DEF u
  <2>6. /\ x.value = t.value /\ x.namespace = t.namespace
        /\ x.remaining = t.remaining \ {p} /\ x.name = p
    BY <2>2 DEF Tasks
  <2> HIDE DEF x
  <2>7. TaskFollows(w, "sweep", u)
    BY <1>2, <2>2, <2>5
  <2>8. TaskFollows(w, "remove", x)
    BY <1>1, <2>5, <2>6 DEF TaskFollows, Looping, AtPolicy, Sweeping
  <2>. QED  BY <1>1, <2>3, <2>4, <2>7, <2>8, LocalFollows
<1>6. CASE RemovePolicy(w)
  <2> DEFINE u == [t EXCEPT !.name = None]
  <2>1. /\ pc[w] = "remove" /\ (Step(w, "sweep", u) \/ Step(w, "failed", NoTask))
        /\ UNCHANGED <<policy, policyStream>> \/ PutPolicy(Key(w), None)
        /\ UNCHANGED <<namespace, template, config, namespaceStream, listers, up,
                       changes, settings, defaultNetworkPolicies, queues>>
    BY <1>6 DEF RemovePolicy
  <2>2. u.value = t.value /\ u.namespace = t.namespace /\ u.remaining = t.remaining
    BY <1>1 DEF Tasks
  <2> HIDE DEF u
  <2>3. TaskFollows(w, "sweep", u)
    BY <1>1, <1>2, <2>1, <2>2 DEF TaskFollows
  <2>4. Key(w) \in PolicyKeys
    BY <2>1, WrittenLemma
  <2>5. \/ UNCHANGED <<policy, policyStream>>
        \/ \E j \in PolicyKeys, v \in PolicyObjects \cup {None} :
              /\ PutPolicy(j, v)
              /\ j[2] \in Want(j[1]) /\ policy[j] = None /\ v # None => v.spec = wanted[j[2]]
    BY <2>1, <2>4
  <2>. QED  BY <1>1, <1>3, <2>1, <2>3, <2>5, WritingFollows
<1>7. CASE EndSweep(w)
  <2>1. Step(w, "succeeded", NoTask) /\ UNCHANGED <<Shared, defaultNetworkPolicies>>
    BY <1>7 DEF EndSweep
  <2>. QED  BY <1>1, <1>3, <2>1, LocalFollows
<1>. QED  BY <1>4, <1>5, <1>6, <1>7

----------------------------------------------------------------------------
(* All together.                                                           *)

(* Initially nothing runs.                                                 *)
LEMMA FollowInit == Init /\ Steady => InStep /\ NothingLost
<1> SUFFICES ASSUME Init, Steady PROVE InStep /\ NothingLost
  OBVIOUS
<1> USE DEF Init, ClusterInit
<1>1. Inv
  BY InvInit
<1>2. Memories
  BY <1>1, SteadyLemma DEF Steady, Memories, MemoryFollows
<1>3. NamespaceCaches /\ PolicyCaches
  BY DEF NamespaceCaches, NamespaceFollows, PolicyCaches, PolicyFollows
<1>4. Handlers
  BY DEF Handlers, TaskFollows, Looping, AtPolicy, Sweeping
<1>5. NothingLost
  BY DEF NothingLost
<1>. QED  BY <1>2, <1>3, <1>4, <1>5 DEF InStep

(* Every step.                                                             *)
LEMMA FollowNext ==
    ASSUME Inv, Inv', Steady, Steady', Reliable, InStep, NothingLost,
           [Next]_vars, [NoRivals]_vars
    PROVE  InStep' /\ NothingLost'
<1>1. CASE UNCHANGED vars
  <2>1. UNCHANGED <<objects, streams, listers, up, settings, defaultNetworkPolicies, queues,
                    pc, task>>
    BY <1>1 DEF vars
  <2>2. InStep'
    BY <2>1, InStepFrame DEF InStep, Handlers, TaskFollows
  <2>3. ASSUME NEW q \in up, NEW n \in Relevant, NEW p \in Want(n)
        PROVE  QueuesLead(q, n, p)
    <3>1. q \in Replicas /\ n \in Namespaces
      BY DEF Relevant, Inv, Typed, TypeOK, ClusterTypeOK
    <3>. QED  BY <2>1, <3>1, TendedUnderWay DEF objects, streams, queues, Tells
  <2>. QED  BY <2>1, <2>2, <2>3, InformerTended DEF objects
<1>2. CASE Others /\ NoRivals
  BY <1>2, OthersFollow
<1>3. CASE \E r \in Replicas : \/ Start(r) \/ Crash(r) \/ MapRace(r)
                               \/ UpdateEnforcement(r) \/ UpdateNames(r) \/ Informers(r)
  BY <1>3, StartFollows, ExitFollows, NoUpdate, DeliverNamespaceFollows, DeliverPolicyFollows,
     FireFollows DEF Crash, MapRace, Informers
<1>4. CASE \E w \in Workers : GetItem(w) \/ HandlerStep(w)
  BY <1>4, GetFollows, LookupFollows, ReadNamespaceFollows, SettingFollows, LoadFollows,
     FetchFollows, StoreFollows, CompareFollows, WriteFollows, SweepFollows, ReturnFollows
     DEF HandlerStep
<1>. QED  BY <1>1, <1>2, <1>3, <1>4 DEF Next

(* The invariant.                                                          *)
LEMMA FollowAlways ==
    ASSUME Reliable
    PROVE  Spec /\ []Steady /\ [][NoRivals]_vars => [](InStep /\ NothingLost)
BY FollowInit, FollowNext, InvAlways, PTL DEF Spec

(* A replica that is quiet has no worker under way.                        *)
LEMMA QuietIdle ==
    ASSUME Inv, NEW w \in Workers, Quiet(Home[w])
    PROVE  pc[w] = "idle"
<1>1. /\ Home[w] \in Replicas /\ (w \in NsWorkers \/ w \in NpWorkers)
      /\ namespaceWorkqueue \in [Replicas -> Queues(Namespaces, NsWorkers)]
      /\ networkPolicyworkqueue \in [Replicas -> Queues(PolicyKeys, NpWorkers)]
  BY WorkerAssumption DEF Workers, Inv, Typed, TypeOK, QueuesTypeOK
<1>2. ASSUME NEW Keys, NEW Ws, NEW q \in Queues(Keys, Ws), Drained(q), NEW v \in Ws
      PROVE  q.holding[v] = None
  BY <1>2 DEF Drained, Processing, Queues
<1>3. Held(w) = None
  BY <1>1, <1>2 DEF Held, Quiet
<1>. QED  BY <1>3 DEF Inv, HoldersOK

(***************************************************************************)
(* No wakeup is lost: as long as nobody changes what the namespaces are to *)
(* have, whenever karydia has nothing left to do every namespace has its   *)
(* policies as they are to be, whatever was modified, deleted or created   *)
(* besides, whichever workers raced and however often a process crashed    *)
(* (docs/devel/architecture.md:14, "If there are discrepancies, Karydia    *)
(* will level out it").                                                    *)
(***************************************************************************)
THEOREM Repaired ==
    ASSUME Reliable
    PROVE  Spec /\ []Steady /\ [][NoRivals]_vars
              => [](Quiescent => \A n \in Relevant : Conforming(n))
<1>1. Inv /\ Steady /\ InStep /\ NothingLost
         => (Quiescent => \A n \in Relevant : Conforming(n))
  <2> SUFFICES ASSUME Inv, Steady, InStep, NothingLost, Quiescent,
                      NEW n \in Relevant, NEW p \in Desired(n), NEW r \in Replicas
               PROVE  /\ policy[<<n, p>>] # None
                      /\ policy[<<n, p>>].spec = defaultNetworkPolicies[r][p]
    BY DEF Conforming
  <2>1. n \in Namespaces /\ p \in Want(n) /\ r \in up /\ Quiet(r)
    BY SteadyLemma DEF Desired, Relevant, Active, Want, Quiescent, Quiet
  <2>2. <<n, p>> \in PolicyKeys
    BY <2>1, SteadyLemma DEF PolicyKeys
  <2>3. \A w \in Workers : Home[w] = r => pc[w] = "idle"
    BY <2>1, QuietIdle
  <2>4. ~Coming(r, n, p) /\ ~Repairing(r, <<n, p>>)
    BY <2>1, <2>2, <2>3
       DEF Coming, Repairing, Ahead, OnItsWay, AboutTo, Looping, Quiet, Drained
  <2>5. defaultNetworkPolicies[r][p] # None /\ Conforms(<<n, p>>)
    BY <2>1, <2>4 DEF NothingLost, Tended, Fine
  <2>6. defaultNetworkPolicies[r][p] = wanted[p]
    BY <2>1, <2>5 DEF InStep, Memories, MemoryFollows
  <2>. QED  BY <2>5, <2>6 DEF Conforms
<1>. QED  BY <1>1, FollowAlways, InvAlways, PTL

----------------------------------------------------------------------------
(***************************************************************************)
(* What the handlers write, and what follows if nobody else creates        *)
(* policies at all.                                                        *)
(***************************************************************************)

\* The policies that are there are those that the settings name.
OnlyWanted == \A n \in Namespaces, p \in Names : policy[<<n, p>>] # None => p \in Want(n)

\* Policy k becomes v: a wanted one as it is wanted, or one that is not goes.
Rightly(k, v) ==
    IF k[2] \in Want(k[1]) THEN v # None /\ v.spec = wanted[k[2]] ELSE v = None

(* A handler writes what is wanted where it is wanted, and deletes only    *)
(* what is not.                                                            *)
LEMMA HandlersWriteRightly ==
    ASSUME Inv, Steady, InStep, NEW w \in Workers, HandlerStep(w)
    PROVE  \/ UNCHANGED policy
           \/ \E k \in PolicyKeys, v \in PolicyObjects \cup {None} :
                 policy' = [policy EXCEPT ![k] = v] /\ Rightly(k, v)
<1>0. PICK k : k = Key(w)
  OBVIOUS
<1>1. CASE CreatePolicyOf(w) \/ UpdatePolicyOf(w)
  <2>1. pc[w] \in AtPolicy /\ pc[w] \in {"create", "update", "remove"}
    BY <1>1 DEF CreatePolicyOf, UpdatePolicyOf, AtPolicy
  <2>2. /\ k \in PolicyKeys /\ k[2] \in Want(k[1]) /\ Buffer(w)[k[2]] = wanted[k[2]]
    BY <1>0, <2>1, AtPolicyLemma
  <2>3. PICK created, updated :
           /\ created = [spec |-> Buffer(w)[k[2]], source |-> task[w].src]
           /\ updated = [spec |-> Buffer(w)[k[2]], source |-> None]
    OBVIOUS
  <2>4. /\ Rightly(k, created) /\ Rightly(k, updated)
        /\ created \in PolicyObjects /\ updated \in PolicyObjects
    <3>1. created \in PolicyObjects /\ updated \in PolicyObjects
      BY <1>0, <2>1, <2>3, WrittenLemma
    <3>2. created.spec = wanted[k[2]] /\ updated.spec = wanted[k[2]]
      BY <2>2, <2>3
    <3>. QED  BY <2>2, <3>1, <3>2, ObjectAssumption DEF Rightly
  <2>5. UNCHANGED policy \/ PutPolicy(k, created) \/ PutPolicy(k, updated)
    BY <1>0, <1>1, <2>3 DEF CreatePolicyOf, UpdatePolicyOf
  <2>. QED  BY <2>2, <2>4, <2>5 DEF PutPolicy
<1>2. CASE RemovePolicy(w)
  <2>1. pc[w] = "remove" /\ (UNCHANGED policy \/ PutPolicy(k, None))
    BY <1>0, <1>2 DEF RemovePolicy
  <2>2. k \in PolicyKeys
    BY <1>0, <2>1, WrittenLemma
  <2>3. k[2] \notin Want(k[1])
    BY <1>0, <2>1, BusyLemma DEF TaskFollows, Key
  <2>. QED  BY <2>1, <2>2, <2>3 DEF Rightly, PutPolicy
<1>3. CASE ~(CreatePolicyOf(w) \/ UpdatePolicyOf(w) \/ RemovePolicy(w))
  BY <1>3 DEF HandlerStep, LookupNamespace, ReadNamespace, ReadNames, ReadEnforcement,
              LoadBuffer, FetchTemplate, StoreTemplate, ComparePolicy, RangeBuffer,
              FindPolicy, EndSweep, Return, Shared, objects
<1>. QED  BY <1>1, <1>2, <1>3

(* Other parties that create no policy.                                    *)
LEMMA OthersCreateNothing ==
    ASSUME Inv, OtherParties, "CreatePolicy" \notin Environment, NEW k \in PolicyKeys,
           policy[k] = None
    PROVE  policy'[k] = None
<1>1. policy \in [PolicyKeys -> PolicyObjects \cup {None}]
  BY DEF Inv, Typed, TypeOK, ClusterTypeOK
<1>2. ASSUME NEW j \in PolicyKeys, NEW s, ModifyPolicy(j, s) PROVE policy'[k] = None
  <2>1. j # k
    BY <1>2 DEF ModifyPolicy
  <2>. QED  BY <1>1, <1>2, <2>1 DEF ModifyPolicy, PutPolicy
<1>3. ASSUME NEW j \in PolicyKeys, DeletePolicy(j) \/ EmptyNamespace(j) PROVE policy'[k] = None
  BY <1>1, <1>3 DEF DeletePolicy, EmptyNamespace, PutPolicy
<1>4. ASSUME NEW j, NEW s PROVE ~CreatePolicy(j, s)
  BY DEF CreatePolicy, Change
<1>5. CASE UNCHANGED policy
  BY <1>5
<1>6. UNCHANGED policy \/ \E j \in PolicyKeys : \/ \E s \in Specs : ModifyPolicy(j, s)
                                                \/ DeletePolicy(j) \/ EmptyNamespace(j)
  BY <1>4 DEF OtherParties, CreateNamespace, AnnotateNamespace, TerminateNamespace,
     RemoveNamespace, BreakNamespaceWatch, BreakPolicyWatch, ChangeTemplate, ChangeConfig, objects
<1>. QED  BY <1>2, <1>3, <1>5, <1>6

(* Then nobody creates a policy but karydia, ...                           *)
LEMMA NobodyRivals ==
    ASSUME "CreatePolicy" \notin Environment
    PROVE  Spec /\ []Steady => [][NoRivals]_vars
<1>1. Inv /\ Steady /\ [Next]_vars => [NoRivals]_vars
  <2> SUFFICES ASSUME Inv, Steady, Others, NEW n \in Namespaces, NEW p \in Want(n),
                      policy[<<n, p>>] = None
               PROVE  policy'[<<n, p>>] = None
    BY DEF NoRivals
  <2>1. <<n, p>> \in PolicyKeys
    BY SteadyLemma DEF PolicyKeys
  <2>. QED  BY <2>1, OthersCreateNothing DEF Others
<1>. QED  BY <1>1, InvAlways, PTL DEF Spec

(* ... and only what is wanted.                                            *)
LEMMA OnlyWantedAlways ==
    ASSUME Reliable, "CreatePolicy" \notin Environment
    PROVE  Spec /\ []Steady => []OnlyWanted
<1>1. Init => OnlyWanted
  BY DEF Init, ClusterInit, OnlyWanted, PolicyKeys
<1>2. Inv /\ Steady /\ InStep /\ OnlyWanted /\ [Next]_vars => OnlyWanted'
  <2> SUFFICES ASSUME Inv, Steady, InStep, OnlyWanted, [Next]_vars,
                      NEW n \in Namespaces, NEW p \in Names, p \notin Want(n)
               PROVE  policy'[<<n, p>>] = None
    BY DEF OnlyWanted
  <2>1. PICK j : j = <<n, p>>
    OBVIOUS
  <2>2. /\ j \in PolicyKeys /\ policy[j] = None /\ j[1] = n /\ j[2] = p
        /\ policy \in [PolicyKeys -> PolicyObjects \cup {None}]
    BY <2>1 DEF OnlyWanted, PolicyKeys, Inv, Typed, TypeOK, ClusterTypeOK
  <2>3. CASE Others
    BY <2>1, <2>2, <2>3, OthersCreateNothing DEF Others
  <2>4. ASSUME NEW w \in Workers, HandlerStep(w) PROVE policy'[j] = None
    <3>1. CASE UNCHANGED policy
      BY <2>2, <3>1
    <3>2. CASE ~UNCHANGED policy
      <4>1. PICK k \in PolicyKeys, v \in PolicyObjects \cup {None} :
               policy' = [policy EXCEPT ![k] = v] /\ Rightly(k, v)
        BY <2>4, <3>2, HandlersWriteRightly
      <4>2. k = j => v = None
        BY <2>2, <4>1 DEF Rightly
      <4>. QED  BY <2>2, <4>1, <4>2
    <3>. QED  BY <3>1, <3>2
  <2>5. CASE ~Others /\ ~\E w \in Workers : HandlerStep(w)
    <3>1. UNCHANGED policy
      BY <2>5, WritersOfPolicies
    <3>. QED  BY <2>1, <2>2, <3>1
  <2>. QED  BY <2>1, <2>3, <2>4, <2>5
<1>. QED  BY <1>1, <1>2, NobodyRivals, FollowAlways, InvAlways, PTL DEF Spec

(***************************************************************************)
(* If nobody else creates policies, the namespaces are level whenever      *)
(* karydia has nothing left to do: they have their policies as they are to *)
(* be, and no other that karydia has loaded                                *)
(* (docs/devel/architecture.md:14).                                        *)
(***************************************************************************)
THEOREM Leveled ==
    ASSUME Reliable, "CreatePolicy" \notin Environment
    PROVE  Spec /\ []Steady => []LevelWhenQuiescent
<1>1. Steady /\ OnlyWanted => \A n \in Relevant : Cleared(n)
  <2> SUFFICES ASSUME Steady, OnlyWanted, NEW n \in Relevant, NEW p \in Names,
                      p \notin Listed(SettingOf(n))
               PROVE  policy[<<n, p>>] = None
    BY DEF Cleared
  <2>1. n \in Namespaces /\ SettingOf(n) = chosen[n]
    BY DEF Relevant, Active, Steady
  <2>. QED  BY <2>1 DEF OnlyWanted, Want
<1>2. Steady /\ OnlyWanted /\ (Quiescent => \A n \in Relevant : Conforming(n))
         => LevelWhenQuiescent
  BY <1>1 DEF LevelWhenQuiescent, Level
<1>. QED  BY <1>2, NobodyRivals, OnlyWantedAlways, Repaired, PTL

(***************************************************************************)
(* karydia never undoes what it has done: whatever its workers have read   *)
(* before, from caches that lag behind or a buffer that others fill, no    *)
(* step of theirs removes a policy that a setting names or changes one     *)
(* that is as it is to be (reconcileNetworkPolicies,                       *)
(* deleteMultipleDefaultNetworkPolicies).                                  *)
(***************************************************************************)
Undisturbed ==
    [][\A n \in Namespaces : \A p \in Want(n) :
          changes' = changes /\ Active(n) =>
             /\ policy[<<n, p>>] # None => policy'[<<n, p>>] # None
             /\ Conforms(<<n, p>>) => Conforms(<<n, p>>)']_vars

(* No step of karydia undoes what the settings ask for, other policies in  *)
(* the namespace or not.                                                   *)
THEOREM DefaultsStay ==
    ASSUME Reliable
    PROVE  Spec /\ []Steady /\ [][NoRivals]_vars => Undisturbed
<1> DEFINE Kept == \A n \in Namespaces : \A p \in Want(n) :
                      changes' = changes /\ Active(n) =>
                         /\ policy[<<n, p>>] # None => policy'[<<n, p>>] # None
                         /\ Conforms(<<n, p>>) => Conforms(<<n, p>>)'
<1>1. Inv /\ Steady /\ InStep /\ [Next]_vars => [Kept]_vars
  <2> SUFFICES ASSUME Inv, Steady, InStep, Next, NEW n \in Namespaces, NEW p \in Want(n),
                      changes' = changes, Active(n)
               PROVE  /\ policy[<<n, p>>] # None => policy'[<<n, p>>] # None
                      /\ Conforms(<<n, p>>) => Conforms(<<n, p>>)'
    OBVIOUS
  <2>1. PICK j : j = <<n, p>>
    OBVIOUS
  <2>2. /\ j \in PolicyKeys /\ j[1] = n /\ j[2] = p
        /\ policy \in [PolicyKeys -> PolicyObjects \cup {None}]
    BY <2>1, SteadyLemma DEF PolicyKeys, Inv, Typed, TypeOK, ClusterTypeOK
  <2> SUFFICES \/ policy'[j] = policy[j]
               \/ policy'[j] # None /\ policy'[j].spec = wanted[p]
    BY <2>1, <2>2 DEF Conforms
  <2>3. CASE Others
    BY <2>2, <2>3, OthersWrite DEF Others
  <2>4. ASSUME NEW w \in Workers, HandlerStep(w), ~UNCHANGED policy
        PROVE  \/ policy'[j] = policy[j]
               \/ policy'[j] # None /\ policy'[j].spec = wanted[p]
    <3>1. PICK k \in PolicyKeys, v \in PolicyObjects \cup {None} :
             policy' = [policy EXCEPT ![k] = v] /\ Rightly(k, v)
      BY <2>4, HandlersWriteRightly
    <3>2. k = j => v # None /\ v.spec = wanted[p]
      BY <2>2, <3>1 DEF Rightly
    <3>. QED  BY <2>2, <3>1, <3>2
  <2>5. CASE ~Others /\ ~\E w \in Workers : HandlerStep(w)
    <3>1. UNCHANGED policy
      BY <2>5, WritersOfPolicies
    <3>. QED  BY <3>1
  <2>. QED  BY <2>3, <2>4, <2>5
<1>. QED  BY <1>1, FollowAlways, InvAlways, PTL DEF Spec, Undisturbed

=============================================================================

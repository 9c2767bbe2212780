----------------------- MODULE NetworkPolicyReconciler -----------------------
(***************************************************************************)
(* The network policy reconciler of karydia                                *)
(* (pkg/controller/networkpolicy_reconciler.go): every namespace that is   *)
(* not excluded gets the default network policies its setting names, a     *)
(* default policy that somebody changes or deletes is put back, and        *)
(* policies that were loaded but that the setting does not name are        *)
(* removed.                                                                *)
(*                                                                         *)
(* A step of a worker is one call to the API server, or one access to the  *)
(* memory it shares with the other goroutines of its process.              *)
(***************************************************************************)
EXTENDS Cluster

INSTANCE WorkQueueOps

CONSTANTS
    Excluded,     \* --default-network-policy-excludes
    NsWorkers,    \* goroutines that run runNamespaceWorker
    NpWorkers,    \* goroutines that run runNetworkPolicyWorker
    Home,         \* the replica a worker belongs to
    Faulty,       \* the calls that may fail for no reason of their own
    MaxFaults     \* bound: how many of them do, plus detected map races

Workers == NsWorkers \cup NpWorkers

ASSUME WorkerAssumption ==
    /\ NsWorkers \cap NpWorkers = {}
    /\ Home \in [Workers -> Replicas]

ASSUME ExcludedAssumption == Excluded \subseteq Namespaces

ASSUME FaultAssumption == MaxFaults \in Nat

VARIABLES
    defaultEnforcement, defaultNetworkPolicyNames,   \* by replica
    updating,                 \* by replica: the config UpdateConfig is copying
    defaultNetworkPolicies,   \* by replica: the buffer; None, or the spec
    namespaceWorkqueue, networkPolicyworkqueue,      \* by replica
    pc, task,     \* by worker: where it is, and the variables of its handler
    faults        \* how many calls have failed

settings == <<defaultEnforcement, defaultNetworkPolicyNames, updating>>
queues == <<namespaceWorkqueue, networkPolicyworkqueue>>

vars == <<objects, streams, listers, up, changes, settings,
          defaultNetworkPolicies, queues, pc, task, faults>>

Labels == {"idle", "lookup", "names", "enforcement", "load", "fetch", "store",
           "compare", "create", "update", "range", "sweep", "remove",
           "succeeded", "failed"}

\* namespace, name: the policy the handler is at; annotation: of the namespace
\* it has read; value, src: the Setting; i: the position in value; spec: a
\* template it has fetched; remaining: what the deleting loop will still visit.
Tasks == [namespace : Namespaces \cup {None}, name : Names \cup {None},
          annotation : Settings \cup {None}, value : Settings \cup {None},
          src : Sources \cup {None}, i : Nat, spec : Specs \cup {None},
          remaining : SUBSET Names]

NoTask == [namespace |-> None, name |-> None, annotation |-> None,
           value |-> None, src |-> None, i |-> 0, spec |-> None,
           remaining |-> {}]

MemoryTypeOK ==
    /\ defaultEnforcement \in [Replicas -> BOOLEAN]
    /\ defaultNetworkPolicyNames \in [Replicas -> Settings]
    /\ updating \in [Replicas -> Configs \cup {None}]
    /\ defaultNetworkPolicies \in [Replicas -> [Names -> Specs \cup {None}]]

QueuesTypeOK ==
    /\ namespaceWorkqueue \in [Replicas -> Queues(Namespaces, NsWorkers)]
    /\ networkPolicyworkqueue \in [Replicas -> Queues(PolicyKeys, NpWorkers)]

WorkersTypeOK ==
    /\ pc \in [Workers -> Labels]
    /\ task \in [Workers -> Tasks]

TypeOK ==
    /\ ClusterTypeOK /\ MemoryTypeOK /\ QueuesTypeOK /\ WorkersTypeOK
    /\ faults \in 0..MaxFaults

Init ==
    /\ ClusterInit
    /\ defaultEnforcement = [r \in Replicas |-> config.enforcement]
    /\ defaultNetworkPolicyNames = [r \in Replicas |-> config.names]
    /\ updating = [r \in Replicas |-> None]
    /\ defaultNetworkPolicies = [r \in Replicas |-> [p \in Names |-> None]]
    /\ namespaceWorkqueue = [r \in Replicas |-> EmptyQueue(NsWorkers)]
    /\ networkPolicyworkqueue = [r \in Replicas |-> EmptyQueue(NpWorkers)]
    /\ pc = [w \in Workers |-> "idle"]
    /\ task = [w \in Workers |-> NoTask]
    /\ faults = 0

----------------------------------------------------------------------------
(* The process: its start (cli/cmd/runserver.go) and its end.              *)

Listed(s) == {s[i] : i \in DOMAIN s}    \* stringInSlice

\* The config and every policy it names are read from the API server, or the
\* process ends at once.  The informers list, and every namespace is added.
Start(r) ==
    /\ r \notin up
    /\ \A p \in Listed(config.names) : template[p] # None
    /\ up' = up \cup {r}
    /\ defaultEnforcement' = [defaultEnforcement EXCEPT ![r] = config.enforcement]
    /\ defaultNetworkPolicyNames' =
         [defaultNetworkPolicyNames EXCEPT ![r] = config.names]
    /\ defaultNetworkPolicies' = [defaultNetworkPolicies EXCEPT ![r] =
         [p \in Names |-> IF p \in Listed(config.names) THEN template[p] ELSE None]]
    /\ namespacesLister' = [namespacesLister EXCEPT ![r] = namespace]
    /\ networkPolicyLister' = [networkPolicyLister EXCEPT ![r] = policy]
    /\ namespaceWorkqueue' = [namespaceWorkqueue EXCEPT ![r] =
         Added(@, {n \in Namespaces : namespace[n] # None})]
    /\ UNCHANGED <<objects, streams, changes, updating, networkPolicyworkqueue,
                   pc, task, faults>>

\* The process ends, at any point: what is in memory is lost.
Exit(r) ==
    /\ r \in up
    /\ up' = up \ {r}
    /\ namespaceStream' = [namespaceStream EXCEPT ![r] = [n \in Namespaces |-> <<>>]]
    /\ policyStream' = [policyStream EXCEPT ![r] = [k \in PolicyKeys |-> <<>>]]
    /\ namespacesLister' = [namespacesLister EXCEPT ![r] = [n \in Namespaces |-> None]]
    /\ networkPolicyLister' =
         [networkPolicyLister EXCEPT ![r] = [k \in PolicyKeys |-> None]]
    /\ updating' = [updating EXCEPT ![r] = None]
    /\ defaultNetworkPolicies' =
         [defaultNetworkPolicies EXCEPT ![r] = [p \in Names |-> None]]
    /\ namespaceWorkqueue' = [namespaceWorkqueue EXCEPT ![r] = EmptyQueue(NsWorkers)]
    /\ networkPolicyworkqueue' =
         [networkPolicyworkqueue EXCEPT ![r] = EmptyQueue(NpWorkers)]
    /\ pc' = [w \in Workers |-> IF Home[w] = r THEN "idle" ELSE pc[w]]
    /\ task' = [w \in Workers |-> IF Home[w] = r THEN NoTask ELSE task[w]]
    /\ UNCHANGED <<objects, defaultEnforcement, defaultNetworkPolicyNames>>

Crash(r) == Exit(r) /\ Change("Crash") /\ UNCHANGED faults

\* The buffer is a Go map without a lock.  An access to it while another
\* worker writes it may be detected, which ends the process.
MapLabels == {"load", "compare", "create", "update", "store", "range", "sweep"}

MapRace(r) ==
    /\ \E v, w \in Workers :
          /\ v # w /\ Home[v] = r /\ Home[w] = r
          /\ pc[v] = "store" /\ pc[w] \in MapLabels
    /\ faults < MaxFaults
    /\ faults' = faults + 1
    /\ Exit(r)
    /\ UNCHANGED changes

----------------------------------------------------------------------------
(* UpdateConfig: two assignments that no lock holds together.              *)

UpdateEnforcement(r) ==
    /\ r \in up /\ updating[r] = None
    /\ \/ config.enforcement # defaultEnforcement[r]
       \/ config.names # defaultNetworkPolicyNames[r]
    /\ updating' = [updating EXCEPT ![r] = config]
    /\ defaultEnforcement' = [defaultEnforcement EXCEPT ![r] = config.enforcement]
    /\ UNCHANGED <<objects, streams, listers, up, changes,
                   defaultNetworkPolicyNames, defaultNetworkPolicies, queues,
                   pc, task, faults>>

UpdateNames(r) ==
    /\ updating[r] # None
    /\ defaultNetworkPolicyNames' =
         [defaultNetworkPolicyNames EXCEPT ![r] = updating[r].names]
    /\ updating' = [updating EXCEPT ![r] = None]
    /\ UNCHANGED <<objects, streams, listers, up, changes, defaultEnforcement,
                   defaultNetworkPolicies, queues, pc, task, faults>>

----------------------------------------------------------------------------
(* The informers: the cache follows the API server, then the handler runs. *)

\* Namespaces: AddFunc and UpdateFunc, no DeleteFunc.
NamespaceHandlerAdds(cached, e) == e.value # None

\* A variant of PolicyHandlerAdds without the UpdateFunc.
PolicyHandlerDeletes(cached, e) == cached # None /\ e.value = None /\ ~e.relisted

\* NetworkPolicies: UpdateFunc and DeleteFunc, no AddFunc; and for a deletion
\* that was relisted, enqueueNetworkPolicy finds no key.
PolicyHandlerAdds(cached, e) == cached # None /\ (e.value = None => ~e.relisted)

DeliverNamespace(r, n) ==
    /\ namespaceStream[r][n] # <<>>
    /\ LET e == Head(namespaceStream[r][n])
       IN /\ namespacesLister' = [namespacesLister EXCEPT ![r][n] = e.value]
          /\ \E adds \in Heard(NamespaceHandlerAdds(namespacesLister[r][n], e), e) :
                namespaceWorkqueue' = [namespaceWorkqueue EXCEPT
                    ![r] = Added(@, {k \in {n} : adds})]
    /\ namespaceStream' = [namespaceStream EXCEPT ![r][n] = Tail(@)]
    /\ UNCHANGED <<objects, policyStream, up, changes, settings,
                   defaultNetworkPolicies, networkPolicyworkqueue, networkPolicyLister,
                   pc, task, faults>>

DeliverPolicy(r, k) ==
    /\ policyStream[r][k] # <<>>
    /\ LET e == Head(policyStream[r][k])
       IN /\ networkPolicyLister' = [networkPolicyLister EXCEPT ![r][k] = e.value]
          /\ \E adds \in Heard(PolicyHandlerAdds(networkPolicyLister[r][k], e), e) :
                networkPolicyworkqueue' = [networkPolicyworkqueue EXCEPT
                    ![r] = Added(@, {j \in {k} : adds})]
    /\ policyStream' = [policyStream EXCEPT ![r][k] = Tail(@)]
    /\ UNCHANGED <<objects, namespaceStream, up, changes, settings,
                   defaultNetworkPolicies, namespaceWorkqueue, namespacesLister,
                   pc, task, faults>>

FireNamespace(r, n) ==
    /\ n \in namespaceWorkqueue[r].delayed
    /\ namespaceWorkqueue' = [namespaceWorkqueue EXCEPT ![r] = Fired(@, n)]
    /\ UNCHANGED <<objects, streams, listers, up, changes, settings,
                   defaultNetworkPolicies, networkPolicyworkqueue, pc, task, faults>>

FirePolicy(r, k) ==
    /\ k \in networkPolicyworkqueue[r].delayed
    /\ networkPolicyworkqueue' = [networkPolicyworkqueue EXCEPT ![r] = Fired(@, k)]
    /\ UNCHANGED <<objects, streams, listers, up, changes, settings,
                   defaultNetworkPolicies, namespaceWorkqueue, pc, task, faults>>

----------------------------------------------------------------------------
(* The workers.                                                            *)

\* Worker w goes to label l with the local variables t.
Step(w, l, t) ==
    /\ pc' = [pc EXCEPT ![w] = l]
    /\ task' = [task EXCEPT ![w] = t]

\* A step that reads and writes nothing but what its worker owns.
Shared == <<objects, streams, listers, up, changes, settings, queues>>

\* A call to the API server that fails although it could have succeeded.
Fault(call) ==
    /\ call \in Faulty
    /\ faults < MaxFaults
    /\ faults' = faults + 1

Buffer(w) == defaultNetworkPolicies[Home[w]]
AnyName(w) == Names
Loaded(w) == {p \in Names : Buffer(w)[p] # None}
Key(w) == <<task[w].namespace, task[w].name>>
Expected(w) == Listed(task[w].value)

\* processNextNamespaceWorkItem, processNextNetworkPolicyWorkItem: Get.
GetNamespaceItem(w, n) ==
    /\ w \in NsWorkers /\ Home[w] \in up /\ pc[w] = "idle"
    /\ CanGet(namespaceWorkqueue[Home[w]], w, n)
    /\ namespaceWorkqueue' = [namespaceWorkqueue EXCEPT ![Home[w]] = Got(@, w, n)]
    /\ Step(w, "lookup", [NoTask EXCEPT !.namespace = n])
    /\ UNCHANGED <<objects, streams, listers, up, changes, settings,
                   defaultNetworkPolicies, networkPolicyworkqueue, faults>>

GetPolicyItem(w, k) ==
    /\ w \in NpWorkers /\ Home[w] \in up /\ pc[w] = "idle"
    /\ CanGet(networkPolicyworkqueue[Home[w]], w, k)
    /\ networkPolicyworkqueue' = [networkPolicyworkqueue EXCEPT ![Home[w]] = Got(@, w, k)]
    /\ Step(w, "lookup", [NoTask EXCEPT !.namespace = k[1], !.name = k[2]])
    /\ UNCHANGED <<objects, streams, listers, up, changes, settings,
                   defaultNetworkPolicies, namespaceWorkqueue, faults>>

NotExcluded(n) == FALSE
IsExcluded(n) == n \in Excluded

\* syncNamespaceHandler reads the namespace from the lister ...
LookupNamespace(w) ==
    /\ w \in NsWorkers /\ pc[w] = "lookup"
    /\ LET n == task[w].namespace
           found == namespacesLister[Home[w]][n]
       IN IF found = None \/ IsExcluded(n)
          THEN Step(w, "succeeded", NoTask)
          ELSE Step(w, "names", [task[w] EXCEPT !.annotation = found.annotation])
    /\ UNCHANGED <<Shared, defaultNetworkPolicies, faults>>

\* ... and syncNetworkPolicyHandler from the API server, where any error ends
\* it without a retry.  It does not look at the excluded namespaces.
ReadNamespace(w) ==
    /\ w \in NpWorkers /\ pc[w] = "lookup"
    /\ \/ /\ namespace[task[w].namespace] # None
          /\ Step(w, "names", [task[w] EXCEPT
                !.annotation = namespace[task[w].namespace].annotation])
          /\ UNCHANGED faults
       \/ /\ namespace[task[w].namespace] = None
          /\ Step(w, "succeeded", NoTask)
          /\ UNCHANGED faults
       \/ Fault("GetNamespace") /\ Step(w, "succeeded", NoTask)
    /\ UNCHANGED <<Shared, defaultNetworkPolicies>>

\* getDefaultNetworkpolicySetting reads the two variables of UpdateConfig.
ReadNames(w) ==
    /\ pc[w] = "names"
    /\ Step(w, "enforcement", [task[w] EXCEPT
          !.value = defaultNetworkPolicyNames[Home[w]], !.src = "config"])
    /\ UNCHANGED <<Shared, defaultNetworkPolicies, faults>>

ReadEnforcement(w) ==
    /\ pc[w] = "enforcement"
    /\ IF task[w].annotation # None /\ ~defaultEnforcement[Home[w]]
       THEN Step(w, "load", [task[w] EXCEPT !.i = 1, !.annotation = None,
                  !.value = task[w].annotation, !.src = "namespace"])
       ELSE Step(w, "load", [task[w] EXCEPT !.i = 1, !.annotation = None])
    /\ UNCHANGED <<Shared, defaultNetworkPolicies, faults>>

\* The loop over the names of the setting.  A namespace worker conforms each
\* policy before it loads the next; a policy worker loads them all and then
\* conforms the policy of its key, if the setting names that.
LoadBuffer(w) ==
    /\ pc[w] = "load"
    /\ LET t == task[w]
       IN IF t.i > Len(t.value)
          THEN Step(w, IF w \in NpWorkers /\ t.name \in Expected(w)
                       THEN "compare" ELSE "range", t)
          ELSE IF Buffer(w)[t.value[t.i]] = None
          THEN Step(w, "fetch", t)
          ELSE IF w \in NsWorkers
          THEN Step(w, "compare", [t EXCEPT !.name = t.value[t.i]])
          ELSE Step(w, "load", [t EXCEPT !.i = @ + 1])
    /\ UNCHANGED <<Shared, defaultNetworkPolicies, faults>>

\* A template that cannot be read is skipped by a namespace worker; a policy
\* worker gives up conforming the policy of its key.
SkipTemplate(w) == Step(w, "load", [task[w] EXCEPT !.i = @ + 1])
TemplateMissing(w) == IF w \in NsWorkers THEN SkipTemplate(w)
                                         ELSE Step(w, "range", task[w])

\* updateBuffer.
FetchTemplate(w) ==
    /\ pc[w] = "fetch"
    /\ LET t == task[w]
           found == template[t.value[t.i]]
       IN \/ /\ found # None
             /\ Step(w, "store", [t EXCEPT !.spec = found])
             /\ UNCHANGED faults
          \/ found = None /\ TemplateMissing(w) /\ UNCHANGED faults
          \/ Fault("GetTemplate") /\ TemplateMissing(w)
    /\ UNCHANGED <<Shared, defaultNetworkPolicies>>

\* A worker that ranges over the map meanwhile may or may not see the entry.
StoreTemplate(w) ==
    /\ pc[w] = "store"
    /\ LET p == task[w].value[task[w].i]
           ranging == {v \in Workers : /\ Home[v] = Home[w]
                                       /\ pc[v] \in {"sweep", "remove"}
                                       /\ p \notin Expected(v)}
       IN /\ defaultNetworkPolicies' =
               [defaultNetworkPolicies EXCEPT ![Home[w]][p] = task[w].spec]
          /\ pc' = [pc EXCEPT ![w] = "load"]
          /\ \E seeing \in SUBSET ranging :
                task' = [v \in Workers |->
                    IF v = w THEN [task[v] EXCEPT !.spec = None]
                    ELSE IF v \in seeing
                    THEN [task[v] EXCEPT !.remaining = @ \cup {p}]
                    ELSE task[v]]
    /\ UNCHANGED <<Shared, faults>>

\* Where the handler goes once it is done with one policy.
NextPolicy(w) ==
    IF w \in NsWorkers
    THEN Step(w, "load", [task[w] EXCEPT !.i = @ + 1, !.name = None])
    ELSE Step(w, "range", task[w])

\* The policy in the cache is missing, differs from the buffer, or conforms.
ComparePolicy(w) ==
    /\ pc[w] = "compare"
    /\ LET found == networkPolicyLister[Home[w]][Key(w)]
       IN IF found = None THEN Step(w, "create", task[w])
          ELSE IF found.spec # Buffer(w)[task[w].name] THEN Step(w, "update", task[w])
          ELSE NextPolicy(w)
    /\ UNCHANGED <<Shared, defaultNetworkPolicies, faults>>

\* createDefaultNetworkPolicy and updateDefaultNetworkPolicy send a copy of
\* the buffer; only the first sets the annotation.  Both handlers log an error
\* of either and go on.  A failed call may have taken effect all the same.
CanCreate(k) == Active(k[1]) /\ policy[k] = None

CreatePolicyOf(w) ==
    /\ pc[w] = "create"
    /\ LET k == Key(w)
           Create == PutPolicy(k, [spec |-> Buffer(w)[k[2]], source |-> task[w].src])
       IN \/ CanCreate(k) /\ Create /\ UNCHANGED faults
          \/ ~CanCreate(k) /\ UNCHANGED <<policy, policyStream, faults>>
          \/ Fault("Create") /\ CanCreate(k) /\ Create
          \/ Fault("Create") /\ UNCHANGED <<policy, policyStream>>
    /\ NextPolicy(w)
    /\ UNCHANGED <<namespace, template, config, namespaceStream, listers, up,
                   changes, settings, defaultNetworkPolicies, queues>>

UpdatePolicyOf(w) ==
    /\ pc[w] = "update"
    /\ LET k == Key(w)
           Update == PutPolicy(k, [spec |-> Buffer(w)[k[2]], source |-> None])
       IN \/ policy[k] # None /\ Update /\ UNCHANGED faults
          \/ policy[k] = None /\ UNCHANGED <<policy, policyStream, faults>>
          \/ Fault("Update") /\ policy[k] # None /\ Update
          \/ Fault("Update") /\ UNCHANGED <<policy, policyStream>>
    /\ NextPolicy(w)
    /\ UNCHANGED <<namespace, template, config, namespaceStream, listers, up,
                   changes, settings, defaultNetworkPolicies, queues>>

\* deleteMultipleDefaultNetworkPolicies ranges over the buffer, in any order.
RangeBuffer(w) ==
    /\ pc[w] = "range"
    /\ Step(w, "sweep", [task[w] EXCEPT !.name = None,
                                        !.remaining = Loaded(w) \ Expected(w)])
    /\ UNCHANGED <<Shared, defaultNetworkPolicies, faults>>

\* A policy is deleted if a Get finds it; a Get that fails finds nothing.
FindPolicy(w) ==
    /\ pc[w] = "sweep"
    /\ \E p \in task[w].remaining :
          LET t == [task[w] EXCEPT !.remaining = @ \ {p}]
              found == policy[<<task[w].namespace, p>>] # None
          IN \/ found /\ Step(w, "remove", [t EXCEPT !.name = p]) /\ UNCHANGED faults
             \/ ~found /\ Step(w, "sweep", t) /\ UNCHANGED faults
             \/ Fault("GetPolicy") /\ Step(w, "sweep", t)
    /\ UNCHANGED <<Shared, defaultNetworkPolicies>>

\* A Delete that fails, also because the policy is gone, ends the handler.
RemovePolicy(w) ==
    /\ pc[w] = "remove"
    /\ LET k == Key(w)
           Go(l) == Step(w, l, IF l = "failed" THEN NoTask
                               ELSE [task[w] EXCEPT !.name = None])
       IN \/ policy[k] # None /\ PutPolicy(k, None) /\ Go("sweep") /\ UNCHANGED faults
          \/ /\ policy[k] = None
             /\ UNCHANGED <<policy, policyStream, faults>> /\ Go("failed")
          \/ Fault("Delete") /\ PutPolicy(k, None) /\ Go("failed")
          \/ Fault("Delete") /\ UNCHANGED <<policy, policyStream>> /\ Go("failed")
    /\ UNCHANGED <<namespace, template, config, namespaceStream, listers, up,
                   changes, settings, defaultNetworkPolicies, queues>>

EndSweep(w) ==
    /\ pc[w] = "sweep"
    /\ task[w].remaining = {}
    /\ Step(w, "succeeded", NoTask)
    /\ UNCHANGED <<Shared, defaultNetworkPolicies, faults>>

\* The deferred Done, after AddRateLimited if the handler returned an error and
\* after Forget if it did not.
Return(w) ==
    /\ pc[w] \in {"succeeded", "failed"}
    /\ LET r == Home[w]
           After(q) == Returned(q, w, pc[w] = "failed")
       IN IF w \in NsWorkers
          THEN /\ namespaceWorkqueue' = [namespaceWorkqueue EXCEPT ![r] = After(@)]
               /\ UNCHANGED networkPolicyworkqueue
          ELSE /\ networkPolicyworkqueue' =
                    [networkPolicyworkqueue EXCEPT ![r] = After(@)]
               /\ UNCHANGED namespaceWorkqueue
    /\ Step(w, "idle", NoTask)
    /\ UNCHANGED <<objects, streams, listers, up, changes, settings,
                   defaultNetworkPolicies, faults>>

----------------------------------------------------------------------------
\* What a handler that runs does next.
HandlerStep(w) ==
    \/ LookupNamespace(w) \/ ReadNamespace(w)
    \/ ReadNames(w) \/ ReadEnforcement(w)
    \/ LoadBuffer(w) \/ FetchTemplate(w) \/ StoreTemplate(w)
    \/ ComparePolicy(w) \/ CreatePolicyOf(w) \/ UpdatePolicyOf(w)
    \/ RangeBuffer(w) \/ FindPolicy(w) \/ RemovePolicy(w) \/ EndSweep(w)
    \/ Return(w)

GetItem(w) ==
    \/ \E n \in Namespaces : GetNamespaceItem(w, n)
    \/ \E k \in PolicyKeys : GetPolicyItem(w, k)

Informers(r) ==
    \/ \E n \in Namespaces : DeliverNamespace(r, n) \/ FireNamespace(r, n)
    \/ \E k \in PolicyKeys : DeliverPolicy(r, k) \/ FirePolicy(r, k)

Others ==
    /\ OtherParties
    /\ UNCHANGED <<settings, defaultNetworkPolicies, queues, pc, task, faults>>

Next ==
    \/ Others
    \/ \E r \in Replicas :
          \/ Start(r) \/ Crash(r) \/ MapRace(r)
          \/ UpdateEnforcement(r) \/ UpdateNames(r)
          \/ Informers(r)
    \/ \E w \in Workers : GetItem(w) \/ HandlerStep(w)

Spec == Init /\ [][Next]_vars

\* A goroutine that can run does, informers deliver, delays end, and a
\* process that has ended is started again.  An item that waits is handed out
\* in its turn (WorkQueue), which is strong fairness for each item.  Other
\* parties owe nothing, but Kubernetes removes a namespace it terminates.
Fairness ==
    /\ \A r \in Replicas :
          /\ WF_vars(Start(r)) /\ WF_vars(UpdateEnforcement(r)) /\ WF_vars(UpdateNames(r))
          /\ \A n \in Namespaces :
                /\ WF_vars(DeliverNamespace(r, n)) /\ WF_vars(FireNamespace(r, n))
                /\ SF_vars(\E w \in NsWorkers : Home[w] = r /\ GetNamespaceItem(w, n))
          /\ \A k \in PolicyKeys :
                /\ WF_vars(DeliverPolicy(r, k)) /\ WF_vars(FirePolicy(r, k))
                /\ SF_vars(\E w \in NpWorkers : Home[w] = r /\ GetPolicyItem(w, k))
    /\ \A w \in Workers : WF_vars(HandlerStep(w))

FairSpec == Spec /\ Fairness

----------------------------------------------------------------------------
(* Correctness.                                                            *)

(***************************************************************************)
(* The nil dereferences of reconcileIsNeeded, updateDefaultNetworkPolicy,  *)
(* createDefaultNetworkPolicy and of the check in syncNetworkPolicy cannot *)
(* happen: whatever the other workers do to the buffer and whatever is     *)
(* missing at the API server, the buffer holds the policy a worker takes   *)
(* from it.                                                                *)
(***************************************************************************)
NoNilDereference ==
    \A w \in Workers :
        /\ pc[w] \in {"compare", "create", "update"} => task[w].name \in Loaded(w)
        /\ w \in NpWorkers /\ pc[w] = "load" /\ task[w].i > Len(task[w].value)
           /\ task[w].name \in Expected(w) => task[w].name \in Loaded(w)

(***************************************************************************)
(* No two workers of a replica run the handler of the same item            *)
(* (config_reconciler.go:46-49), so that two of them work in one namespace *)
(* only if one of them is a policy worker.                                 *)
(***************************************************************************)
OneWorkerPerItem ==
    \A v, w \in Workers :
        v # w /\ Home[v] = Home[w] /\ pc[v] # "idle" /\ pc[w] # "idle" =>
            /\ {v, w} \subseteq NsWorkers => task[v].namespace # task[w].namespace
                                         \/ None \in {task[v].namespace, task[w].namespace}
            /\ {v, w} \subseteq NpWorkers =>
                 networkPolicyworkqueue[Home[v]].holding[v]
                    # networkPolicyworkqueue[Home[w]].holding[w]

\* The setting a namespace has now, and the policies it names.
SettingOf(n) ==
    IF namespace[n].annotation # None /\ ~config.enforcement
    THEN namespace[n].annotation ELSE config.names

Desired(n) == {p \in Listed(SettingOf(n)) : template[p] # None}

\* Replica r has nothing left to do or to hear of.
Quiet(r) ==
    /\ r \in up /\ updating[r] = None
    /\ \A n \in Namespaces : namespaceStream[r][n] = <<>>
    /\ \A k \in PolicyKeys : policyStream[r][k] = <<>>
    /\ Drained(namespaceWorkqueue[r]) /\ Drained(networkPolicyworkqueue[r])

Quiescent == \A r \in Replicas : Quiet(r)

Relevant == {n \in Namespaces \ Excluded : Active(n)}

\* Every desired policy is there.
Covered(n) == \A p \in Desired(n) : policy[<<n, p>>] # None

\* Every desired policy is as in the buffer of each replica ...
Conforming(n) ==
    \A p \in Desired(n), r \in Replicas :
        /\ policy[<<n, p>>] # None
        /\ policy[<<n, p>>].spec = defaultNetworkPolicies[r][p]

\* ... and no policy is left over that a replica has loaded.
Cleared(n) ==
    \A p \in Names, r \in Replicas :
        p \notin Listed(SettingOf(n)) /\ defaultNetworkPolicies[r][p] # None
            => policy[<<n, p>>] = None

Level(n) == Conforming(n) /\ Cleared(n)

(***************************************************************************)
(* No wakeup is lost: when every queue, stream and worker of every replica *)
(* is done, every relevant namespace is as its setting wants it            *)
(* (docs/devel/architecture.md:14, "If there are discrepancies, Karydia    *)
(* will level out it").                                                    *)
(***************************************************************************)
LevelWhenQuiescent == Quiescent => \A n \in Relevant : Level(n)

(***************************************************************************)
(* The same for the presence of the policies alone                         *)
(* (docs/devel/architecture.md:34, :40).                                   *)
(***************************************************************************)
CoveredWhenQuiescent == Quiescent => \A n \in Relevant : Covered(n)

(***************************************************************************)
(* Workers, replicas and events do not undo each other for ever: once the  *)
(* other parties leave the cluster alone, the namespaces become and stay   *)
(* as their settings want them.                                            *)
(***************************************************************************)
EventuallyLevel == <>[](\A n \in Relevant : Level(n))

(***************************************************************************)
(* Nothing is created in an excluded namespace that had no policy of a     *)
(* name of the setting before (runserver.go:73).                           *)
(***************************************************************************)
ExcludedStayEmpty == \A n \in Excluded, p \in Names : policy[<<n, p>>] = None

(***************************************************************************)
(* A policy whose name karydia has not loaded belongs to somebody else:    *)
(* karydia neither changes nor deletes it, whatever it is called in        *)
(* annotations (deleteMultipleDefaultNetworkPolicies ranges over the       *)
(* buffer only).                                                           *)
(***************************************************************************)
ForeignUntouched ==
    [][\A n \in Namespaces, p \in Names :
          /\ \A r \in Replicas : defaultNetworkPolicies[r][p] = None
          /\ changes' = changes /\ Active(n)
          => policy'[<<n, p>>] = policy[<<n, p>>]]_vars

----------------------------------------------------------------------------
(* What the documentation says and the code does not do.                   *)

(***************************************************************************)
(* runserver.go:73, "List of namespaces where the default network policy   *)
(* should not be installed": karydia writes no policy there.               *)
(***************************************************************************)
ExcludedLeftAlone ==
    [][\A n \in Excluded, p \in Names :
          policy'[<<n, p>>] # None /\ changes' = changes
              => policy'[<<n, p>>] = policy[<<n, p>>]]_vars

(***************************************************************************)
(* docs/devel/architecture.md:40, "The Karydia reconciling should          *)
(* guarantee that any activated security setting is forced": karydia       *)
(* itself takes no namespace its last policy, since it creates policies    *)
(* before it deletes those they replace (syncNamespaceHandler,             *)
(* syncNetworkPolicyHandler).                                              *)
(***************************************************************************)
Protected(n) == \E p \in Names : policy[<<n, p>>] # None

NeverUnprotected ==
    [][\A n \in Namespaces :
          Protected(n) /\ Active(n) /\ changes' = changes => Protected(n)']_vars

(***************************************************************************)
(* docs/features.md:45, "Karydia annotates the created network policy      *)
(* resources with the currently valid security settings (depending on time *)
(* and context)": a policy that karydia creates is one that some config    *)
(* names for the annotation its namespace has.                             *)
(***************************************************************************)
NamesFor(c, annotation) ==
    IF annotation # None /\ ~c.enforcement THEN annotation ELSE c.names

CreatedAsPrescribed ==
    [][\A n \in Namespaces, p \in Names :
          policy[<<n, p>>] = None /\ policy'[<<n, p>>] # None /\ changes' = changes
              => \E c \in Configs : p \in Listed(NamesFor(c, namespace[n].annotation))]_vars

(***************************************************************************)
(* docs/devel/architecture.md:14, "If there are discrepancies, Karydia     *)
(* will level out it": once the other parties leave the cluster alone,     *)
(* karydia comes to rest.                                                  *)
(***************************************************************************)
ComesToRest == <>[][policy' = policy]_vars

=============================================================================

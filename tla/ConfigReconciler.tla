--------------------------- MODULE ConfigReconciler ---------------------------
(***************************************************************************)
(* The config reconciler of karydia (pkg/controller/config_reconciler.go): *)
(* it follows the one KarydiaConfig the process was started with, hands    *)
(* what it says to the admission plugin and to the network policy          *)
(* reconciler, and tries to create it again when somebody deletes it.      *)
(* KarydiaConfigs of other names go through its queue without an effect    *)
(* and are left out.  The API server is modelled from how karydia calls it.*)
(***************************************************************************)
EXTENDS Naturals, Sequences

CONSTANTS
    None,
    Specs,        \* what a KarydiaConfig says
    Replicas,     \* processes of karydia
    Workers,      \* goroutines that run runConfigWorker
    Home,         \* the replica a worker belongs to
    MaxChanges    \* bound: how many changes other parties make

INSTANCE WorkQueueOps
INSTANCE Informers

ASSUME WorkerAssumption == Home \in [Workers -> Replicas]
ASSUME BoundAssumption == MaxChanges \in Nat

VARIABLES
    stored,       \* the KarydiaConfig at the API server: None, or its spec
                  \* and its resource version
    version,      \* the last resource version
    phase,        \* by replica: how far its start is
    stream,       \* by replica: the changes on their way to the informer
    lister,       \* by replica: the informer's cache
    blind,        \* by replica, for the properties: whether no handler was
                  \* called when the cache came to what it holds
    config,       \* by replica: the config in memory
    controllers,  \* by replica: the config each controller was told of last
    workqueue,    \* by replica
    pc, task,     \* by worker: where it is; the config it hands on, and to whom
    changes       \* how many changes other parties have made

server == <<stored, version>>
informer == <<stream, lister, blind>>
memory == <<config, controllers>>
vars == <<server, phase, informer, memory, workqueue, pc, task, changes>>

Key == "karydia-config"

\* karydiaControllers, in the order in which UpdateConfig calls them.
Controllers == <<"KarydiaAdmission", "NetworkpolicyReconciler">>

ConfigObjects == [spec : Specs, version : Nat]

ASSUME NoneAssumption == None # Key /\ None \notin ConfigObjects

Phases == {"off", "loaded", "running"}
Labels == {"idle", "lookup", "create", "store", "inform", "succeeded", "failed"}
NoTask == [config |-> None, next |-> 1]

TypeOK ==
    /\ stored \in ConfigObjects \cup {None}
    /\ version \in Nat
    /\ phase \in [Replicas -> Phases]
    /\ stream \in [Replicas -> Seq(Events(ConfigObjects))]
    /\ lister \in [Replicas -> ConfigObjects \cup {None}]
    /\ blind \in [Replicas -> BOOLEAN]
    /\ config \in [Replicas -> ConfigObjects \cup {None}]
    /\ controllers \in [Replicas -> [DOMAIN Controllers -> ConfigObjects \cup {None}]]
    /\ workqueue \in [Replicas -> Queues({Key}, Workers)]
    /\ pc \in [Workers -> Labels]
    /\ task \in [Workers -> [config : ConfigObjects \cup {None},
                             next : DOMAIN Controllers]]
    /\ changes \in 0..MaxChanges

Untold == [c \in DOMAIN Controllers |-> None]

\* karydia is deployed after its config.
Init ==
    /\ stored \in {[spec |-> s, version |-> 1] : s \in Specs}
    /\ version = 1
    /\ phase = [r \in Replicas |-> "off"]
    /\ stream = [r \in Replicas |-> <<>>]
    /\ lister = [r \in Replicas |-> None]
    /\ blind = [r \in Replicas |-> TRUE]
    /\ config = [r \in Replicas |-> None]
    /\ controllers = [r \in Replicas |-> Untold]
    /\ workqueue = [r \in Replicas |-> EmptyQueue(Workers)]
    /\ pc = [w \in Workers |-> "idle"]
    /\ task = [w \in Workers |-> NoTask]
    /\ changes = 0

----------------------------------------------------------------------------
(* The API server, and what other parties do.                              *)

\* Every write gets a new resource version and goes to the open watches.
Write(v) ==
    /\ stored' = v
    /\ version' = version + 1
    /\ stream' = [r \in Replicas |-> IF phase[r] = "running"
                                     THEN Append(stream[r], Watched(v))
                                     ELSE stream[r]]

Put(s) == Write([spec |-> s, version |-> version + 1])

\* The generated clientset and lister, for the one config.  The API server
\* takes a new object only without a resource version.
KarydiaConfigsGet == stored
KarydiaConfigsList == stored
Creatable(c) == stored = None /\ c.version = 0
KarydiaConfigsCreate(c) == Put(c.spec)
ListerGet(r) == lister[r]

Change ==
    /\ changes < MaxChanges
    /\ changes' = changes + 1

\* An update may leave the spec as it is.
ApplyConfig(s) ==
    /\ Change
    /\ Put(s)
    /\ UNCHANGED <<phase, lister, blind, memory, workqueue, pc, task>>

DeleteConfig ==
    /\ Change
    /\ stored # None
    /\ Write(None)
    /\ UNCHANGED <<phase, lister, blind, memory, workqueue, pc, task>>

BreakWatch(r, kept) ==
    /\ Change
    /\ kept < Len(stream[r])
    /\ stream' = [stream EXCEPT ![r] =
                     Relisted(@, kept, lister[r], KarydiaConfigsList)]
    /\ blind' = [blind EXCEPT ![r] = @ \/ (stored = None /\ lister[r] = None)]
    /\ UNCHANGED <<server, phase, lister, memory, workqueue, pc, task>>

----------------------------------------------------------------------------
(* The process (cli/cmd/runserver.go).                                     *)

\* The config is read, or the process ends at once; both controllers are
\* built from it ...
Load(r) ==
    /\ phase[r] = "off"
    /\ KarydiaConfigsGet # None
    /\ phase' = [phase EXCEPT ![r] = "loaded"]
    /\ config' = [config EXCEPT ![r] = KarydiaConfigsGet]
    /\ controllers' = [controllers EXCEPT ![r] =
                         [c \in DOMAIN Controllers |-> KarydiaConfigsGet]]
    /\ UNCHANGED <<server, informer, workqueue, pc, task, changes>>

\* ... and some time later the informer lists.  There is no AddFunc.
Run(r) ==
    /\ phase[r] = "loaded"
    /\ phase' = [phase EXCEPT ![r] = "running"]
    /\ lister' = [lister EXCEPT ![r] = KarydiaConfigsList]
    /\ UNCHANGED <<server, stream, blind, memory, workqueue, pc, task, changes>>

Crash(r) ==
    /\ Change
    /\ phase[r] # "off"
    /\ phase' = [phase EXCEPT ![r] = "off"]
    /\ stream' = [stream EXCEPT ![r] = <<>>]
    /\ lister' = [lister EXCEPT ![r] = None]
    /\ blind' = [blind EXCEPT ![r] = TRUE]
    /\ config' = [config EXCEPT ![r] = None]
    /\ controllers' = [controllers EXCEPT ![r] = Untold]
    /\ workqueue' = [workqueue EXCEPT ![r] = EmptyQueue(Workers)]
    /\ pc' = [w \in Workers |-> IF Home[w] = r THEN "idle" ELSE pc[w]]
    /\ task' = [w \in Workers |-> IF Home[w] = r THEN NoTask ELSE task[w]]
    /\ UNCHANGED server

----------------------------------------------------------------------------
(* The informer and its two handlers.                                      *)

UpdateHandlerAdds(cached, e) ==
    cached # None /\ e.value # None /\ cached.version # e.value.version

\* enqueueConfig finds no key in a DeletedFinalStateUnknown.
DeleteHandlerAdds(cached, e) == cached # None /\ e.value = None /\ ~e.relisted

Deliver(r) ==
    /\ stream[r] # <<>>
    /\ LET e == Head(stream[r])
           due == \/ UpdateHandlerAdds(lister[r], e)
                  \/ DeleteHandlerAdds(lister[r], e)
       IN /\ lister' = [lister EXCEPT ![r] = e.value]
          /\ \E adds \in Heard(due, e) :
                /\ workqueue' = [workqueue EXCEPT ![r] =
                                   Added(@, {k \in {Key} : adds})]
                /\ blind' = [blind EXCEPT ![r] =
                               IF adds THEN FALSE ELSE @ \/ e.relisted]
    /\ stream' = [stream EXCEPT ![r] = Tail(@)]
    /\ UNCHANGED <<server, phase, memory, pc, task, changes>>

Fire(r) ==
    /\ Key \in workqueue[r].delayed
    /\ workqueue' = [workqueue EXCEPT ![r] = Fired(@, Key)]
    /\ UNCHANGED <<server, phase, informer, memory, pc, task, changes>>

----------------------------------------------------------------------------
(* The workers.                                                            *)

Step(w, l, t) ==
    /\ pc' = [pc EXCEPT ![w] = l]
    /\ task' = [task EXCEPT ![w] = t]

\* processNextConfigWorkItem: Get.
GetItem(w) ==
    /\ phase[Home[w]] = "running" /\ pc[w] = "idle"
    /\ CanGet(workqueue[Home[w]], w, Key)
    /\ workqueue' = [workqueue EXCEPT ![Home[w]] = Got(@, w, Key)]
    /\ Step(w, "lookup", NoTask)
    /\ UNCHANGED <<server, phase, informer, memory, changes>>

\* reconcileIsNeeded compares the specs.
ReconcileIsNeeded(desired, actual) == desired.spec # actual.spec

\* syncConfigHandler.
Lookup(w) ==
    /\ pc[w] = "lookup"
    /\ LET found == ListerGet(Home[w])
       IN IF found = None
          THEN Step(w, "create", NoTask)
          ELSE IF ReconcileIsNeeded(found, config[Home[w]])
          THEN Step(w, "store", [NoTask EXCEPT !.config = found])
          ELSE Step(w, "succeeded", NoTask)
    /\ UNCHANGED <<server, phase, informer, memory, workqueue, changes>>

\* UpdateConfig replaces the config in memory and then tells the controllers,
\* none of which returns an error.
StoreConfig(w) ==
    /\ pc[w] = "store"
    /\ config' = [config EXCEPT ![Home[w]] = task[w].config]
    /\ Step(w, "inform", task[w])
    /\ UNCHANGED <<server, phase, informer, controllers, workqueue, changes>>

\* A variant of IsLast that runs past the end.
IsPastLast(c) == c > Len(Controllers)

IsLast(c) == c = Len(Controllers)

InformController(w) ==
    /\ pc[w] = "inform"
    /\ controllers' = [controllers EXCEPT ![Home[w]][task[w].next] = task[w].config]
    /\ IF IsLast(task[w].next)
       THEN Step(w, "succeeded", NoTask)
       ELSE Step(w, "inform", [task[w] EXCEPT !.next = @ + 1])
    /\ UNCHANGED <<server, phase, informer, config, workqueue, changes>>

\* A variant of Refused that passes over the error.
RefusedAnyway == "succeeded"

\* What the handler makes of an error of Create.
Refused == "failed"

\* createConfig sends a copy of the config in memory as it was read, its
\* resource version included.
CreateConfig(w) ==
    /\ pc[w] = "create"
    /\ LET desired == config[Home[w]]
       IN IF Creatable(desired)
          THEN KarydiaConfigsCreate(desired) /\ Step(w, "succeeded", NoTask)
          ELSE UNCHANGED <<server, stream>> /\ Step(w, Refused, NoTask)
    /\ UNCHANGED <<phase, lister, blind, memory, workqueue, changes>>

\* Done, after AddRateLimited if the handler returned an error.
Return(w) ==
    /\ pc[w] \in {"succeeded", "failed"}
    /\ workqueue' = [workqueue EXCEPT ![Home[w]] = Returned(@, w, pc[w] = "failed")]
    /\ Step(w, "idle", NoTask)
    /\ UNCHANGED <<server, phase, informer, memory, changes>>

----------------------------------------------------------------------------
HandlerStep(w) ==
    \/ Lookup(w) \/ StoreConfig(w) \/ InformController(w)
    \/ CreateConfig(w) \/ Return(w)

OtherParties ==
    \/ \E s \in Specs : ApplyConfig(s)
    \/ DeleteConfig
    \/ \E r \in Replicas :
          \/ Crash(r)
          \/ \E kept \in 0..Len(stream[r]) : BreakWatch(r, kept)

Next ==
    \/ OtherParties
    \/ \E r \in Replicas : Load(r) \/ Run(r) \/ Deliver(r) \/ Fire(r)
    \/ \E w \in Workers : GetItem(w) \/ HandlerStep(w)

Spec == Init /\ [][Next]_vars

\* Goroutines that can run do, delays end, a process that ended is started
\* again.  The workers of a replica compete for its one item.
Fairness ==
    /\ \A r \in Replicas :
          /\ WF_vars(Load(r)) /\ WF_vars(Run(r)) /\ WF_vars(Deliver(r)) /\ WF_vars(Fire(r))
          /\ WF_vars(\E w \in Workers : Home[w] = r /\ GetItem(w))
    /\ \A w \in Workers : WF_vars(HandlerStep(w))

FairSpec == Spec /\ Fairness

----------------------------------------------------------------------------
(* Correctness.                                                            *)

\* Replica r has nothing left to do or to hear of.
Quiet(r) == phase[r] = "running" /\ stream[r] = <<>> /\ Drained(workqueue[r])

\* The config in memory and both controllers say what the stored config says.
Agrees(r) ==
    /\ config[r].spec = stored.spec
    /\ \A c \in DOMAIN Controllers : controllers[r][c].spec = stored.spec

(***************************************************************************)
(* No change of the config is lost between the informer, the queue, the    *)
(* memory and the controllers, also if the config is deleted and created   *)
(* in between: once a replica is quiet it agrees with what is stored,      *)
(* unless its handlers were never called (syncConfigHandler, UpdateConfig).*)
(***************************************************************************)
AgreesWhenQuiet ==
    \A r \in Replicas : Quiet(r) /\ ~blind[r] /\ stored # None => Agrees(r)

(***************************************************************************)
(* Replicas do not overrule each other for ever: each settles on what is   *)
(* stored, or on nothing that its handlers have heard of.                  *)
(***************************************************************************)
EventuallyAgrees ==
    \A r \in Replicas : <>[](~blind[r] /\ stored # None => Agrees(r))

\* A copy of a config that is replaced is not by an older one.
NotOlder(c, d) == c # None /\ d # None => c.version <= d.version

(***************************************************************************)
(* A process never goes back to an older config, and neither does one of   *)
(* its controllers: its two workers do not overtake each other, and the    *)
(* informer and the retries do not either.                                 *)
(***************************************************************************)
NeverGoesBack ==
    [][\A r \in Replicas :
          /\ NotOlder(config[r], config'[r])
          /\ \A c \in DOMAIN Controllers :
                NotOlder(controllers[r][c], controllers'[r][c])]_vars

(***************************************************************************)
(* features.md:16, "If you want to adjust the default Karydia behavior you *)
(* can just modify the specific values ... and re-deploy these changes":   *)
(* a stored config is taken over by every replica that is quiet.           *)
(***************************************************************************)
ConfigTakesEffect ==
    \A r \in Replicas : Quiet(r) /\ stored # None => Agrees(r)

(***************************************************************************)
(* config_reconciler.go:204, "(re)create resource from memory if it no     *)
(* longer exists": a config whose deletion a replica has heard of exists   *)
(* again some day, unless the process ends or its watch breaks first.      *)
(***************************************************************************)
DeletionIsRepaired ==
    \A r \in Replicas :
        phase[r] = "running" /\ lister[r] = None /\ ~blind[r]
            ~> \/ stored # None \/ lister[r] # None
               \/ phase[r] # "running" \/ blind[r]

=============================================================================

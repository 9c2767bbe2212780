# karydia

A TLA+ model of [karydia](../src), the security add-on for Kubernetes that
installs default network policies in namespaces and mutates pods and service
accounts on admission. The modules model the controllers of karydia, the
client-go work queue they rest on, its admission plugin, and the process with its
webhook and HTTP server; TLC checks them on small instances and TLAPS proves
most of the safety results for any instance.

## 1. Inventory

karydia is one Go process (`cli/cmd/runserver.go`), run in several replicas
without leader election. Each replica starts from the `KarydiaConfig` it reads
from the API server and then runs these parts, all in goroutines of the process.

| Part | State | Operations | Talks to |
|---|---|---|---|
| **Network policy reconciler** `pkg/controller/networkpolicy_reconciler.go` | the default setting (two fields, no lock), the buffer of default policies (a map, no lock), two work queues | event handlers of namespaces and network policies, 2 + 2 workers, `UpdateConfig` | API server, two informers, config reconciler |
| **Config reconciler** `pkg/controller/config_reconciler.go` | the config in memory, one work queue | event handlers of the config, 2 workers, `UpdateConfig` of every controller, the attempt to create a deleted config again | API server, one informer, both controllers |
| **Work queue** `vendor/k8s.io/client-go/util/workqueue` | queue, dirty and processing sets, heap and channel of the delaying queue, failure counts | `Add`, `Get`, `Done`, `AddRateLimited`, `Forget`, `ShutDown`, waiting loop | informers and workers |
| **Informers** `vendor/k8s.io/client-go/tools/cache` | a cache per kind, the stream of changes | deliver, relist | API server, event handlers |
| **Admission plugin** `pkg/admission/karydia` | a pointer to the config | mutate and validate pods and service accounts, `UpdateConfig` | webhook, namespaces at the API server |
| **Webhook** `pkg/webhook` | the registered plugins | check, decode, dispatch, merge patches, answer | HTTP server, plugins |
| **HTTP server** `pkg/server` | the listener, its open connections | listen, serve, health check, shut down | API server, kubelet, webhook |
| **Process** `runserver.go` | main, one context, one channel for signals, a WaitGroup, two informer factories | load, build, start, signals, graceful end | all |

How they interact: the API server's changes reach a replica through informers,
whose handlers only put keys on a work queue; a worker takes a key, reads the
informer's cache or the API server, and writes to the API server, which comes
back as a change to every replica. The config reconciler calls `UpdateConfig` of
the admission plugin and of the network policy reconciler directly, while their
own goroutines read what it writes.

What is hard here, and where (PROJECT.json `hazards` has the lines):

- namespace workers, policy workers and other replicas create, update and delete
  the *same* policies and wake each other by it;
- decisions are taken from a lagging cache and from values read some calls ago
  (setting, existence of a policy), and acted on through the API;
- the buffer and the setting are shared without a lock;
- calls fail half way: some errors are retried (`Delete`), some are swallowed
  (`Create`, `Update`, `GetNamespace`);
- watches break, deletions come back as tombstones, processes crash;
- the config is read long before it is watched;
- an admission request looks at the config and the namespace several times while
  both change, and is mutated and validated by different replicas; its patches
  are built one after the other from the object as it was;
- a process is asked to end while its goroutines are at any point: not yet
  listening, waiting for a cache, in the middle of a request.

What makes each part correct:

- *work queue*: nothing added is lost, no item has two workers, a delayed item
  comes back, failures are forgotten;
- *network policy reconciler*: when everything is quiet every relevant namespace
  has the policies its setting names and none that karydia loaded besides; it
  gets there from any interference; on the way a namespace should not go without
  a policy; excluded namespaces and foreign policies are to be left alone; no
  handler dereferences a policy that is not loaded;
- *config reconciler*: the stored config, its copy in memory and what the
  controllers were told agree; a replica never goes back; a deleted config should
  come back;
- *admission*: the patches of a request apply in order and keep what the client
  said; what a mutation leaves meets the settings, is not refused by them later
  and is recorded; under enforcement no namespace opts out; deletion is not held up;
- *webhook*: a request is answered with what the plugins said, and with no more
  than one plugin's patch;
- *process*: after a signal it ends, but first finishes the requests it has taken;
  an enabled controller gets its workers; a process without its server is replaced.

## 2. Modules

```
WorkQueueOps            the queue as a value
  WorkSet               what a queue promises          WorkSetProofs
  WorkQueue             client-go's queue, => WorkSet  WorkQueueProofs
Informers               streams, relisting, tombstones
  Cluster               API server and other parties
    NetworkPolicyReconciler  (+ WorkQueueOps)          NetworkPolicyReconcilerProofs
                                                       LevelProofs
      MCNetworkPolicyReconciler
  ConfigReconciler           (+ WorkQueueOps)          ConfigReconcilerProofs
    MCConfigReconciler
JsonPatch               documents and "add" operations   JsonPatchProofs
  AdmissionOps          what is changed, what is invalid
    Admission           requests, replicas, configs    AdmissionProofs
      MCAdmission
Webhook                 checks, dispatch, merging
  Server                the process, => Serving        ServerProofs
    MCServer
Serving                 what a process promises to its clients
```

**WorkQueue** has one action per critical section of `queue.go` (`Add`, `Get`,
`Done`, `ShutDown`), of the rate limiter (`When`, `Forget`), of `AddAfter`
(`CheckShuttingDown`, `Send`, which blocks on the channel) and of the waiting loop
(`Insert`, `AddReceived`, `AddReady`). **WorkSet** is its abstract specification:
dirty, delayed, and who holds what. WorkQueue implements WorkSet with
`dirty <- dirty`, `delayed <- waiting \cup Range(waitingForAddCh)` (empty after
ShutDown) and `holding <- holding`. The reconcilers use the same operators
(**WorkQueueOps**) as their queues, so what the refinement shows is what they
assume of the queue, except that a worker's `AddRateLimited` (or `Forget`) and the
deferred `Done` are one step there.

**Informers** holds the operators for one object's stream: changes arrive in
order; when the watch breaks, what had not arrived is replaced by the result of a
List (`Relisted`). A deletion found in that way is a tombstone, whose key the
handlers of karydia cannot compute, and an update found in that way is not heard
by a handler that is not due for a resync.

**Cluster** is what surrounds the network policy reconciler: namespaces, network
policies, the `KarydiaNetworkPolicy` templates, the `KarydiaConfig`, the streams
and caches of each replica, and what other parties do (`Environment` lists the
kinds of changes a run allows, `MaxChanges` how many). The API server is external
code; it is modelled from how karydia calls it.

**NetworkPolicyReconciler** is the component. A worker's step is one call to the
API server or one access to memory shared with other goroutines:

| Code | Actions |
|---|---|
| start of the process, end at any point | `Start`, `Crash`, `MapRace` |
| `UpdateConfig` | `UpdateEnforcement`, `UpdateNames` |
| `enqueueNamespace`, `enqueueNetworkPolicy` and their handler functions | `DeliverNamespace`, `DeliverPolicy` |
| `process...WorkItem` | `GetNamespaceItem`, `GetPolicyItem`, `Return`, `FireNamespace`, `FirePolicy` |
| `syncNamespaceHandler`, `syncNetworkPolicyHandler` | `LookupNamespace`, `ReadNamespace` |
| `getDefaultNetworkpolicySetting` | `ReadNames`, `ReadEnforcement` |
| `syncNamespace`, `syncNetworkPolicy`, `updateBuffer` | `LoadBuffer`, `FetchTemplate`, `StoreTemplate`, `ComparePolicy` |
| `createDefaultNetworkPolicy`, `updateDefaultNetworkPolicy` | `CreatePolicyOf`, `UpdatePolicyOf` |
| `deleteMultipleDefaultNetworkPolicies` | `RangeBuffer`, `FindPolicy`, `RemovePolicy`, `EndSweep` |

`pc[w]` is the place in the handler and `task[w]` its local variables. The buffer
is a Go map without a lock: a worker that stores while another reads may end the
process (`MapRace`, the runtime's "concurrent map" check), and a worker that
ranges meanwhile may or may not see the new entry (`StoreTemplate`).
`UpdateEnforcement` stands for the config reconciler: it copies the stored config
some time after it changed. It overstates what ConfigReconciler delivers, which
may miss a change (run ConfigMissed).

**ConfigReconciler** follows the one `KarydiaConfig` of the process: `Load` is the
read in `runserver.go`, `Run` the informer's first List some time later,
`Deliver` the handlers, `GetItem`, `Lookup`, `StoreConfig`, `InformController`,
`CreateConfig` and `Return` the worker. The calls of the generated client and of
the lister are operators named after them (`KarydiaConfigsGet`,
`KarydiaConfigsList`, `KarydiaConfigsCreate`, `ListerGet`). Every config has a
version, in memory and with each controller, so that going back is visible. The
variable `blind` is a history variable: whether the cache came to what it holds
without a call of a handler.

**Admission** follows one object through the API server's stages (`mutating`,
`validating`, `stored` or `refused`). Each stage calls some replica, whose
config may differ from that of the replica called before. The handler has a step
per access to something shared:

| Code | Actions |
|---|---|
| `Webhook.Serve`, `Admit`, the early return for terminating pods | `Receive` |
| `getNamespaceFromAdmissionRequest` | `GetNamespace`, `GetNamespaceFails` |
| `getSetting`: the read of `Enforcement`, then that of the value | `Decide`, `Take` |
| the mutate and validate functions | `Mutate`, `Invalid` of **AdmissionOps**, inside `Decide` and `Take` |
| the answer and what the API server makes of it | `RespondMutating`, `RespondValidating` |
| an HTTP error, timeout or panic, with failurePolicy Ignore | `Unanswered` |
| `UpdateConfig` | `UpdateConfig` |

`mutated` (by which settings the object was last mutated), `submitted` (the
client's document) and `current` (the configs of the replica since the call
began) are history variables. **JsonPatch** represents a document as a function
from its paths, so that "add" replaces a subtree and fails without a parent. Its
constant `Keys` is what the members of objects can be called, `Indices` in
AdmissionOps the containers a pod may have, in their order.

**Server** is one process from its start to its end, **Webhook** what it does with
one HTTP request, **Serving** what it promises to those who send requests:

| Code | Actions |
|---|---|
| `runserverFunc`, up to the goroutines | `LoadTLS`, `LoadConfig`, `LoadPolicies`, `Build`, and `Fatal` for any of its `log.Fatalln` |
| `<-ctx.Done()`, `wg.Wait` | `Awake`, `Join` |
| the goroutine in `ListenAndServe` | `Listen`, `ListenFails`, `ListenerCloses` |
| the goroutine that calls `Shutdown` | `BeginShutdown`, `AllIdle`, `Expire` (the timeout of five seconds) |
| the goroutines of the reconcilers: `Start` of the factory, `WaitForCacheSync`, the workers, `<-stopCh` | `StartInformers`, `Sync`, `StartWorkers`, `GiveUp`, `StopWorkers` |
| the goroutine of the signals, and what sends them | `Notify`, `TakeSignal`, `CancelCtx`, `Abort`; `Signal`, `Kill`, `Probe` |
| the mux, `Webhook.Serve`, `admit` | `Send`, `Refuse`, `Accept`, `Admit`, `Conclude`, `Finish` with the operators of **Webhook** |

The flags `admission` and `networkPolicy` are free at the start. Server implements
Serving with `phase <- Phase`, which says how far the process is from `exit` and
`closer`; `early` is a history variable, the requests that were open when
`Shutdown` began.

### Abstractions

- Specs, templates and configs are model values; an annotation is the sequence of
  names that `strings.Split` gives. The `networkPolicy.internal` annotation is
  kept as its source (`config` or `namespace`).
- The update of an informer's cache and the call of the handler are one step (in
  the code a notification buffer lies between them); the first List of all
  informers is one step at the start. Periodic resyncs are left out: both
  handlers drop updates that keep the version.
- A call that fails may have taken effect (`Fault`). Conflicts of `Update` by
  version do not occur, because karydia sends no version.
- `createConfig` sends a copy of its config, resource version included. The model
  follows the API server, which refuses to create an object that has one
  (`Creatable`), and not the fake clientset of the tests, which takes it: every
  such call fails and is retried. That other calls of the config reconciler fail is
  left out: `Get` and `List` at the start end the process, and the lister reads
  memory.
- Requests of the admission share only the config and the namespaces, which they
  read, so one request at a time is followed; the merging of several plugins'
  answers is in Server. Left out are object kinds the webhooks are not registered
  for. The pointer to the config is never nil. `getPodStatus`
  is reduced to the deletion timestamp. Paths leave out `metadata` and `spec`.
  Init containers, which karydia does not look at, and what the API server
  itself forbids to change in a pod are left out.
- Clients may send any annotations, those that end in `.internal` (the records of
  karydia, `docs/features.md:78-84`) included, as somebody does who copies a pod,
  and may change them later. `Edits` holds what a client may do to a stored object:
  remove all annotations, the seccomp profile, a record or what an account says of
  its token, set another profile, delete the object. An `annotations` member is a
  map of strings, as the API server stores it (`WellFormed`).
- In the reconcilers a process ends at once (`Crash`). That stands for its
  graceful end too: `Run` returns when `stopCh` closes and does not wait for its
  workers, so a handler may be cut off between any two calls.
- In Server a plugin may respond anything an `AdmissionResponse` can be, or hang
  for ever. `runserver` registers one plugin; the run has two, so that merging
  happens. The handshake of TLS, keep-alive connections and the time limits for
  reading and writing are left out. `Probe` is the kubelet's reaction to a health
  check that fails, as the chart's liveness probe asks for it.

## 3. Runs

All runs use model values or short strings and set `CHECK_DEADLOCK FALSE`, since
the bounded other parties and the workers may really have nothing left to do.

| Run | Question | Instance |
|---|---|---|
| WorkQueue | Is an item ever lost, given out twice or starved, and is the queue a WorkSet? | 2 keys, 2 workers, channel of one place (so that `AddAfter` blocks), 3 adds, 2 failures in a row, ShutDown at any point |
| Level | Does a namespace end as its last annotation says, whatever happens to it, its policies and the process? | 1 namespace, 2 names, a default and two annotations, 2 changes (annotations, creation, termination, policies deleted or modified, crashes), a failing Delete |
| TwoReplicas | Do replicas that create, conform and restore the same policy leave it as it is to be? Does an excluded namespace get one? | 2 replicas with 1+1 workers, a relevant and an excluded namespace, 1 name and 1 setting (nothing is swept), 1 change (creation, a policy deleted or modified) |
| Buffer | Does any worker use what is not loaded? Are foreign policies safe? | 1+2 workers, a name with a template and one without, 3 changes (broken watches, templates, configs, annotations, policies), every call may fail once |
| Config | Does what a replica hears of the config reach memory and controllers, for good? | 2 replicas with 2 and 1 workers, 2 specs, 3 changes (updates, deletions, broken watches, crashes) |
| Admission | Do mutation and validation by replicas with different configs fit together, whatever the client gave? | 2 replicas, a namespace and kube-system, 3 configs, 3 annotations, 37 shapes of pods, with records that were copied from elsewhere, and all of service accounts, 2 requests (create, write back, edit), 1 change of config or annotation, 1 unanswered or failing call |
| Server | Does the process end when it is asked to, and finish its work first? Does it stay without a server or without workers? Is an answer what the plugins said? | both features on and off, 1 request of 3 shapes (a review, one that cannot be decoded, a health check), 2 plugins, 2 signals, a kill at any point |
| BrokenWatch, StaleSetting, UpdateWar, StaleCache, ConfigMissed | see *Disagreements* | smallest that shows it |

*Bounds.* The races of this code need two actors and one or two changes by other
parties: the runs in which a property fails (below) need no more than two
changes, and every mutant in PROJECT.json is found within the bounds of its run.
Replicas and workers of one kind do the same, so two of a kind show an
interference. A pod has up to two containers, since patches for containers
differ only in the index; the proofs are for any number. Requests to the server share nothing but the process, so
one shows what its end does to it; `Refinement` and `MergedRight` (below) hold for
any number. Changes are bounded per run by `MaxChanges` and failing calls by
`MaxFaults`; a namespace that Kubernetes terminates is emptied and removed
without counting.

*Fairness.* Safety runs use `Spec`, which has none. In `FairSpec` a goroutine that
can take a step takes one, informers deliver, delays end and a process that ended
is started again (the Deployment restarts it): weak fairness. Getting a *given*
item is strongly fair: WorkQueue shows that a due item is handed out in its turn
(`DueIsProcessed`, from weak fairness of its workers alone), while the abstract
queue of the reconcilers hands out any. In Server each goroutine that can go on
does, the API server answers the informers' lists, and the kubelet probes: the
listener may fail but need not, and neither plugins nor clients nor those who send
signals owe anything. Other parties owe nothing.

### Properties

- `LevelWhenQuiescent`, `EventuallyLevel`: no wakeup is lost, and the workers do
  not undo each other for ever.
- `ExcludedStayEmpty`, `ForeignUntouched`: what karydia must not touch.
- `NoNilDereference`: five places take a policy from the buffer without a check.
- `OneWorkerPerItem`: two workers in one namespace are of different kinds.
- `QueueHoldsWhatIsDue`, `ProcessingIsHeld`, `FailuresAreForgotten`,
  `DueIsProcessed`, `DelayedIsProcessed`, `ImplementsWorkSet`: the queue.
- `AgreesWhenQuiet`, `EventuallyAgrees`, `NeverGoesBack`: the config, as far as handlers were called; neither the memory nor a controller
  goes back to an older one.
- `PatchesApply`, `OwnChoicesKept`, `SettledIsLeftAlone`: patches are written
  against the object as received but applied one after the other, and come back
  to karydia with the next update.
- `MutatedIsHardened`, `MutatedIsValid`: the two webhooks share no code for their
  conditions, and no config.
- `RecordsItsChanges`: what karydia's answer makes of the records, those that a
  client has sent along included. It says nothing of what clients do later.
- `EnforcedCannotOptOut`, `DeletionIsNotHeld`: what the types and a test promise.
- `ImplementsServing`: the order of `Shutdown`, `ListenAndServe` and the WaitGroup.
- `SignalledEnds`, `DeadServerIsReplaced`: nothing holds up the end, neither a
  plugin that hangs, nor a cache that does not fill, nor a listener that failed.
- `ControllersGetGoing`: the informers a reconciler waits for are in a factory that
  is started.
- `AnswerIsTheirs`: the loop over the plugins, with its early returns.

### Disagreements between the code and what is said of it

Each has a run that TLC must find violated (PROJECT.json `findings`):

- **BrokenWatch**: a policy deleted while the watch is broken is not recreated.
- **StaleSetting**: a policy worker that read an annotation before it changed
  creates a policy after the namespace worker has swept, and nothing removes it.
- **UpdateWar**: a template is loaded once and never again (`updateBuffer`), so
  after it changed a replica that was started before and one that was started
  later conform a policy to different contents, each woken by the other's update.
- **StaleCache**: policies are created before those they replace are deleted, but
  whether one exists is read from a cache that may still show one that karydia has
  deleted. An annotation that changes back and forth leaves a namespace without
  any policy, until the deletion is heard of.
- **ConfigMissed**: a config that changes between the first read and the first
  List of the informer never takes effect (`docs/features.md:16`).

More disagreements have a configuration of their name each, in which TLC finds the
property violated. They are small variations of the above, or follow from a few
lines of the code, and are kept beside the runs to be checked by hand with the MC
module of the component:

- **SwallowedError**: one `Create` that fails leaves a namespace uncovered until
  something else wakes it, because the handlers log the error and forget the item.
- **MissingTemplate**: a name without a template in an annotation `typo;l1` keeps
  `l1` from being recreated (`syncNetworkPolicy` returns at the first missing
  template).
- **RivalPolicy**: a policy that somebody creates under a default name before
  karydia does is never conformed (no `AddFunc`).
- **ExcludedTouched**: the policy handler conforms and recreates policies in
  excluded namespaces, of which `runserver.go:73` says that default policies
  "should not be installed" there. It does no harm as long as nobody else creates
  a policy of such a name there (`ExcludedStayEmpty`).
- **TornConfig**: enforcement and names are two fields without a lock, so a
  handler can use the names of one config under the enforcement of the next.
- **ConfigDeleted**: a deleted config is not created again, although the code
  means to (`config_reconciler.go:204`), since the call is refused each time.
- **StaleRecord**: a client that gives a mutated pod another seccomp profile
  leaves karydia's record of the old one; a record copied with a pod is kept
  likewise.
- **TornSetting**: a setting is put together from two reads, whether the config is
  enforced and its value. A config that arrives in between yields a setting that
  no config prescribes, where `docs/features.md:78` speaks of "the at the time and
  context valid security settings".
- **Unrecorded**: a pod that has a user, but whose containers karydia changes,
  gets no record of it.

Their properties are, in this order, `CoveredWhenQuiescent` (twice),
`LevelWhenQuiescent`, `ExcludedLeftAlone`, `CreatedAsPrescribed`,
`DeletionIsRepaired`, `RecordTellsTheTruth`, `ValidAtItsTime` and
`ChangesAreRecorded`.

Others were seen while modelling and have no configuration:

- Validation asks for user and group, but not for the containers'
  `allowPrivilegeEscalation`; a pod whose mutation was not answered is admitted
  with it. Init containers are neither mutated nor validated.
- A namespace that cannot be read refuses the object, although an unanswered
  webhook lets it through (failurePolicy Ignore).
- `automountServiceAccountToken` as `change-all` also changes the accounts of
  kube-system, unless the namespace is excluded by its label.
- Updating a policy drops its `networkPolicy.internal` annotation.
- After a restart, policies that were created for an annotation and are no
  default are not loaded and so not removed.
- `docs/features.md:36` says namespaces created while karydia was down are not
  updated; they are, by the first List.
- A mutating response always carries a patch, "null" if there is nothing to change
  (`pkg/k8sutil/admission.go`), so with a second plugin that mutates the webhook
  would refuse every object.
- A review that cannot be decoded is to be answered with an error
  (`webhook.go:122`), but the answer takes its UID from a request that is nil: the
  panic closes the connection. The rest of the process goes on.
- A second signal that comes before the first is taken from the channel, which
  holds one, is dropped, and the process ends gracefully instead of at once.
- The comment of the reconcilers' `Run` (`config_reconciler.go:89`) says it waits
  for the workers to finish; it does not.
- With two replicas, a namespace may be without a policy for a moment while they
  replace policies at different speeds.

## 4. Proofs

Proved with TLAPS for every value of the constants, under the modules' named
assumptions (`NoneIsNoKey`, `BoundAssumption`, `SettingsAssumption`,
`WorkerAssumption`, `ObjectAssumption` and so on: `None` is no value and no object,
settings are nonempty sequences, the two kinds of workers are disjoint, bounds are naturals):

- **WorkQueueProofs**: `TypeCorrect`, `ProcessingHeld`, `QueueComplete`,
  `FailuresForgotten`, and `Refinement`, that WorkQueue implements WorkSet. The
  inductive invariant is `Safe`: the types, that the processing set is what the
  workers hold, and that the queue is an injective enumeration of
  `dirty \ processing`. Neither of the last two is inductive alone: `Done` may
  queue an item only because no other worker holds it, and `Get` takes an item no
  one holds only because the queue has none that is processed. `Counted` adds the
  failure counts. The refinement maps each step to a step of WorkSet or a stutter;
  `When`, `CheckShuttingDown` and `Insert` stutter, `AddReceived` and `AddReady`
  are `Fire`.
- **WorkSetProofs**: `ExclusiveProcessing`, one worker per item.
- **NetworkPolicyReconcilerProofs**: `TypeCorrect`, `NoNil`
  (`NoNilDereference`), `ExclusiveHandlers` (`OneWorkerPerItem`), `ForeignKept`
  (`ForeignUntouched`) and `ExcludedEmpty` (`ExcludedStayEmpty`). The inductive
  invariant `Inv` is `Typed` (the types, and `TaskOK`: at each `pc`, which names
  the worker has loaded, where it is in the setting, that what it will sweep is
  loaded) and `HoldersOK` (a worker's task is the item it holds).
  `NoNilDereference` needs `TaskOK`, since a handler loads names in one step and
  uses them calls later: what makes it work is that nothing in a process ever
  removes an entry from the buffer. `ExcludedEmpty` assumes that other parties
  create no policies (`"CreatePolicy" \notin Environment`), because the policy
  handler does not look at the exclusion: it is kept out of an excluded namespace
  only by there being no policy to wake it. Its invariant `Vacant` says so: no
  policy is there, in the API server or any stream or cache, no key of one is in a
  policy queue, and no worker that may write is there.

  The lemmas about the streams and other parties' steps of Cluster come first in
  the module.
- **LevelProofs**: that the network policy reconciler does what it is for.
  `LevelWhenQuiescent` fails in general (*Disagreements*), so the theorems say under
  what conditions it holds, for any number of namespaces, names, replicas, workers,
  crashes and other changes. Each condition excludes something that the code does
  not cope with:

  - `[]Steady`: nobody changes the config, the setting that a namespace's annotation
    makes with it, or a template that a setting names, and those templates exist.
    (StaleSetting, StaleCache, UpdateWar and MissingTemplate.) Namespaces still come
    and go, other templates change, and annotations change where the config is
    enforced.
  - `Reliable`: no watch breaks (BrokenWatch), and none of the calls fails whose error
    the handlers log and forget: `GetNamespace`, `GetTemplate`, `Create` and `Update`
    (SwallowedError). Any `Delete` and any read of a policy may fail.
  - `[][NoRivals]_vars`: nobody else creates a policy under the name of a default
    policy that is missing there (RivalPolicy). Other policies may be created,
    and all may be modified and deleted.

  `Repaired`: whenever karydia is quiescent, the policies of every relevant namespace
  exist and are as the buffers have them. `DefaultsStay`: no step of karydia removes a
  policy that a setting names, or changes one that is as it is to be, although its
  workers act on caches that lag behind. `Leveled` gives `LevelWhenQuiescent` in
  full, if other parties create no policies at all. As settings do not change
  either, no policy ever exists there that the sweep would have to delete: that
  karydia removes what a setting no longer names is shown by the run Level only.

  The invariant is `InStep /\ NothingLost` on top of `Inv`. `InStep` follows the
  objects: each stream ends with what the API server has, every version of a namespace
  in a stream or cache makes the setting it is to make, the memory holds the
  config and templates, and a handler at each label has the setting it should, with
  nothing wanted among what it is going to delete. Its least obvious part is
  in `PolicyFollows`: since the informer does nothing about a creation, a
  stream that ends with one must lead to a policy that conforms. `NothingLost`
  says that every default policy of every live replica is tended: either the replica
  is coming to it (an event of the namespace, its key in the queue, or a namespace
  worker that has not yet compared it), or its template is loaded and the policy
  conforms or is being repaired (an event, its key, a policy worker on its way,
  or a worker about to make the very call that will succeed). This is not implied
  by either kind of worker alone: a namespace worker passes over a policy that
  it sees in the cache and relies on a policy worker to hear of its deletion, while
  a policy worker whose `Create` fails because the policy is there by now relies on
  whoever created it, and on the event of any change since. `TendedStep` states what a step must hand over, and one lemma per action shows
  that it does. TLC checked the invariant and both conclusions before they were
  proved, on instances with one or two namespaces, two names, up to four changes of
  all kinds that the conditions allow, and failing calls.
- **ConfigReconcilerProofs**: `TypeCorrect`, `Agreement` (`AgreesWhenQuiet`) and
  `Progressing` (`NeverGoesBack`). The inductive invariant `Safe` follows a version
  along its way: the stream is ordered and no older than the cache (`StreamOK`), a
  worker takes over nothing older than what the process has (`TaskOK`), one worker
  at a time does (`HolderOK`), and no controller is ahead of the memory. `Agreement`
  adds `Heeded`: a process that heard of a difference has a worker on the way to
  it, the key queued or delayed, or agrees.
- **AdmissionProofs**: `TypeCorrect`, `Enforced` (`EnforcedCannotOptOut`),
  `PatchesAlwaysApply` (`PatchesApply`), `Hardens` (`MutatedIsHardened`),
  `MutationSatisfiesValidation` (`MutatedIsValid`), `KeepsOwnChoices`
  (`OwnChoicesKept`), `LeavesSettledAlone` (`SettledIsLeftAlone`),
  `RecordsAreOfItsChanges` (`RecordsItsChanges`) and `DeletionProceeds`
  (`DeletionIsNotHeld`), for any objects, configs, annotations, replicas and any
  number of containers.

  The invariant of the first two, `IInv`, adds to the types where the handler is
  (`Looking`: a handler that looks for a setting has a feature to look at and has
  read the namespace) and that the replica's config is one of `current` throughout
  the call (`Following`). Without the latter a setting taken from a namespace
  could not be traced to a config without enforcement.

  The invariant of the others is `CInv`. None of what it proves is inductive
  alone, because patches are built against the object as received and only the
  answer applies them. `InTurn` therefore follows the handler: `Working` says that
  the patches so far can be applied, that the document they lead to has what the
  settings so far ask for, the records of those it has set and no other paths than
  those karydia sets, and that there are no patches as long as the object has all of it anyway. Two facts make
  the second feature's patches safe. `Leads` says that from the object as received
  and the patches together `Annotate` sees whether there is a map of annotations by
  now (what `Patches.annotated` is for); and after the seccomp profile only paths
  below `annotations` are new, so that what the security context's patches find in
  the object is what they will be applied to. `ErrorsAreReal` and `Untouched` do
  the same for validation and for pods that are deleted.

  One lemma per feature (`SeccompMutates`, `ContextMutates`, `AutomountMutates`)
  says what its patches lead to and that there are none where there is nothing to
  do; they rest on `LeadsToNote`, `LeadsToScalar` and `LeadsToObject` for one
  operation, and on `ForbidAllLeads` for the loop over the containers.
- **JsonPatchProofs**: what "add" keeps, brings and needs (`AddedExtends`,
  `AddedBrings`, `AddedIsDocument`, `WithoutIsDocument`), and what a patch with one
  more operation gives (`PatchedFurther`). The application of a patch and the
  loop over containers are recursive functions. Of those it is shown that they
  exist and what a turn does (`RunExists`, `RunUnique`, `LoopExists`), with
  `Induction`, a form of induction for sets of numbers that follows from the
  minimum principle of WellFoundedInduction (`WFMin`).

  Assumptions: the containers have different indices (`IndicesAssumption`), the
  members that karydia writes are among the names objects can use
  (`KeysAssumption`), `None` is no setting (`SettingsAssumption`), and the objects
  of clients have a map of strings for annotations if any (`DocumentsAssumption`).
- **ServerProofs**: `TypeCorrect`, `MergedRight` (`AnswerIsTheirs`) and
  `Refinement` (`ImplementsServing`), for any number of requests, plugins and
  signals. The inductive invariant `Inv` is the types, that a request under way has
  a shape (`Shaped`), that no request that was open when `Shutdown` began is still
  open once it has returned in time (`Finished`), and that nobody calls `Shutdown`
  before the goroutines are started (`Unbuilt`).
  `HandlersOK` relates a handler in the middle of its loop to the responses so far.

Only model-checked: liveness (`EventuallyLevel`, `EventuallyAgrees` and so on:
fairness and `ENABLED` are out of the prover's reach); and `LevelWhenQuiescent`
while settings change. There it is true of the instance that the run Level checks,
whose annotations name one policy each, and not of all: StaleSetting has the same
number of changes with an annotation that names two, and it fails. So no theorem can
state it without a condition on the settings. `EventuallyLevel` is checked with one
replica; with two, the run TwoReplicas checks `LevelWhenQuiescent`, and `Repaired`
holds for any number.

## 5. Plan

1. *Done*: WorkQueue and WorkSet, the network policy reconciler and its
   surroundings, the config reconciler.
2. *Done*: the admission of pods and service accounts.
3. *Done*: the process, its server and the webhook.
4. `Karydia.tla`: the config reconciler composed with the admission plugin and the
   setting of the network policy reconciler, shown to implement what
   `UpdateEnforcement` and `UpdateNames` assume.
5. *Done*: proofs of what the admission's patches do to an object.
6. *Done*: `LevelWhenQuiescent` where settings do not change (LevelProofs).

Not modelled: logging and the command line (no state, no property), calls of the
generated client that karydia never makes, its fakes and deep copies, and the Helm
charts except for the liveness probe (data; their values are the constants of the
runs). PROJECT.json `components` lists every part with its status.

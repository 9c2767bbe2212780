-------------------------------- MODULE Server --------------------------------
(***************************************************************************)
(* One process of karydia from its start to its end: the main goroutine    *)
(* (cli/cmd/runserver.go), the goroutines it waits for and the one that    *)
(* listens for signals, the informer factories, and the HTTP server        *)
(* (pkg/server/server.go) with the requests it hands to the webhook.       *)
(* net/http, os/signal and the kubelet are modelled from how karydia uses  *)
(* and configures them.                                                    *)
(***************************************************************************)
EXTENDS Webhook

CONSTANTS
    Requests,
    Shapes,        \* the paths and bodies of requests
    Plugins,       \* how many plugins are registered (runserver: one)
    MaxSignals     \* bound: how many signals others send

ASSUME ShapeAssumption == Shapes \subseteq [path : Paths, body : Bodies]
ASSUME PluginAssumption == Plugins \in Nat
ASSUME SignalAssumption == MaxSignals \in Nat
VARIABLES
    admission, networkPolicy,   \* the two flags that enable a feature
    boot,       \* where main is
    exit,       \* how the process ended, None while it runs
    runner,     \* by controller: how far the goroutine that runs it is
    factory,    \* by controller: the informers its factory has, and has started
    synced,     \* the kinds whose informers have listed
    cancelled,  \* whether ctx is done
    notifier,   \* where the goroutine that waits for signals is
    sigChan,    \* how many signals its channel holds, 0 or 1
    signals,    \* how many signals others have sent
    listener,   \* how far the goroutine in ListenAndServe is
    closer,     \* how far the goroutine that calls Shutdown is
    request,    \* by request: how far it is
    shape, handler, said,   \* by request: what it looks like, its handler's
                            \* variables, and for the properties what the
                            \* plugins responded
    early       \* for the properties: the requests open when Shutdown began

starting == <<admission, networkPolicy, boot>>
controllers == <<runner, factory, synced>>
signalling == <<cancelled, notifier, sigChan, signals>>
serving == <<listener, closer, early>>
requests == <<request, shape, handler, said>>
vars == <<starting, exit, controllers, signalling, serving, requests>>

Controllers == {"config", "networkPolicy"}
Kinds == {"KarydiaConfig", "NetworkPolicy", "Namespace"}

\* The kinds a reconciler asks its informer factory for, and waits for.
KindsOf(c) == IF c = "config" THEN {"KarydiaConfig"} ELSE {"NetworkPolicy", "Namespace"}

Exits == {"fatal", "returned", "aborted", "killed"}

ASSUME NoneAssumption ==
    None \notin Exits /\ None \notin Statuses /\ None \notin Responses

NoFactory == [informers |-> {}, started |-> {}]

TypeOK ==
    /\ admission \in BOOLEAN /\ networkPolicy \in BOOLEAN
    /\ boot \in {"tls", "config", "policies", "build", "waiting", "joining"}
    /\ exit \in Exits \cup {None}
    /\ runner \in [Controllers -> {"off", "new", "syncing", "running", "done"}]
    /\ factory \in [Controllers -> [informers : SUBSET Kinds, started : SUBSET Kinds]]
    /\ synced \in SUBSET Kinds
    /\ cancelled \in BOOLEAN
    /\ notifier \in {"off", "new", "first", "cancel", "second"}
    /\ sigChan \in 0..1 /\ signals \in 0..MaxSignals
    /\ listener \in {"off", "new", "listening", "failed", "closed"}
    /\ closer \in {"off", "waiting", "polling", "done", "expired"}
    /\ request \in [Requests -> {"unsent", "sent", "open", "over", "lost"}]
    /\ shape \in [Requests -> Shapes \cup {None}]
    /\ handler \in [Requests -> Handlers]
    /\ said \in [Requests -> Seq(Responses)]
    /\ early \in SUBSET Requests

Init ==
    /\ admission \in BOOLEAN /\ networkPolicy \in BOOLEAN
    /\ exit = None
    /\ signals = 0
    /\ request = [r \in Requests |-> "unsent"]
    /\ early = {}
    /\ boot = "tls"
    /\ runner = [c \in Controllers |-> "off"]
    /\ factory = [c \in Controllers |-> NoFactory]
    /\ synced = {}
    /\ cancelled = FALSE /\ notifier = "off" /\ sigChan = 0
    /\ listener = "off" /\ closer = "off"
    /\ shape = [r \in Requests |-> None]
    /\ handler = [r \in Requests |-> NoHandler]
    /\ said = [r \in Requests |-> <<>>]

Alive == exit = None
Open == {r \in Requests : request[r] = "open"}

\* With the process go its goroutines, what they know, and the requests it
\* has not finished.
Exit(how) ==
    /\ exit' = how
    /\ request' = [r \in Requests |->
                     IF request[r] \in {"sent", "open"} THEN "lost" ELSE request[r]]
    /\ boot' = "tls"
    /\ runner' = [c \in Controllers |-> "off"]
    /\ factory' = [c \in Controllers |-> NoFactory]
    /\ synced' = {}
    /\ cancelled' = FALSE /\ notifier' = "off" /\ sigChan' = 0
    /\ listener' = "off" /\ closer' = "off"
    /\ shape' = [r \in Requests |-> None]
    /\ handler' = [r \in Requests |-> NoHandler]
    /\ said' = [r \in Requests |-> <<>>]
    /\ UNCHANGED <<admission, networkPolicy, signals, early>>

----------------------------------------------------------------------------
(* The main goroutine.                                                     *)

MainStep(from, to) ==
    /\ Alive /\ boot = from
    /\ boot' = to
    /\ UNCHANGED <<admission, networkPolicy, exit, requests>>

QuietStep(from, to) ==
    MainStep(from, to) /\ UNCHANGED <<controllers, signalling, serving>>

LoadTLS == QuietStep("tls", "config")

\* The clients, the config, and the admission plugin that is built from it.
LoadConfig == QuietStep("config", IF networkPolicy THEN "policies" ELSE "build")

LoadPolicies == QuietStep("policies", "build")

\* log.Fatalln: anything that cannot be loaded or built ends the process.
Fatal == Alive /\ boot \in {"tls", "config", "policies", "build"} /\ Exit("fatal")

\* A variant of InformerFor whose informer is not the factory's.
OwnInformerFor(f, kinds) == f

\* InformerFor: a factory has one informer per kind, however often it is asked.
InformerFor(f, kinds) == [f EXCEPT !.informers = @ \cup kinds]

\* The features that are on: the config reconciler always is.
Enabled(c) == c = "config" \/ networkPolicy

\* The constructors of the reconcilers ask for their informers; then one
\* goroutine each for the server, its shutdown, the reconcilers and signals.
Build ==
    /\ MainStep("build", "waiting")
    /\ factory' = [c \in Controllers |->
                     IF Enabled(c) THEN InformerFor(factory[c], KindsOf(c)) ELSE factory[c]]
    /\ runner' = [c \in Controllers |-> IF Enabled(c) THEN "new" ELSE "off"]
    /\ listener' = "new" /\ closer' = "waiting" /\ notifier' = "new"
    /\ UNCHANGED <<synced, cancelled, sigChan, signals, early>>

\* <-ctx.Done()
Awake == cancelled /\ QuietStep("waiting", "joining")

RunnersDone == \A c \in Controllers : runner[c] \in {"off", "done"}

\* Variants of AllDone: the goroutine that calls Shutdown is not counted, or
\* the one in ListenAndServe does not call Done after an error.
AllButCloserDone == listener \in {"failed", "closed"} /\ RunnersDone
AllDoneUnlessFailed == listener = "closed" /\ closer \in {"done", "expired"} /\ RunnersDone

\* The goroutines that wg counts.
AllDone ==
    /\ listener \in {"failed", "closed"}
    /\ closer \in {"done", "expired"}
    /\ RunnersDone

\* wg.Wait returns, and so does runserverFunc.
Join == Alive /\ boot = "joining" /\ AllDone /\ Exit("returned")

----------------------------------------------------------------------------
(* The HTTP server.                                                        *)

ListenerStep(from, to) ==
    /\ Alive /\ listener \in from
    /\ listener' = to
    /\ UNCHANGED <<starting, exit, controllers, signalling, closer, early, requests>>

ShutdownBegun == closer \in {"polling", "done", "expired"}

Listen == ~ShutdownBegun /\ ListenerStep({"new"}, "listening")

\* The address is in use, or there are no file descriptors left: the error is
\* logged and the process goes on.
ListenFails == ~ShutdownBegun /\ ListenerStep({"new", "listening"}, "failed")

\* http.ErrServerClosed, also if Shutdown came before ListenAndServe.
ListenerCloses == ShutdownBegun /\ ListenerStep({"new", "listening"}, "closed")

CloserStep(from, to) ==
    /\ Alive /\ closer = from
    /\ closer' = to
    /\ UNCHANGED <<starting, exit, controllers, signalling, listener, requests>>

\* Shutdown takes no more connections and polls until none is busy ...
BeginShutdown ==
    /\ cancelled
    /\ CloserStep("waiting", "polling")
    /\ early' = Open

AllIdle == Open = {} /\ CloserStep("polling", "done") /\ UNCHANGED early

\* A variant of Expire for a context without a timeout.
NeverExpire == FALSE

\* ... or for five seconds.
Expire == CloserStep("polling", "expired") /\ UNCHANGED early

----------------------------------------------------------------------------
(* The goroutines that run the reconcilers.                                *)

RunnerStep(c, from, to) ==
    /\ Alive /\ runner[c] = from
    /\ runner' = [runner EXCEPT ![c] = to]
    /\ UNCHANGED <<starting, exit, signalling, serving, requests>>

\* Start: every informer the factory has that is not started yet.
Started(f) == [f EXCEPT !.started = @ \cup f.informers]

StartInformers(c) ==
    /\ RunnerStep(c, "new", "syncing")
    /\ factory' = [factory EXCEPT ![c] = Started(@)]
    /\ UNCHANGED synced

\* The started informers list.
Sync(c) ==
    /\ Alive /\ ~cancelled
    /\ ~(factory[c].started \subseteq synced)
    /\ synced' = synced \cup factory[c].started
    /\ UNCHANGED <<starting, exit, runner, factory, signalling, serving, requests>>

\* WaitForCacheSync: the workers are started ...
StartWorkers(c) ==
    /\ RunnerStep(c, "syncing", "running")
    /\ KindsOf(c) \subseteq synced
    /\ UNCHANGED <<factory, synced>>

\* ... or the context is done first.
GiveUp(c) ==
    /\ cancelled
    /\ RunnerStep(c, "syncing", "done")
    /\ UNCHANGED <<factory, synced>>

\* The work queues are shut down; nobody waits for the workers.
StopWorkers(c) ==
    /\ cancelled
    /\ RunnerStep(c, "running", "done")
    /\ UNCHANGED <<factory, synced>>

----------------------------------------------------------------------------
(* Signals.                                                                *)

NotifierStep(from, to) ==
    /\ Alive /\ notifier = from
    /\ notifier' = to
    /\ UNCHANGED <<starting, exit, controllers, serving, requests>>

\* signal.Notify: signals go to the channel, and no longer end the process.
Notify == NotifierStep("new", "first") /\ UNCHANGED <<cancelled, sigChan, signals>>

TakeSignal ==
    /\ sigChan = 1 /\ sigChan' = 0
    /\ NotifierStep("first", "cancel")
    /\ UNCHANGED <<cancelled, signals>>

CancelCtx ==
    /\ NotifierStep("cancel", "second")
    /\ cancelled' = TRUE
    /\ UNCHANGED <<sigChan, signals>>

\* The second signal: os.Exit(1).
Abort == Alive /\ notifier = "second" /\ sigChan = 1 /\ Exit("aborted")

\* A variant of Queued for a channel without a bound.
QueuedAll(n) == n + 1

\* A signal that finds the channel full is dropped.
Queued(n) == 1

Signal ==
    /\ Alive /\ notifier \notin {"off", "new"}
    /\ signals < MaxSignals
    /\ signals' = signals + 1
    /\ sigChan' = Queued(sigChan)
    /\ UNCHANGED <<starting, exit, controllers, cancelled, notifier, serving, requests>>

\* A signal before signal.Notify, or one that cannot be caught.
Kill == Alive /\ Exit("killed")

\* A process that does not answer on /healthz is asked to end.
Probe ==
    /\ Alive /\ listener = "failed"
    /\ notifier = "first" /\ sigChan = 0
    /\ sigChan' = Queued(sigChan)
    /\ UNCHANGED <<starting, exit, controllers, cancelled, notifier, signals,
                   serving, requests>>

----------------------------------------------------------------------------
(* Requests.                                                               *)

RequestStep(r, from, to) ==
    /\ request[r] = from
    /\ request' = [request EXCEPT ![r] = to]
    /\ UNCHANGED <<starting, exit, controllers, signalling, serving>>

Send(r, s) ==
    /\ Alive
    /\ RequestStep(r, "unsent", "sent")
    /\ shape' = [shape EXCEPT ![r] = s]
    /\ UNCHANGED <<handler, said>>

\* The connection is refused, or reset when the listener closes.
Refuse(r) ==
    /\ Alive /\ listener # "listening"
    /\ RequestStep(r, "sent", "lost")
    /\ shape' = [shape EXCEPT ![r] = None]
    /\ UNCHANGED <<handler, said>>

\* The mux calls the handler of the path.  A connection that was accepted just
\* before Shutdown closed the listener is served after it.
Accept(r) ==
    /\ Alive /\ listener = "listening"
    /\ RequestStep(r, "sent", "open")
    /\ handler' = [handler EXCEPT ![r] = Served(shape[r])]
    /\ UNCHANGED <<shape, said>>

Registered == IF admission THEN Plugins ELSE 0

\* A plugin of the webhook responds.
Admit(r) ==
    /\ Alive /\ request[r] = "open"
    /\ handler[r].status = None /\ handler[r].next \in 1..Registered
    /\ \E response \in ResponsesOf(shape[r].path) :
          /\ handler' = [handler EXCEPT ![r] = Admitted(@, response)]
          /\ said' = [said EXCEPT ![r] = Append(@, response)]
    /\ UNCHANGED <<starting, exit, controllers, signalling, serving, request, shape>>

Conclude(r) ==
    /\ Alive /\ request[r] = "open"
    /\ handler[r].status = None /\ handler[r].next > Registered
    /\ handler' = [handler EXCEPT ![r] = Concluded(@)]
    /\ UNCHANGED <<starting, exit, controllers, signalling, serving,
                   request, shape, said>>

\* The response is written, or the connection closed.
Finish(r) ==
    /\ Alive /\ handler[r].status # None
    /\ RequestStep(r, "open", "over")
    /\ shape' = [shape EXCEPT ![r] = None]
    /\ handler' = [handler EXCEPT ![r] = NoHandler]
    /\ said' = [said EXCEPT ![r] = <<>>]

----------------------------------------------------------------------------
Main == LoadTLS \/ LoadConfig \/ LoadPolicies \/ Fatal \/ Build \/ Awake \/ Join

ListenerRuns == Listen \/ ListenFails \/ ListenerCloses
CloserRuns == BeginShutdown \/ AllIdle \/ Expire
RunnerRuns(c) == StartInformers(c) \/ StartWorkers(c) \/ GiveUp(c) \/ StopWorkers(c)
NotifierRuns == Notify \/ TakeSignal \/ CancelCtx \/ Abort

RequestRuns(r) ==
    \/ \E s \in Shapes : Send(r, s)
    \/ Refuse(r) \/ Accept(r) \/ Admit(r) \/ Conclude(r) \/ Finish(r)

Next ==
    \/ Main \/ ListenerRuns \/ CloserRuns \/ NotifierRuns
    \/ Signal \/ Kill \/ Probe
    \/ \E c \in Controllers : RunnerRuns(c) \/ Sync(c)
    \/ \E r \in Requests : RequestRuns(r)

Spec == Init /\ [][Next]_vars

\* Goroutines that can run do, the API server answers the informers, and the
\* kubelet probes.  Plugins and clients may take for ever.
Fairness ==
    /\ WF_vars(Main) /\ WF_vars(Listen \/ ListenerCloses) /\ WF_vars(CloserRuns)
    /\ WF_vars(NotifierRuns) /\ WF_vars(Probe)
    /\ \A c \in Controllers :
          WF_vars(RunnerRuns(c)) /\ WF_vars(Sync(c))

FairSpec == Spec /\ Fairness

----------------------------------------------------------------------------
(* Correctness.                                                            *)

Patched(responses) == {i \in DOMAIN responses : responses[i].patch # None}

\* What a webhook with n plugins that respond like this has to answer.
Verdict(responses, n) ==
    IF /\ Len(responses) = n
       /\ \A i \in 1..n : responses[i].allowed
       /\ \A i, j \in Patched(responses) : i = j
    THEN IF Patched(responses) = {} THEN Allowed(None)
         ELSE responses[CHOOSE i \in Patched(responses) : TRUE]
    ELSE Denied

(***************************************************************************)
(* The API server gets the patch of at most one plugin, as that plugin     *)
(* made it, and an object only passes if every plugin lets it (admit).     *)
(***************************************************************************)
AnswerIsTheirs ==
    \A r \in Requests :
        handler[r].answer # None => handler[r].answer = Verdict(said[r], Registered)

(***************************************************************************)
(* What the process promises to those who send it requests: asked to end,  *)
(* it lets the requests it is working on end first, or for five seconds    *)
(* (Shutdown and the WaitGroup of runserverFunc).                          *)
(***************************************************************************)
Phase ==
    CASE exit = "returned" -> "ended"
      [] exit \in {"fatal", "aborted", "killed"} -> "aborted"
      [] exit = None /\ closer = "expired" -> "forced"
      [] exit = None /\ closer \in {"polling", "done"} -> "closing"
      [] OTHER -> "up"

Promise == INSTANCE Serving WITH phase <- Phase

ImplementsServing == Promise!Spec

(***************************************************************************)
(* A signal ends the process, whatever its goroutines are doing: no plugin *)
(* that hangs, no cache that does not fill and no listener that comes too  *)
(* late holds up wg.Wait.                                                  *)
(***************************************************************************)
SignalledEnds == notifier = "first" /\ sigChan = 1 ~> ~Alive

(***************************************************************************)
(* A process whose server has failed does not stay: it goes on without one *)
(* (runserver.go:195), but is found out by the probe and ends.             *)
(***************************************************************************)
DeadServerIsReplaced == listener = "failed" ~> ~Alive

(***************************************************************************)
(* Every reconciler that is enabled gets its workers: the informers it     *)
(* waits for are in the factory before the factory is started.             *)
(***************************************************************************)
ControllersGetGoing ==
    \A c \in Controllers :
        boot = "waiting" /\ Enabled(c)
            ~> runner[c] = "running" \/ cancelled \/ ~Alive
=============================================================================
